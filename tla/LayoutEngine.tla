---------------------------- MODULE LayoutEngine ----------------------------
(***************************************************************************)
(* solveNineSixteenFlyer, from an intent to the five regions of a flyer of *)
(* 1080 by 1920 pixels, and validateLayoutSpec, by which the renderer    *)
(* refuses a layout.  The solver does not call the validator: that it      *)
(* passes for every intent is a theorem of RenderingProofs.                *)
(*                                                                         *)
(* The solver does not use the alignment, which is left out.              *)
(***************************************************************************)
EXTENDS Integers

Intents ==
    [headlineProminence : {"LOW", "MEDIUM", "HIGH", "VERY_HIGH"},
     headlineZone : {"UPPER_LEFT", "UPPER_CENTER", "UPPER_RIGHT"},
     heroZone : {"UPPER", "CENTER", "LOWER", "RIGHT", "LEFT"},
     negativeSpace : {"LOW", "MEDIUM", "HIGH"},
     textDensity : {"LOW", "MEDIUM", "HIGH"}]

Canvas == [width |-> 1080, height |-> 1920]
Safe == [top |-> 72, right |-> 64, bottom |-> 72, left |-> 64]
Gap == 28

Rect(x, y, w, h) == [x |-> x, y |-> y, width |-> w, height |-> h]

\* Math.round of n * percent / 100 and of n / 2: halves go up.
RoundPercent(n, percent) == (n * percent + 50) \div 100
RoundHalf(n) == (n + 1) \div 2

InnerWidth == Canvas.width - Safe.left - Safe.right
ContentBottom == Canvas.height - Safe.bottom - 128

-----------------------------------------------------------------------------
(* The solver.                                                             *)

HeadlineHeight(prominence) ==
    CASE prominence = "LOW"       -> 150
      [] prominence = "MEDIUM"    -> 190
      [] prominence = "HIGH"      -> 225
      [] prominence = "VERY_HIGH" -> 260

HeadlineWidth(zone) == RoundPercent(InnerWidth, IF zone = "UPPER_CENTER" THEN 82 ELSE 76)

HorizontalX(zone, width) ==
    CASE zone = "UPPER_LEFT"   -> Safe.left
      [] zone = "UPPER_RIGHT"  -> Safe.left + InnerWidth - width
      [] zone = "UPPER_CENTER" -> Safe.left + RoundHalf(InnerWidth - width)

Headline(intent) ==
    LET width == HeadlineWidth(intent.headlineZone)
    IN  Rect(HorizontalX(intent.headlineZone, width), 190, width,
             HeadlineHeight(intent.headlineProminence))

HeroTop(intent) == 190 + HeadlineHeight(intent.headlineProminence) + Gap

\* Hero and content side by side, under the headline.
ColumnGap(intent) == IF intent.negativeSpace = "HIGH" THEN 48 ELSE 32
HeroWidth(intent) == RoundPercent(InnerWidth, IF intent.negativeSpace = "HIGH" THEN 50 ELSE 54)
ContentWidth(intent) == InnerWidth - HeroWidth(intent) - ColumnGap(intent)
SideHeight(intent) ==
    IF ContentBottom - HeroTop(intent) < 900 THEN ContentBottom - HeroTop(intent) ELSE 900

HeroBeside(intent) ==
    Rect(IF intent.heroZone = "LEFT" THEN Safe.left ELSE Safe.left + InnerWidth - HeroWidth(intent),
         HeroTop(intent), HeroWidth(intent), SideHeight(intent))

ContentBeside(intent) ==
    Rect(IF intent.heroZone = "LEFT" THEN Safe.left + HeroWidth(intent) + ColumnGap(intent)
                                     ELSE Safe.left,
         HeroTop(intent), ContentWidth(intent), SideHeight(intent))

\* Hero and content one above the other.
HeroHeight(zone) == CASE zone = "CENTER" -> 660 [] zone = "UPPER" -> 560 [] zone = "LOWER" -> 500

HeroStacked(intent) ==
    Rect(Safe.left, IF intent.heroZone = "LOWER" THEN HeroTop(intent) + 360 ELSE HeroTop(intent),
         InnerWidth, HeroHeight(intent.heroZone))

ContentStacked(intent) ==
    LET y == HeroTop(intent) + HeroHeight(intent.heroZone) + Gap
    IN  IF intent.heroZone = "LOWER"
        THEN Rect(Safe.left, HeroTop(intent), InnerWidth, 320)
        ELSE Rect(Safe.left, y, InnerWidth,
                  IF ContentBottom - y > 220 THEN ContentBottom - y ELSE 220)

Solve(intent) ==
    LET beside == intent.heroZone \in {"RIGHT", "LEFT"}
    IN  [header   |-> Rect(Safe.left, Safe.top, InnerWidth, 100),
         headline |-> Headline(intent),
         hero     |-> IF beside THEN HeroBeside(intent) ELSE HeroStacked(intent),
         content  |-> IF beside THEN ContentBeside(intent) ELSE ContentStacked(intent),
         footer   |-> Rect(Safe.left, 1748, InnerWidth, 100)]

\* textConstraints: font sizes in pixels and the lines of the body.
Constraints(intent) ==
    [headlineFont |-> CASE intent.headlineProminence = "VERY_HIGH" -> 64
                        [] intent.headlineProminence = "HIGH" -> 60
                        [] OTHER -> 56,
     bodyFont     |-> CASE intent.textDensity = "HIGH" -> 28
                        [] intent.textDensity = "MEDIUM" -> 30
                        [] intent.textDensity = "LOW" -> 32,
     bodyLines    |-> CASE intent.textDensity = "HIGH" -> 6
                        [] intent.textDensity = "MEDIUM" -> 5
                        [] intent.textDensity = "LOW" -> 4]

-----------------------------------------------------------------------------
(* The validator.                                                          *)

InsideSafeArea(r) ==
    /\ r.x >= Safe.left /\ r.y >= Safe.top
    /\ r.x + r.width <= Canvas.width - Safe.right
    /\ r.y + r.height <= Canvas.height - Safe.bottom

Overlaps(a, b) ==
    /\ a.x < b.x + b.width /\ a.x + a.width > b.x
    /\ a.y < b.y + b.height /\ a.y + a.height > b.y

\* The pairs that the validator compares; header against hero, content and
\* footer, and headline against footer, are not among them.
ComparedPairs ==
    {<<"header", "headline">>, <<"headline", "hero">>, <<"headline", "content">>,
     <<"hero", "content">>, <<"hero", "footer">>, <<"content", "footer">>}

Regions == {"header", "headline", "hero", "content", "footer"}

Valid(spec) ==
    /\ \A n \in Regions :
          /\ spec[n].width > 0 /\ spec[n].height > 0
          /\ InsideSafeArea(spec[n])
    /\ \A p \in ComparedPairs : ~Overlaps(spec[p[1]], spec[p[2]])

=============================================================================
