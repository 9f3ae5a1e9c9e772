-------------------------- MODULE RenderingProofs --------------------------
(***************************************************************************)
(* The properties of Rendering, for every request: any texts, assets and   *)
(* identities; and first that the layout engine serves every intent.       *)
(***************************************************************************)
EXTENDS Rendering, FiniteSetTheorems, TLAPS

-----------------------------------------------------------------------------
(* Every intent yields a valid layout.                                     *)

\* The roundings of the fractions of the inner width.
LEMMA Widths ==
    /\ InnerWidth = 952 /\ ContentBottom = 1720
    /\ RoundPercent(InnerWidth, 82) = 781 /\ RoundPercent(InnerWidth, 76) = 724
    /\ RoundPercent(InnerWidth, 50) = 476 /\ RoundPercent(InnerWidth, 54) = 514
    /\ RoundHalf(171) = 86
  BY DEF InnerWidth, ContentBottom, Canvas, Safe, RoundPercent, RoundHalf

\* The headline stays in the upper band, whatever its zone and prominence.
LEMMA HeadlineBand ==
    ASSUME NEW intent \in Intents
    PROVE  LET h == Headline(intent)
           IN  /\ h.x \in 64..292 /\ h.width \in {724, 781} /\ h.x + h.width <= 1016
               /\ h.y = 190 /\ h.height \in 150..260
               /\ HeroTop(intent) = h.y + h.height + 28
  <1>1. HeadlineHeight(intent.headlineProminence) \in 150..260
    BY DEF HeadlineHeight, Intents
  <1>2. CASE intent.headlineZone = "UPPER_CENTER"
    BY <1>1, <1>2, Widths DEF Headline, HeadlineWidth, HorizontalX, Rect, Safe, HeroTop, Gap
  <1>3. CASE intent.headlineZone = "UPPER_LEFT"
    BY <1>1, <1>3, Widths DEF Headline, HeadlineWidth, HorizontalX, Rect, Safe, HeroTop, Gap
  <1>4. CASE intent.headlineZone = "UPPER_RIGHT"
    BY <1>1, <1>4, Widths DEF Headline, HeadlineWidth, HorizontalX, Rect, Safe, HeroTop, Gap
  <1> QED
    BY <1>2, <1>3, <1>4 DEF Intents

\* Hero and content lie below the headline and above the footer, apart from
\* each other, side by side or stacked.
LEMMA HeroAndContentBand ==
    ASSUME NEW intent \in Intents
    PROVE  LET a == Solve(intent).hero  b == Solve(intent).content
           IN  /\ \A r \in {a, b} :
                     /\ r.x \in Int /\ r.y \in Int /\ r.width \in Int /\ r.height \in Int
                     /\ r.x >= 64 /\ r.x + r.width <= 1016 /\ r.width > 0
                     /\ r.y >= HeroTop(intent) /\ r.y + r.height <= 1720 /\ r.height > 0
               /\ ~Overlaps(a, b)
  <1>1. HeroTop(intent) \in 368..478
    BY HeadlineBand DEF Headline, Rect
  <1> HIDE DEF HeroTop
  <1>2. CASE intent.heroZone \in {"RIGHT", "LEFT"}
    <2>1. /\ HeroWidth(intent) \in {476, 514} /\ ColumnGap(intent) \in {32, 48}
          /\ ContentWidth(intent) = 952 - HeroWidth(intent) - ColumnGap(intent)
      BY Widths DEF HeroWidth, ColumnGap, ContentWidth
    <2>2. SideHeight(intent) = 900
      BY <1>1, Widths DEF SideHeight
    <2> QED
      BY <1>1, <1>2, <2>1, <2>2, Widths
      DEF Solve, HeroBeside, ContentBeside, Rect, Safe, Overlaps
  <1>3. CASE intent.heroZone = "LOWER"
    BY <1>1, <1>3, Widths
    DEF Solve, HeroStacked, ContentStacked, HeroHeight, Rect, Safe, Overlaps, Gap
  <1>4. CASE intent.heroZone \in {"UPPER", "CENTER"}
    <2>1. HeroHeight(intent.heroZone) \in {560, 660}
      BY <1>4 DEF HeroHeight
    <2> QED
      BY <1>1, <1>4, <2>1, Widths
      DEF Solve, HeroStacked, ContentStacked, Rect, Safe, Overlaps, Gap
  <1> QED
    BY <1>2, <1>3, <1>4 DEF Intents

\* The validator accepts what the solver makes of any intent: every region is
\* inside the safe area and no two that it compares overlap.
THEOREM EveryIntentIsValid == \A intent \in Intents : Valid(Solve(intent))
  <1> SUFFICES ASSUME NEW intent \in Intents PROVE Valid(Solve(intent))
    OBVIOUS
  <1> DEFINE s == Solve(intent)
  <1>1. /\ s.header = Rect(64, 72, 952, 100) /\ s.footer = Rect(64, 1748, 952, 100)
        /\ s.headline = Headline(intent)
    BY Widths DEF Solve, Safe
  <1>2. /\ s.headline.x \in 64..292 /\ s.headline.width \in {724, 781}
        /\ s.headline.x + s.headline.width <= 1016
        /\ s.headline.y = 190 /\ s.headline.height \in 150..260
        /\ HeroTop(intent) = s.headline.y + s.headline.height + 28
    BY <1>1, HeadlineBand
  <1>3. /\ \A r \in {s.hero, s.content} :
              /\ r.x \in Int /\ r.y \in Int /\ r.width \in Int /\ r.height \in Int
              /\ r.x >= 64 /\ r.x + r.width <= 1016 /\ r.width > 0
              /\ r.y >= HeroTop(intent) /\ r.y + r.height <= 1720 /\ r.height > 0
        /\ ~Overlaps(s.hero, s.content)
    BY HeroAndContentBand
  <1> HIDE DEF s
  <1>4. \A n \in Regions :
            s[n].width > 0 /\ s[n].height > 0 /\ InsideSafeArea(s[n])
    BY <1>1, <1>2, <1>3 DEF Regions, InsideSafeArea, Rect, Safe, Canvas
  <1>5. /\ ~Overlaps(s.header, s.headline) /\ ~Overlaps(s.headline, s.hero)
        /\ ~Overlaps(s.headline, s.content) /\ ~Overlaps(s.hero, s.footer)
        /\ ~Overlaps(s.content, s.footer)
    BY <1>1, <1>2, <1>3 DEF Overlaps, Rect
  <1>6. \A p \in ComparedPairs : ~Overlaps(s[p[1]], s[p[2]])
    BY <1>3, <1>5 DEF ComparedPairs
  <1> QED
    BY <1>4, <1>6 DEF Valid, s

-----------------------------------------------------------------------------
(* The boxes and the texts.                                                *)

\* The regions, with their sizes as the drawing of a text needs them.
LEMMA RegionSizes ==
    ASSUME NEW intent \in Intents
    PROVE  LET l == Solve(intent)
           IN  /\ l.header = Rect(64, 72, 952, 100) /\ l.footer = Rect(64, 1748, 952, 100)
               /\ l.headline = Headline(intent)
               /\ l.headline \in Boxes /\ l.headline.width >= 700
               /\ l.headline.height = HeadlineHeight(intent.headlineProminence)
               /\ l.content \in Boxes /\ l.content.width >= 390 /\ l.content.height >= 220
               /\ l.hero \in Boxes /\ l.hero.width >= 390 /\ l.hero.height >= 500
  <1>1. HeroTop(intent) \in 368..478
    BY HeadlineBand DEF Headline, Rect
  <1>2. /\ Solve(intent).header = Rect(64, 72, 952, 100)
        /\ Solve(intent).footer = Rect(64, 1748, 952, 100)
        /\ Solve(intent).headline = Headline(intent)
    BY Widths DEF Solve, Safe
  <1>3. /\ Headline(intent) \in Boxes /\ Headline(intent).width >= 700
        /\ Headline(intent).height = HeadlineHeight(intent.headlineProminence)
    <2>1. Headline(intent) =
             Rect(Headline(intent).x, 190, Headline(intent).width,
                  HeadlineHeight(intent.headlineProminence))
      BY DEF Headline, Rect
    <2>2. /\ Headline(intent).x \in Int /\ Headline(intent).width \in Int
          /\ Headline(intent).width >= 700
      BY HeadlineBand
    <2>3. HeadlineHeight(intent.headlineProminence) \in Int
      BY DEF HeadlineHeight, Intents
    <2> HIDE DEF Headline
    <2> QED
      BY <2>1, <2>2, <2>3 DEF Rect, Boxes
  <1> HIDE DEF HeroTop
  <1>4. CASE intent.heroZone \in {"RIGHT", "LEFT"}
    <2>1. /\ HeroWidth(intent) \in {476, 514} /\ ColumnGap(intent) \in {32, 48}
          /\ ContentWidth(intent) = 952 - HeroWidth(intent) - ColumnGap(intent)
      BY Widths DEF HeroWidth, ColumnGap, ContentWidth
    <2>2. SideHeight(intent) = 900
      BY <1>1, Widths DEF SideHeight
    <2>3. /\ HeroBeside(intent) \in Boxes /\ HeroBeside(intent).width >= 390
          /\ HeroBeside(intent).height >= 500
      BY <1>1, <2>1, <2>2, Widths DEF HeroBeside, Rect, Safe, Boxes
    <2>4. /\ ContentBeside(intent) \in Boxes /\ ContentBeside(intent).width >= 390
          /\ ContentBeside(intent).height >= 220
      <3>1. ContentWidth(intent) \in Int /\ ContentWidth(intent) >= 390
        BY <2>1
      <3> QED
        BY <1>1, <2>1, <2>2, <3>1 DEF ContentBeside, Rect, Safe, Boxes
    <2> QED
      BY <1>2, <1>3, <1>4, <2>3, <2>4 DEF Solve
  <1>5. CASE intent.heroZone \in {"UPPER", "CENTER", "LOWER"}
    <2>1. HeroHeight(intent.heroZone) \in {500, 560, 660}
      BY <1>5 DEF HeroHeight
    <2>2. /\ HeroStacked(intent) \in Boxes /\ HeroStacked(intent).width >= 390
          /\ HeroStacked(intent).height >= 500
      BY <1>1, <2>1, Widths DEF HeroStacked, Rect, Safe, Boxes
    <2>3. /\ ContentStacked(intent) \in Boxes /\ ContentStacked(intent).width >= 390
          /\ ContentStacked(intent).height >= 220
      BY <1>1, <2>1, Widths DEF ContentStacked, Rect, Safe, Boxes, Gap
    <2> QED
      BY <1>2, <1>3, <1>5, <2>2, <2>3 DEF Solve
  <1> QED
    BY <1>4, <1>5 DEF Intents

Sizes == {28, 30, 32, 56, 60, 64}

\* What a line needs of its text: the box is wide enough for the font, and high
\* enough for as many lines as there may be.
Roomy(e, intent) ==
    /\ e.box.width >= 390 /\ e.font \in Sizes
    /\ \A n \in 1..e.maxLines :
          \/ Baseline(e, n) <= 2 * (e.box.y + e.box.height)
          \/ e.id = "headline" /\ n = 3 /\ intent.headlineProminence = "LOW"

\* The distance of the baselines for each font size.
LEMMA LineHeights ==
    /\ RoundPercent(28, 118) = 33 /\ RoundPercent(30, 118) = 35 /\ RoundPercent(32, 118) = 38
    /\ RoundPercent(56, 118) = 66 /\ RoundPercent(60, 118) = 71 /\ RoundPercent(64, 118) = 76
  BY DEF RoundPercent

\* The five texts that a request may have.
LEMMA TextsAreRoomy ==
    ASSUME NEW r \in Requests, NEW t \in TextsOf(r)
    PROVE  t \in TextElements /\ Roomy(t, r.intent)
  <1> DEFINE l == Solve(r.intent)
             k == Constraints(r.intent)
  <1>1. /\ r.intent \in Intents /\ r.eyebrow \in Texts /\ r.headline \in Texts
        /\ r.body \in Texts /\ r.heroLabel \in Texts /\ r.footer \in Texts
    BY RequestsAssumption
  <1>2. /\ l.header = Rect(64, 72, 952, 100) /\ l.footer = Rect(64, 1748, 952, 100)
        /\ l.headline = Headline(r.intent)
        /\ l.headline \in Boxes /\ l.headline.width >= 700
        /\ l.headline.height = HeadlineHeight(r.intent.headlineProminence)
        /\ l.content \in Boxes /\ l.content.width >= 390 /\ l.content.height >= 220
        /\ l.hero \in Boxes /\ l.hero.width >= 390 /\ l.hero.height >= 500
    BY <1>1, RegionSizes
  <1>3. /\ <<k.bodyFont, k.bodyLines>> \in {<<28, 6>>, <<30, 5>>, <<32, 4>>}
        /\ \/ k.headlineFont = 56 /\ r.intent.headlineProminence = "LOW" /\ l.headline.height = 150
           \/ k.headlineFont = 56 /\ l.headline.height = 190
           \/ k.headlineFont = 60 /\ l.headline.height = 225
           \/ k.headlineFont = 64 /\ l.headline.height = 260
    BY <1>1, <1>2 DEF Constraints, Intents, HeadlineHeight
  <1>4. \A b \in Boxes : AlignFor(b) \in {"left", "center", "right"}
    BY DEF AlignFor, Boxes, Canvas
  <1> HIDE DEF l, k
  <1>5. CASE t = Text("eyebrow", l.header, r.eyebrow, 30, 2, "left")
    <2>1. t \in TextElements
      BY <1>1, <1>2, <1>5 DEF Text, TextElements, Rect, Boxes, Fills
    <2>2. Roomy(t, r.intent)
      BY <1>2, <1>5, LineHeights DEF Text, Roomy, Rect, Baseline, LineHeight, Sizes
    <2> QED
      BY <2>1, <2>2
  <1>6. CASE t = Text("footer", l.footer, r.footer, 28, 2, "left")
    <2>1. t \in TextElements
      BY <1>1, <1>2, <1>6 DEF Text, TextElements, Rect, Boxes, Fills
    <2>2. Roomy(t, r.intent)
      BY <1>2, <1>6, LineHeights DEF Text, Roomy, Rect, Baseline, LineHeight, Sizes
    <2> QED
      BY <2>1, <2>2
  <1>7. CASE t = Text("headline", l.headline, r.headline, k.headlineFont, 3, AlignFor(l.headline))
    <2>1. t \in TextElements
      BY <1>1, <1>2, <1>3, <1>4, <1>7 DEF Text, TextElements, Fills
    <2>2. Roomy(t, r.intent)
      <3>1. l.headline.y \in Int /\ l.headline.height \in Int
        BY <1>2 DEF Boxes
      <3>2. /\ t.box = l.headline /\ t.font = k.headlineFont /\ t.maxLines = 3
            /\ t.id = "headline"
        BY <1>7 DEF Text
      <3>3. LineHeight(t) = RoundPercent(t.font, 118)
        BY DEF LineHeight
      <3>4. t.box.width >= 390
        <4>1. l.headline.width \in Int /\ l.headline.width >= 700
          BY <1>2 DEF Boxes
        <4> QED
          BY <3>2, <4>1
      <3>5. \/ t.font = 56 /\ r.intent.headlineProminence = "LOW" /\ t.box.height = 150
            \/ t.font = 56 /\ t.box.height = 190
            \/ t.font = 60 /\ t.box.height = 225
            \/ t.font = 64 /\ t.box.height = 260
        BY <1>3, <3>2
      <3>6. ASSUME NEW n \in 1..3
            PROVE  \/ Baseline(t, n) <= 2 * (t.box.y + t.box.height)
                   \/ n = 3 /\ r.intent.headlineProminence = "LOW"
        <4>1. Baseline(t, n) = 2 * (t.box.y + t.font) + 2 * (n - 1) * LineHeight(t)
          BY <3>2 DEF Baseline
        <4>2. t.box.y \in Int
          BY <3>1, <3>2
        <4> QED
          BY <3>3, <3>5, <4>1, <4>2, LineHeights
      <3> QED
        BY <3>2, <3>5, <3>6, <3>4 DEF Roomy, Sizes
    <2> QED
      BY <2>1, <2>2
  <1>8. CASE t = Text("body", l.content, r.body, k.bodyFont, k.bodyLines, "left")
    <2>1. t \in TextElements
      BY <1>1, <1>2, <1>3, <1>8 DEF Text, TextElements, Fills
    <2>2. Roomy(t, r.intent)
      <3>1. l.content.y \in Int /\ l.content.height \in Int
        BY <1>2 DEF Boxes
      <3>2. CASE k.bodyFont = 28 /\ k.bodyLines = 6
        BY <1>2, <1>8, <3>1, <3>2, LineHeights DEF Text, Roomy, Baseline, LineHeight, Sizes
      <3>3. CASE k.bodyFont = 30 /\ k.bodyLines = 5
        BY <1>2, <1>8, <3>1, <3>3, LineHeights DEF Text, Roomy, Baseline, LineHeight, Sizes
      <3>4. CASE k.bodyFont = 32 /\ k.bodyLines = 4
        BY <1>2, <1>8, <3>1, <3>4, LineHeights DEF Text, Roomy, Baseline, LineHeight, Sizes
      <3> QED
        BY <1>3, <3>2, <3>3, <3>4
    <2> QED
      BY <2>1, <2>2
  <1>9. CASE t = Text("hero-label", l.hero, r.heroLabel, 28, 2, "center")
    <2>1. t \in TextElements
      BY <1>1, <1>2, <1>9 DEF Text, TextElements, Fills
    <2>2. Roomy(t, r.intent)
      <3>1. l.hero.y \in Int /\ l.hero.height \in Int
        BY <1>2 DEF Boxes
      <3> QED
        BY <1>2, <1>9, <3>1, LineHeights DEF Text, Roomy, Baseline, LineHeight, Sizes
    <2> QED
      BY <2>1, <2>2
  <1> QED
    BY <1>5, <1>6, <1>7, <1>8, <1>9 DEF TextsOf, l, k

-----------------------------------------------------------------------------
(* The elements on their way through the call.                             *)

\* The element of that id that a request may have.
Named(r, id) ==
    CASE id = "background" -> Shape("background", Rect(0, 0, Canvas.width, Canvas.height))
      [] id = "hero"       -> Shape("hero", Solve(r.intent).hero)
      [] OTHER             -> CHOOSE t \in TextsOf(r) : t.id = id

\* The elements are shapes and texts, no two with the same id.
LEMMA ElementsAreSound ==
    ASSUME NEW r \in Requests, NEW e \in Elements(r)
    PROVE  /\ e \in Shapes \/ (e \in TextsOf(r) /\ e.words # Blank)
           /\ e = Named(r, e.id)
  <1>1. CASE e = Shape("background", Rect(0, 0, Canvas.width, Canvas.height))
    BY <1>1 DEF Named, Shape, Shapes, Rect, Boxes, Canvas, Fills
  <1>2. CASE e = Shape("hero", Solve(r.intent).hero)
    <2>1. Solve(r.intent).hero \in Boxes
      BY RegionSizes, RequestsAssumption
    <2> QED
      BY <1>2, <2>1 DEF Named, Shape, Shapes, Fills
  <1>3. CASE e \in TextsOf(r) /\ e.words # Blank
    <2>1. e.id \in {"eyebrow", "headline", "body", "hero-label", "footer"}
      BY <1>3, TextsAreRoomy DEF TextElements
    <2>2. ASSUME NEW f \in TextsOf(r), f.id = e.id PROVE f = e
      BY <1>3, <2>2 DEF TextsOf, Text
    <2> QED
      BY <1>3, <2>1, <2>2 DEF Named
  <1> QED
    BY <1>1, <1>2, <1>3 DEF Elements

\* Every element lies on the canvas.
LEMMA ElementsAreInside ==
    ASSUME NEW r \in Requests, NEW e \in Elements(r)
    PROVE  e.box \in Boxes /\ InsideCanvas(e.box)
  <1>1. ASSUME NEW n \in Regions
        PROVE  Solve(r.intent)[n] \in Boxes /\ InsideCanvas(Solve(r.intent)[n])
    <2>1. Solve(r.intent)[n] \in Boxes
      BY RegionSizes, RequestsAssumption DEF Regions, Rect, Boxes
    <2>2. Solve(r.intent)[n].width > 0 /\ Solve(r.intent)[n].height > 0
          /\ InsideSafeArea(Solve(r.intent)[n])
      BY EveryIntentIsValid, RequestsAssumption DEF Valid
    <2> QED
      BY <2>1, <2>2 DEF InsideSafeArea, InsideCanvas, Safe, Canvas, Boxes
  <1>2. CASE e = Shape("background", Rect(0, 0, Canvas.width, Canvas.height))
    BY <1>2 DEF Shape, Rect, InsideCanvas, Canvas, Boxes
  <1>3. CASE e = Shape("hero", Solve(r.intent).hero)
    BY <1>1, <1>3 DEF Shape, Regions
  <1>4. CASE e \in TextsOf(r)
    BY <1>1, <1>4 DEF TextsOf, Text, Regions
  <1> QED
    BY <1>2, <1>3, <1>4 DEF Elements

\* With its fill an element is what it was.
LEMMA Filled ==
    ASSUME NEW e \in Shapes \cup TextElements, NEW c \in Fills
    PROVE  LET f == [e EXCEPT !.fill = c]
           IN  /\ f.kind = e.kind /\ f.id = e.id /\ f.box = e.box /\ f.fill = c
               /\ e \in Shapes => f \in Shapes
               /\ e \in TextElements =>
                     /\ f \in TextElements /\ f.words = e.words /\ f.font = e.font
                     /\ f.maxLines = e.maxLines /\ f.align = e.align
  <1>1. CASE e \in Shapes
    BY <1>1 DEF Shapes, TextElements
  <1>2. CASE e \in TextElements
    BY <1>2 DEF Shapes, TextElements
  <1> QED
    BY <1>1, <1>2

\* A bound asset is a valid one, in the place of the hero.
Placed(r, elements) ==
    \/ elements = Elements(r)
    \/ /\ r.asset \in Assets /\ ValidAsset(r.asset) /\ r.asset.elementId = "hero"
       /\ elements = Bound(Elements(r), r.asset)

\* An element after the placing of the asset: one of before, or the image.
LEMMA PlacedElement ==
    ASSUME NEW r \in Requests, NEW S, Placed(r, S), NEW e \in S
    PROVE  \E d \in Elements(r) :
              /\ e.id = d.id /\ e.box = d.box
              /\ \/ e = d
                 \/ /\ r.asset \in Assets /\ ValidAsset(r.asset) /\ d.id = "hero"
                    /\ e = Image(d, r.asset) /\ e \in Images
              /\ S # Elements(r) /\ d.id = "hero" => e = Image(d, r.asset)
  <1>1. CASE S = Elements(r)
    BY <1>1
  <1>2. CASE S # Elements(r)
    <2>1. /\ r.asset \in Assets /\ ValidAsset(r.asset) /\ r.asset.elementId = "hero"
          /\ S = Bound(Elements(r), r.asset)
      BY <1>2 DEF Placed
    <2>2. PICK d \in Elements(r) :
              e = IF d.id = r.asset.elementId THEN Image(d, r.asset) ELSE d
      BY <2>1 DEF Bound
    <2>3. CASE d.id = "hero"
      <3>1. e = Image(d, r.asset) /\ d.box \in Boxes
        BY <2>1, <2>2, <2>3, ElementsAreInside
      <3>2. e \in Images /\ e.id = d.id /\ e.box = d.box
        BY <2>1, <2>3, <3>1 DEF Image, Images
      <3> QED
        BY <2>1, <2>3, <3>1, <3>2
    <2>4. CASE d.id # "hero"
      BY <2>1, <2>2, <2>4
    <2> QED
      BY <2>3, <2>4
  <1> QED
    BY <1>1, <1>2

\* A text after the styling is one of the request's, in the colour of its role.
LEMMA StyledText ==
    ASSUME NEW r \in Requests, NEW S, Placed(r, S), NEW e \in Styled(S), e.kind = "text"
    PROVE  /\ e \in TextElements /\ Roomy(e, r.intent) /\ e.words # Blank
           /\ e.fill = FillOf(e)
           /\ \E d \in TextsOf(r) : e.id = d.id /\ e.box = d.box
  <1>1. PICK f \in S : e = IF f.kind = "image" THEN f ELSE [f EXCEPT !.fill = FillOf(f)]
    BY DEF Styled
  <1>2. f.kind # "image" /\ e = [f EXCEPT !.fill = FillOf(f)]
    BY <1>1
  <1>3. f \in Elements(r)
    BY <1>2, PlacedElement DEF Images
  <1>4. FillOf(f) \in Fills
    BY DEF FillOf, Fills, Colours, Surfaces
  <1>5. CASE f \in Shapes
    BY <1>2, <1>4, <1>5, Filled DEF Shapes
  <1>6. CASE f \in TextsOf(r) /\ f.words # Blank
    <2>1. f \in TextElements /\ Roomy(f, r.intent)
      BY <1>6, TextsAreRoomy
    <2>2. /\ e \in TextElements /\ e.id = f.id /\ e.box = f.box /\ e.words = f.words
          /\ e.font = f.font /\ e.maxLines = f.maxLines /\ e.fill = FillOf(f)
      BY <1>2, <1>4, <2>1, Filled
    <2>3. FillOf(e) = FillOf(f)
      BY <2>2 DEF FillOf
    <2>4. \A n : Baseline(e, n) = Baseline(f, n)
      BY <2>2 DEF Baseline, LineHeight
    <2>5. Roomy(e, r.intent)
      BY <2>1, <2>2, <2>4 DEF Roomy
    <2> QED
      BY <1>6, <2>2, <2>3, <2>5
  <1> QED
    BY <1>3, <1>5, <1>6, ElementsAreSound

\* What the checks after the styling look at is in order.
LEMMA StyledIsValid ==
    ASSUME NEW r \in Requests, NEW S, Placed(r, S), r.identity.hex
    PROVE  ValidSpec(Styled(S), r.identity) /\ Styled(S) \subseteq Shapes \cup TextElements \cup Images
  <1>1. ASSUME NEW e \in Styled(S)
        PROVE  \E f \in S :
                  /\ e = IF f.kind = "image" THEN f ELSE [f EXCEPT !.fill = FillOf(f)]
                  /\ e.id = f.id /\ e.box = f.box /\ e.kind = f.kind
                  /\ e \in Shapes \cup TextElements \cup Images
    <2>1. PICK f \in S : e = IF f.kind = "image" THEN f ELSE [f EXCEPT !.fill = FillOf(f)]
      BY DEF Styled
    <2>2. f \in Shapes \cup TextElements \/ f \in Images
      BY PlacedElement, ElementsAreSound, TextsAreRoomy
    <2>3. FillOf(f) \in Fills
      BY DEF FillOf, Fills, Colours, Surfaces
    <2>4. CASE f \in Images
      BY <2>1, <2>4 DEF Images
    <2>5. CASE f \in Shapes \cup TextElements
      <3>1. f.kind # "image"
        BY <2>5 DEF Shapes, TextElements
      <3> QED
        BY <2>1, <2>3, <2>5, <3>1, Filled
    <2> QED
      BY <2>2, <2>4, <2>5
  <1>2. ASSUME NEW e \in S, NEW f \in S, e.id = f.id PROVE e = f
    <2>1. PICK d \in Elements(r) :
              /\ e.id = d.id
              /\ e = d \/ (e = Image(d, r.asset) /\ d.id = "hero" /\ r.asset.elementId = "hero" /\ S # Elements(r))
              /\ S # Elements(r) /\ d.id = "hero" => e = Image(d, r.asset)
      BY PlacedElement DEF Placed
    <2>2. PICK g \in Elements(r) :
              /\ f.id = g.id
              /\ f = g \/ (f = Image(g, r.asset) /\ g.id = "hero" /\ r.asset.elementId = "hero" /\ S # Elements(r))
              /\ S # Elements(r) /\ g.id = "hero" => f = Image(g, r.asset)
      BY PlacedElement DEF Placed
    <2>3. d = g
      <3>1. d = Named(r, d.id) /\ g = Named(r, g.id)
        BY ElementsAreSound
      <3>2. d.id = g.id
        BY <1>2, <2>1, <2>2
      <3> QED
        BY <3>1, <3>2
    <2> QED
      BY <2>1, <2>2, <2>3
  <1>3. ASSUME NEW e \in Styled(S), NEW f \in Styled(S), e.id = f.id PROVE e = f
    BY <1>1, <1>2, <1>3
  <1>4. ASSUME NEW e \in Styled(S)
        PROVE  /\ InsideCanvas(e.box)
               /\ e.kind = "text" => e.words # Blank
               /\ e.kind = "image" => SafeRaster(e.asset)
    <2>1. PICK f \in S :
             /\ e = IF f.kind = "image" THEN f ELSE [f EXCEPT !.fill = FillOf(f)]
             /\ e.box = f.box /\ e.kind = f.kind
      BY <1>1
    <2>2. InsideCanvas(f.box)
      BY PlacedElement, ElementsAreInside
    <2>3. ASSUME e.kind = "image" PROVE SafeRaster(e.asset)
      <3>1. f \notin Elements(r)
        BY <2>1, <2>3, ElementsAreSound, TextsAreRoomy DEF Shapes, TextElements
      <3>2. e = f /\ ValidAsset(r.asset) /\ \E d \in Elements(r) : f = Image(d, r.asset)
        BY <2>1, <2>3, <3>1, PlacedElement
      <3> QED
        BY <3>2 DEF Image, ValidAsset
    <2> QED
      BY <2>1, <2>2, <2>3, StyledText
  <1> QED
    BY <1>1, <1>3, <1>4 DEF ValidSpec

-----------------------------------------------------------------------------
(* The invariant.                                                          *)

\* How far a line may go: it fits, or it is one of the words.
LineFits(e, length) ==
    length <= MaxChars(e) \/ \E j \in DOMAIN e.words : length = e.words[j]

Stage ==
    /\ request \in Requests
    /\ step \notin {"parse", "refused"} => request.typed /\ request.headline # Blank
    /\ step = "bind" => spec = Elements(request)
    /\ step = "style" => Placed(request, spec)
    /\ step \in {"draw", "wrap", "drawn"} =>
          /\ ValidIdentity(request.identity)
          /\ \E S : Placed(request, S) /\ spec = Styled(S)
    /\ RefusedForItsInput

Lines ==
    /\ step \notin {"wrap", "drawn"} => next = 1 /\ current = 0 /\ lines = <<>>
    /\ step \in {"wrap", "drawn"} =>
          /\ text \in spec /\ text \in TextElements /\ next >= 1
          /\ Len(lines) <= text.maxLines - (IF step = "wrap" THEN 1 ELSE 0)
          /\ step = "drawn" => Len(lines) >= 1
          /\ \A i \in DOMAIN lines : LineFits(text, lines[i])
          /\ current = 0 \/ LineFits(text, current)

IInv == TypeOK /\ Stage /\ Lines

\* The initial states.
LEMMA IInvInit == Init => IInv
  <1> SUFFICES ASSUME Init PROVE IInv
    OBVIOUS
  <1>1. <<>> \in Seq(Nat)
    OBVIOUS
  <1>2. TypeOK
    BY <1>1 DEF Init, TypeOK
  <1>3. Stage /\ Lines
    BY DEF Init, Stage, Lines, RefusedForItsInput
  <1> QED
    BY <1>2, <1>3 DEF IInv

\* A call that goes on or is refused keeps everything but its elements.
LEMMA Advanced ==
    ASSUME IInv, NEW ok, NEW to \in {"create", "bind", "style", "draw"}, NEW S,
           step \in {"parse", "create", "bind", "style"},
           Advance(ok, to, S), ok => S \subseteq Shapes \cup TextElements \cup Images
    PROVE  /\ TypeOK' /\ Lines' /\ request' = request
           /\ \/ ok /\ step' = to /\ spec' = S
              \/ ~ok /\ step' = "refused"
  <1>1. /\ \/ ok /\ step' = to /\ spec' = S
           \/ ~ok /\ step' = "refused" /\ spec' = spec
        /\ UNCHANGED <<request, text, next, current, lines, marked>>
    BY DEF Advance, wrapping
  <1>2. TypeOK'
    BY <1>1 DEF IInv, TypeOK
  <1>3. Lines'
    BY <1>1 DEF IInv, Lines
  <1> QED
    BY <1>1, <1>2, <1>3

\* The steps of a call up to the drawing: no check throws on what the steps
\* before it have made.
LEMMA StepNext ==
    ASSUME IInv, Parse \/ Create \/ Bind \/ Style
    PROVE  IInv'
  <1> USE DEF IInv
  <1>1. request \in Requests /\ request.intent \in Intents /\ request.asset \in Assets \cup {NoAsset}
    BY RequestsAssumption DEF Stage
  <1>2. CASE Parse
    <2> DEFINE ok == request.typed /\ request.headline # Blank
    <2>1. step = "parse" /\ Advance(ok, "create", {})
      BY <1>2 DEF Parse
    <2>2. ok <=> request.typed /\ request.headline # Blank
      OBVIOUS
    <2> HIDE DEF ok
    <2>3. /\ TypeOK' /\ Lines' /\ request' = request
          /\ \/ ok /\ step' = "create"
             \/ ~ok /\ step' = "refused"
      BY <2>1, Advanced
    <2>4. Stage'
      BY <1>1, <2>3, <2>2 DEF Stage, RefusedForItsInput, Faulty
    <2> QED
      BY <2>3, <2>4
  <1>3. CASE Create
    <2> DEFINE ok == Valid(Solve(request.intent)) /\ request.headline # Blank
    <2>1. step = "create" /\ Advance(ok, "bind", Elements(request))
      BY <1>3 DEF Create
    <2>2. ok
      BY <1>1, <2>1, EveryIntentIsValid DEF Stage
    <2> HIDE DEF ok
    <2>3. ok => Elements(request) \subseteq Shapes \cup TextElements \cup Images
      BY <1>1, ElementsAreSound, TextsAreRoomy
    <2>4. /\ TypeOK' /\ Lines' /\ request' = request
          /\ \/ ok /\ step' = "bind" /\ spec' = Elements(request)
             \/ ~ok /\ step' = "refused"
      BY <2>1, <2>3, Advanced
    <2>5. Stage'
      BY <1>1, <2>1, <2>2, <2>4 DEF Stage, RefusedForItsInput
    <2> QED
      BY <2>4, <2>5
  <1>4. CASE Bind
    <2>1. step = "bind" /\ spec = Elements(request)
      BY <1>4 DEF Bind, Stage
    <2>2. Elements(request) \subseteq Shapes \cup TextElements \cup Images
      BY <1>1, ElementsAreSound, TextsAreRoomy
    <2>3. CASE request.asset = NoAsset
      <3> DEFINE ok == TRUE
      <3>1. Advance(ok, "style", Elements(request))
        BY <1>4, <2>1, <2>3 DEF Bind
      <3>2. ok
        OBVIOUS
      <3> HIDE DEF ok
      <3>3. ok => Elements(request) \subseteq Shapes \cup TextElements \cup Images
        BY <2>2
      <3>4. /\ TypeOK' /\ Lines' /\ request' = request
            /\ \/ ok /\ step' = "style" /\ spec' = Elements(request)
               \/ ~ok /\ step' = "refused"
        BY <2>1, <3>1, <3>3, Advanced
      <3>5. Stage'
        BY <1>1, <2>1, <3>2, <3>4 DEF Stage, RefusedForItsInput, Placed
      <3> QED
        BY <3>4, <3>5
    <2>4. CASE request.asset # NoAsset
      <3> DEFINE a == request.asset
                 ok == ValidAsset(a) /\ Bindable(Elements(request), a)
      <3>1. a \in Assets /\ Advance(ok, "style", Bound(Elements(request), a))
        BY <1>1, <1>4, <2>1, <2>4 DEF Bind
      <3>2. ok <=> ValidAsset(a) /\ a.elementId = "hero"
        <4>1. Shape("hero", Solve(request.intent).hero) \in Elements(request)
          BY DEF Elements
        <4> QED
          BY <4>1 DEF Bindable, Shape
      <3>3. ok => Placed(request, Bound(Elements(request), a))
        BY <3>1, <3>2 DEF Placed
      <3>4. ok => Bound(Elements(request), a) \subseteq Shapes \cup TextElements \cup Images
        BY <1>1, <2>2, <3>3, PlacedElement
      <3> HIDE DEF ok
      <3>5. /\ TypeOK' /\ Lines' /\ request' = request
            /\ \/ ok /\ step' = "style" /\ spec' = Bound(Elements(request), a)
               \/ ~ok /\ step' = "refused"
        BY <2>1, <3>1, <3>4, Advanced
      <3>6. Stage'
        BY <1>1, <2>1, <2>4, <3>2, <3>3, <3>5 DEF Stage, RefusedForItsInput, Faulty
      <3> QED
        BY <3>5, <3>6
    <2> QED
      BY <2>3, <2>4
  <1>5. CASE Style
    <2> DEFINE ok == ValidIdentity(request.identity) /\ ValidSpec(Styled(spec), request.identity)
    <2>1. step = "style" /\ Placed(request, spec) /\ Advance(ok, "draw", Styled(spec))
      BY <1>5 DEF Style, Stage
    <2>2. /\ ok <=> ValidIdentity(request.identity)
          /\ ok => Styled(spec) \subseteq Shapes \cup TextElements \cup Images
      BY <1>1, <2>1, StyledIsValid DEF ValidIdentity
    <2> HIDE DEF ok
    <2>3. /\ TypeOK' /\ Lines' /\ request' = request
          /\ \/ ok /\ step' = "draw" /\ spec' = Styled(spec)
             \/ ~ok /\ step' = "refused"
      BY <2>1, <2>2, Advanced
    <2>4. Stage'
      BY <1>1, <2>1, <2>2, <2>3 DEF Stage, RefusedForItsInput, Faulty
    <2> QED
      BY <2>3, <2>4
  <1> QED
    BY <1>2, <1>3, <1>4, <1>5

\* A line has room for eight characters at least.
LEMMA MaxCharsBound ==
    ASSUME NEW e \in TextElements
    PROVE  MaxChars(e) \in Nat /\ MaxChars(e) >= 8
  <1>1. e.box.width \in Int /\ e.font \in 28..64
    BY DEF TextElements, Boxes
  <1>2. 100 * e.box.width \in Int /\ 56 * e.font \in Nat /\ 56 * e.font > 0
    BY <1>1
  <1>3. (100 * e.box.width) \div (56 * e.font) \in Int
    BY <1>2
  <1> QED
    BY <1>3 DEF MaxChars

\* A line of so many characters is no wider than its box, by the width that
\* wrapText gives a character.
LEMMA LineWidth ==
    ASSUME NEW e \in TextElements, e.box.width >= 390, e.font \in Sizes,
           NEW n \in Nat, n <= MaxChars(e)
    PROVE  56 * e.font * n <= 100 * e.box.width
  <1>1. e.box.width \in Int
    BY DEF TextElements, Boxes
  <1>2. CASE e.font = 28
    BY <1>1, <1>2 DEF MaxChars
  <1>3. CASE e.font = 30
    BY <1>1, <1>3 DEF MaxChars
  <1>4. CASE e.font = 32
    BY <1>1, <1>4 DEF MaxChars
  <1>5. CASE e.font = 56
    BY <1>1, <1>5 DEF MaxChars
  <1>6. CASE e.font = 60
    BY <1>1, <1>6 DEF MaxChars
  <1>7. CASE e.font = 64
    BY <1>1, <1>7 DEF MaxChars
  <1> QED
    BY <1>2, <1>3, <1>4, <1>5, <1>6, <1>7 DEF Sizes

\* Appending to the lines.
LEMMA Appended ==
    ASSUME NEW e \in TextElements, NEW s \in Seq(Nat), NEW n \in Nat, LineFits(e, n),
           \A i \in DOMAIN s : LineFits(e, s[i])
    PROVE  /\ Append(s, n) \in Seq(Nat) /\ Len(Append(s, n)) = Len(s) + 1
           /\ \A i \in DOMAIN Append(s, n) : LineFits(e, Append(s, n)[i])
  <1>1. Append(s, n) \in Seq(Nat) /\ Len(Append(s, n)) = Len(s) + 1
    OBVIOUS
  <1>2. ASSUME NEW i \in DOMAIN Append(s, n) PROVE LineFits(e, Append(s, n)[i])
    <2>1. i \in 1..(Len(s) + 1)
      BY <1>1
    <2>2. CASE i = Len(s) + 1
      BY <2>2
    <2>3. CASE i # Len(s) + 1
      <3>1. i \in DOMAIN s /\ Append(s, n)[i] = s[i]
        BY <2>1, <2>3
      <3> QED
        BY <3>1
    <2> QED
      BY <2>2, <2>3
  <1> QED
    BY <1>1, <1>2

\* The lines are drawn word by word, and closed.
LEMMA DrawNext ==
    ASSUME IInv, Draw \/ Word \/ Close
    PROVE  IInv'
  <1> USE DEF IInv
  <1>1. /\ UNCHANGED <<request, spec>> /\ step \in {"draw", "wrap"} /\ step' \in {"wrap", "drawn"}
    BY DEF Draw, Word, Close, LoopEnded
  <1>2. Stage'
    BY <1>1 DEF Stage, RefusedForItsInput
  <1>3. PICK S : Placed(request, S) /\ spec = Styled(S)
    BY <1>1 DEF Stage
  <1>4. CASE Draw
    <2>1. text' \in spec /\ text' \in TextElements
      BY <1>2, <1>3, <1>4, StyledText DEF Draw, Stage
    <2>2. step = "draw" /\ step' = "wrap" /\ UNCHANGED <<next, current, lines, marked>>
      BY <1>4 DEF Draw
    <2>3. TypeOK'
      BY <1>1, <2>1, <2>2 DEF TypeOK
    <2>4. text'.maxLines \in 2..6
      BY <2>1 DEF TextElements
    <2>5. Lines'
      BY <1>1, <2>1, <2>2, <2>4 DEF Lines
    <2> QED
      BY <1>2, <2>3, <2>5
  <1>5. CASE Word
    <2> DEFINE word == text.words[next]
               longer == IF current = 0 THEN word ELSE current + 1 + word
    <2>1. /\ step = "wrap" /\ step' = "wrap" /\ ~LoopEnded /\ next' = next + 1
          /\ UNCHANGED <<text, marked>>
      BY <1>5 DEF Word
    <2>2. /\ text \in spec /\ text \in TextElements /\ next \in Nat /\ next >= 1 /\ current \in Nat
          /\ lines \in Seq(Nat) /\ Len(lines) <= text.maxLines - 1 /\ text.maxLines \in 2..6
          /\ \A i \in DOMAIN lines : LineFits(text, lines[i])
          /\ current = 0 \/ LineFits(text, current)
      BY <2>1 DEF Lines, TypeOK, TextElements
    <2>3. next \in DOMAIN text.words /\ text.words \in Seq(Nat) /\ word \in Nat
      BY <2>1, <2>2 DEF LoopEnded, TextElements, Texts
    <2>4. LineFits(text, word)
      BY <2>3 DEF LineFits
    <2>5. CASE /\ longer <= MaxChars(text) \/ current = 0
               /\ current' = longer /\ UNCHANGED lines
      <3>1. current' \in Nat /\ LineFits(text, current')
        BY <2>2, <2>3, <2>4, <2>5 DEF LineFits
      <3>2. TypeOK'
        BY <1>1, <2>1, <2>2, <2>5, <3>1 DEF TypeOK
      <3>3. Lines'
        BY <1>1, <2>1, <2>2, <2>5, <3>1 DEF Lines, LineFits, MaxChars
      <3> QED
        BY <1>2, <3>2, <3>3
    <2>6. CASE /\ longer > MaxChars(text) /\ current # 0
               /\ lines' = Append(lines, current) /\ current' = word
      <3>1. /\ lines' \in Seq(Nat) /\ Len(lines') = Len(lines) + 1
            /\ \A i \in DOMAIN lines' : LineFits(text, lines'[i])
        BY <2>2, <2>6, Appended
      <3>2. Len(lines') <= text.maxLines - 1
        BY <2>1, <2>2, <3>1 DEF LoopEnded
      <3>3. TypeOK'
        BY <1>1, <2>1, <2>2, <2>3, <2>6, <3>1 DEF TypeOK
      <3>4. Lines'
        BY <1>1, <2>1, <2>2, <2>4, <2>6, <3>1, <3>2 DEF Lines, LineFits, MaxChars
      <3> QED
        BY <1>2, <3>3, <3>4
    <2> QED
      BY <1>5, <2>5, <2>6 DEF Word
  <1>6. CASE Close
    <2>1. step = "wrap" /\ step' = "drawn" /\ UNCHANGED <<text, next, current>> /\ marked' \in BOOLEAN
      BY <1>6 DEF Close
    <2>2. /\ text \in spec /\ text \in TextElements /\ next \in Nat /\ next >= 1 /\ current \in Nat
          /\ lines \in Seq(Nat) /\ Len(lines) <= text.maxLines - 1 /\ text.maxLines \in 2..6
          /\ \A i \in DOMAIN lines : LineFits(text, lines[i])
          /\ current = 0 \/ LineFits(text, current)
      BY <2>1 DEF Lines, TypeOK, TextElements
    <2>3. MaxChars(text) \in Nat /\ MaxChars(text) >= 8
      BY <2>2, MaxCharsBound
    <2>4. PICK n \in {current, CutTo(current, MaxChars(text))} : lines' = Append(lines, n)
      BY <1>6 DEF Close
    <2>5. n \in Nat /\ LineFits(text, n)
      BY <2>2, <2>3, <2>4 DEF CutTo, LineFits
    <2>6. /\ lines' \in Seq(Nat) /\ Len(lines') = Len(lines) + 1
          /\ \A i \in DOMAIN lines' : LineFits(text, lines'[i])
      BY <2>2, <2>4, <2>5, Appended
    <2>7. TypeOK'
      BY <1>1, <2>1, <2>2, <2>6 DEF TypeOK
    <2>8. Lines'
      BY <1>1, <2>1, <2>2, <2>6 DEF Lines, LineFits, MaxChars
    <2> QED
      BY <1>2, <2>7, <2>8
  <1> QED
    BY <1>4, <1>5, <1>6

\* Every step keeps the invariant.
LEMMA IInvNext == IInv /\ [Next]_vars => IInv'
  <1> SUFFICES ASSUME IInv, [Next]_vars PROVE IInv'
    OBVIOUS
  <1>1. CASE UNCHANGED vars
    BY <1>1 DEF vars, IInv, TypeOK, Stage, Lines, RefusedForItsInput
  <1>2. CASE Parse \/ Create \/ Bind \/ Style
    BY <1>2, StepNext
  <1>3. CASE Draw \/ Word \/ Close
    BY <1>3, DrawNext
  <1> QED
    BY <1>1, <1>2, <1>3 DEF Next

-----------------------------------------------------------------------------
(* The length of a text.  Joined is defined by recursion over the words,   *)
(* and what is proved of it needs an induction; the induction theorems of  *)
(* the library cannot be used, so it is made from finite sets: a set that  *)
(* has 0, and with a number its successor, has every number.               *)

\* A missing number m would leave finitely many below it in the set, and the
\* successor would map these into, but not onto, them.
LEMMA SetInduction ==
    ASSUME NEW P, 0 \in P, \A n \in Nat : n \in P => n + 1 \in P
    PROVE  \A n \in Nat : n \in P
  <1> SUFFICES ASSUME NEW m \in Nat, m \notin P PROVE FALSE
    OBVIOUS
  <1> DEFINE A == {n \in Nat : n \in P /\ n < m}
             succ == [n \in A |-> n + 1]
  <1>1. \A n \in A : n + 1 \in A
    OBVIOUS
  <1>2. IsFiniteSet(A)
    <2>1. A \in SUBSET Nat /\ \A s \in A : s <= m
      OBVIOUS
    <2> HIDE DEF A
    <2> QED
      BY <2>1, FS_BoundedSetOfNaturals
  <1>3. succ \in Injection(A, A)
    <2>1. succ \in [A -> A]
      BY <1>1
    <2>2. \A a, b \in A : succ[a] = succ[b] => a = b
      OBVIOUS
    <2> HIDE DEF succ, A
    <2> QED
      BY <2>1, <2>2 DEF Injection, IsInjective
  <1>4. succ \in Surjection(A, A)
    <2> HIDE DEF A, succ
    <2> QED
      BY <1>2, <1>3, FS_Injection
  <1>5. 0 \in A
    <2>1. m # 0
      OBVIOUS
    <2> QED
      BY <2>1
  <1>6. \E n \in A : succ[n] = 0
    BY <1>4, <1>5 DEF Surjection
  <1> QED
    BY <1>6

\* The lengths of the beginnings of a text: the function that Joined applies.
LengthsOf(s, f) ==
    f = [n \in 0..Len(s) |-> IF n = 0 THEN -1 ELSE f[n - 1] + 1 + s[n]]

UpTo(s) == CHOOSE f : LengthsOf(s, f)

\* Joined is the last of these values.
LEMMA JoinedIsTheLast ==
    ASSUME NEW s PROVE Joined(s) = UpTo(s)[Len(s)]
  BY DEF Joined, UpTo, LengthsOf

\* There is such a function for every text: for one word more it has one more
\* value.
LEMMA LengthsExist ==
    ASSUME NEW s \in Seq(Nat)
    PROVE  \E f : LengthsOf(s, f)
  <1> DEFINE Upto(m, f) == f = [n \in 0..m |-> IF n = 0 THEN -1 ELSE f[n - 1] + 1 + s[n]]
             P == {m \in Nat : \E f : Upto(m, f)}
  <1>1. 0 \in P
    <2> DEFINE f == [n \in 0..0 |-> -1]
    <2>1. Upto(0, f)
      OBVIOUS
    <2> QED
      BY <2>1
  <1>2. ASSUME NEW m \in Nat, m \in P PROVE m + 1 \in P
    <2>1. PICK f : Upto(m, f)
      BY <1>2
    <2> DEFINE g == [n \in 0..(m + 1) |-> IF n = m + 1 THEN f[m] + 1 + s[m + 1] ELSE f[n]]
    <2>2. ASSUME NEW n \in 0..(m + 1)
          PROVE  g[n] = IF n = 0 THEN -1 ELSE g[n - 1] + 1 + s[n]
      <3>1. CASE n = 0
        BY <2>1, <3>1
      <3>2. CASE n # 0 /\ n # m + 1
        <4>1. n \in 0..m /\ n - 1 \in 0..m /\ n - 1 # m + 1 /\ n - 1 \in 0..(m + 1)
          BY <3>2
        <4>2. f[n] = f[n - 1] + 1 + s[n]
          BY <2>1, <3>2, <4>1
        <4> QED
          BY <3>2, <4>1, <4>2
      <3>3. CASE n = m + 1
        BY <3>3
      <3> QED
        BY <3>1, <3>2, <3>3
    <2>3. g = [n \in 0..(m + 1) |-> g[n]]
      OBVIOUS
    <2> HIDE DEF g
    <2>4. Upto(m + 1, g)
      BY <2>2, <2>3
    <2> QED
      BY <2>4
  <1> HIDE DEF P
  <1>3. Len(s) \in P
    BY <1>1, <1>2, SetInduction
  <1> QED
    BY <1>3 DEF P, LengthsOf

\* Its equations, and that its values are numbers.
LEMMA LengthsAre ==
    ASSUME NEW s \in Seq(Nat)
    PROVE  /\ Len(s) \in Nat
           /\ UpTo(s)[0] = -1
           /\ \A n \in 1..Len(s) : UpTo(s)[n] = UpTo(s)[n - 1] + 1 + s[n]
           /\ \A n \in 0..Len(s) : UpTo(s)[n] \in Int
  <1> DEFINE f == UpTo(s)
             P == {n \in Nat : n <= Len(s) => f[n] \in Int}
  <1>1. LengthsOf(s, f)
    BY LengthsExist DEF UpTo
  <1> HIDE DEF f
  <1>2. f[0] = -1 /\ \A n \in 1..Len(s) : f[n] = f[n - 1] + 1 + s[n]
    BY <1>1 DEF LengthsOf
  <1>3. 0 \in P
    BY <1>2
  <1>4. ASSUME NEW n \in Nat, n \in P PROVE n + 1 \in P
    <2> SUFFICES ASSUME n + 1 <= Len(s) PROVE f[n + 1] \in Int
      OBVIOUS
    <2>1. f[n] \in Int /\ n + 1 \in 1..Len(s) /\ s[n + 1] \in Nat
      BY <1>4
    <2>2. f[n + 1] = f[n] + 1 + s[n + 1]
      BY <1>2, <2>1
    <2> QED
      BY <2>1, <2>2
  <1> HIDE DEF P
  <1>5. \A n \in Nat : n \in P
    BY <1>3, <1>4, SetInduction
  <1>6. \A n \in 0..Len(s) : f[n] \in Int
    BY <1>5 DEF P
  <1> QED
    BY <1>2, <1>6 DEF f

\* A word more adds its length and a blank.
LEMMA JoinedAppend ==
    ASSUME NEW s \in Seq(Nat), NEW x \in Nat
    PROVE  Joined(Append(s, x)) = Joined(s) + 1 + x /\ Joined(s) \in Int
  <1> DEFINE t == Append(s, x)
             f == UpTo(s)
             g == UpTo(t)
             P == {n \in Nat : n <= Len(s) => g[n] = f[n]}
  <1>1. t \in Seq(Nat) /\ Len(t) = Len(s) + 1 /\ Len(s) \in Nat /\ t[Len(s) + 1] = x
        /\ \A n \in 1..Len(s) : t[n] = s[n]
    OBVIOUS
  <1> HIDE DEF t
  <1>2. f[0] = -1 /\ \A n \in 1..Len(s) : f[n] = f[n - 1] + 1 + s[n]
    BY LengthsAre
  <1>3. g[0] = -1 /\ \A n \in 1..Len(t) : g[n] = g[n - 1] + 1 + t[n]
    BY <1>1, LengthsAre
  <1>4. f[Len(s)] \in Int
    BY <1>1, LengthsAre
  <1>5. Joined(s) = f[Len(s)] /\ Joined(t) = g[Len(t)]
    BY JoinedIsTheLast
  <1> HIDE DEF f, g
  <1>6. 0 \in P
    BY <1>2, <1>3
  <1>7. ASSUME NEW n \in Nat, n \in P PROVE n + 1 \in P
    <2> SUFFICES ASSUME n + 1 <= Len(s) PROVE g[n + 1] = f[n + 1]
      OBVIOUS
    <2>1. g[n] = f[n] /\ n + 1 \in 1..Len(s) /\ n + 1 \in 1..Len(t)
      BY <1>1, <1>7
    <2> QED
      BY <1>1, <1>2, <1>3, <2>1
  <1> HIDE DEF P
  <1>8. Len(s) \in P
    BY <1>1, <1>6, <1>7, SetInduction
  <1>9. g[Len(s)] = f[Len(s)]
    BY <1>1, <1>8 DEF P
  <1>10. g[Len(t)] = g[Len(s)] + 1 + x
    BY <1>1, <1>3
  <1> QED
    BY <1>4, <1>5, <1>9, <1>10 DEF t

\* The more words, the longer the text.
LEMMA LengthsGrow ==
    ASSUME NEW s \in Seq(Nat), NEW m \in 0..Len(s), m < Len(s)
    PROVE  UpTo(s)[m] < Joined(s)
  <1> DEFINE f == UpTo(s)
             P == {n \in Nat : m + 1 + n <= Len(s) => f[m] < f[m + 1 + n]}
  <1>1. /\ Len(s) \in Nat /\ \A n \in 1..Len(s) : f[n] = f[n - 1] + 1 + s[n]
        /\ \A n \in 0..Len(s) : f[n] \in Int
    BY LengthsAre
  <1>2. Joined(s) = f[Len(s)]
    BY JoinedIsTheLast
  <1> HIDE DEF f
  <1>3. \A n \in 0..Len(s) : n + 1 <= Len(s) => f[n] < f[n + 1]
    <2> SUFFICES ASSUME NEW n \in 0..Len(s), n + 1 <= Len(s) PROVE f[n] < f[n + 1]
      OBVIOUS
    <2>1. n + 1 \in 1..Len(s) /\ s[n + 1] \in Nat /\ f[n] \in Int
      BY <1>1
    <2>2. f[n + 1] = f[n] + 1 + s[n + 1]
      BY <1>1, <2>1
    <2> QED
      BY <2>1, <2>2
  <1>4. 0 \in P
    BY <1>1, <1>3
  <1>5. ASSUME NEW n \in Nat, n \in P PROVE n + 1 \in P
    <2> SUFFICES ASSUME m + 1 + (n + 1) <= Len(s) PROVE f[m] < f[m + 1 + (n + 1)]
      OBVIOUS
    <2> DEFINE k == m + 1 + n
    <2>1. k \in 0..Len(s) /\ k + 1 \in 0..Len(s) /\ k + 1 <= Len(s) /\ m + 1 + (n + 1) = k + 1
      BY <1>1
    <2>2. f[m] < f[k]
      BY <1>5, <2>1
    <2> HIDE DEF k
    <2>3. f[k] < f[k + 1] /\ f[m] \in Int /\ f[k] \in Int /\ f[k + 1] \in Int
      BY <1>1, <1>3, <2>1
    <2> QED
      BY <2>1, <2>2, <2>3
  <1> HIDE DEF P
  <1>6. Len(s) - m - 1 \in Nat
    BY <1>1
  <1>7. Len(s) - m - 1 \in P
    BY <1>4, <1>5, <1>6, SetInduction
  <1>8. m + 1 + (Len(s) - m - 1) = Len(s)
    BY <1>1
  <1>9. f[m] < f[Len(s)]
    BY <1>6, <1>7, <1>8 DEF P
  <1> QED
    BY <1>2, <1>9 DEF f

-----------------------------------------------------------------------------
(* The cuts.                                                               *)

\* While a text is wrapped its lines hold the words read so far: joined they are
\* as long as these words, so that the lengths compared when the last line is
\* closed differ exactly when words are left.
CutInv ==
    /\ step \in {"wrap", "drawn"} => text.words \in Texts /\ text.maxLines \in 2..6
    /\ step = "wrap" =>
          /\ next - 1 \in 0..Len(text.words)
          /\ next = 1 => lines = <<>> /\ current = 0
          /\ next > 1 => /\ current > 0
                         /\ Joined(Append(lines, current)) = UpTo(text.words)[next - 1]
    /\ CutsAreMarked

\* Nothing has been wrapped yet.
LEMMA CutInvInit == Init => CutInv
  BY DEF Init, CutInv, CutsAreMarked

\* A word is read: it is on the current line, or it is the current line.
LEMMA WordKeepsCuts ==
    ASSUME IInv, CutInv, Word
    PROVE  CutInv'
  <1> DEFINE w == text.words
             word == w[next]
             longer == IF current = 0 THEN word ELSE current + 1 + word
  <1>1. /\ step = "wrap" /\ step' = "wrap" /\ ~LoopEnded /\ next' = next + 1
        /\ UNCHANGED <<text, marked>>
    BY DEF Word
  <1>2. /\ next \in Nat /\ next >= 1 /\ current \in Nat /\ lines \in Seq(Nat)
    BY <1>1 DEF IInv, Lines, TypeOK
  <1>3. w \in Texts /\ w \in Seq(Nat) /\ text.maxLines \in 2..6 /\ next - 1 \in 0..Len(w)
    BY <1>1 DEF CutInv, Texts
  <1>4. next \in 1..Len(w) /\ word \in Nat /\ word > 0
    BY <1>1, <1>2, <1>3 DEF LoopEnded, Texts
  <1>5. /\ UpTo(w)[next] = UpTo(w)[next - 1] + 1 + word
        /\ UpTo(w)[next - 1] \in Int /\ UpTo(w)[0] = -1
    BY <1>3, <1>4, LengthsAre
  <1>6. w' = w
    BY <1>1
  <1> HIDE DEF w, word
  <1>7. Joined(Append(lines, current)) = Joined(lines) + 1 + current /\ Joined(lines) \in Int
    BY <1>2, JoinedAppend
  <1>8. current' > 0 /\ Joined(Append(lines', current')) = UpTo(w)[next]
    <2>1. CASE next = 1
      <3>1. lines = <<>> /\ current = 0
        BY <1>1, <2>1 DEF CutInv
      <3>2. lines' = <<>> /\ current' = word
        BY <3>1 DEF Word, word, w
      <3>3. <<>> \in Seq(Nat) /\ Len(<<>>) = 0
        OBVIOUS
      <3>4. Joined(<<>>) = -1
        BY <3>3, LengthsAre, JoinedIsTheLast
      <3>5. Joined(Append(<<>>, word)) = Joined(<<>>) + 1 + word
        BY <1>4, <3>3, JoinedAppend
      <3> QED
        BY <1>4, <1>5, <2>1, <3>2, <3>4, <3>5
    <2>2. CASE next > 1
      <3>1. current > 0 /\ Joined(Append(lines, current)) = UpTo(w)[next - 1]
        BY <1>1, <2>2 DEF CutInv, w
      <3>2. CASE lines' = lines /\ current' = current + 1 + word
        <4>1. current' \in Nat
          BY <1>2, <1>4, <3>2
        <4>2. Joined(Append(lines, current')) = Joined(lines) + 1 + current'
          BY <1>2, <4>1, JoinedAppend
        <4> QED
          BY <1>2, <1>4, <1>5, <1>7, <3>1, <3>2, <4>1, <4>2
      <3>3. CASE lines' = Append(lines, current) /\ current' = word
        <4>1. lines' \in Seq(Nat)
          BY <1>2, <3>3
        <4>2. Joined(Append(lines', word)) = Joined(lines') + 1 + word
          BY <1>4, <4>1, JoinedAppend
        <4> QED
          BY <1>4, <1>5, <3>1, <3>3, <4>2
      <3>4. \/ lines' = lines /\ current' = current + 1 + word
            \/ lines' = Append(lines, current) /\ current' = word
        BY <1>2, <3>1 DEF Word, word, w
      <3> QED
        BY <3>2, <3>3, <3>4
    <2> QED
      BY <1>2, <2>1, <2>2
  <1>9. next' - 1 = next
    BY <1>1, <1>2
  <1>10. CutsAreMarked'
    BY <1>1 DEF CutsAreMarked
  <1> QED
    BY <1>1, <1>2, <1>3, <1>4, <1>6, <1>8, <1>9, <1>10 DEF CutInv, w

\* The last line is closed: with words left the lines are shorter than the text,
\* and the loop has ended because they were full.
LEMMA CloseKeepsCuts ==
    ASSUME IInv, CutInv, Close
    PROVE  CutInv'
  <1> DEFINE w == text.words
             all == Append(lines, current)
             cut == Len(all) = text.maxLines /\ Joined(w) > Joined(all)
  <1>1. /\ step = "wrap" /\ step' = "drawn" /\ LoopEnded
        /\ UNCHANGED <<text, next>> /\ marked' = cut
        /\ \E n : lines' = Append(lines, n)
    BY DEF Close
  <1>2. /\ next \in Nat /\ next >= 1 /\ current \in Nat /\ lines \in Seq(Nat)
        /\ Len(lines) <= text.maxLines - 1
    BY <1>1 DEF IInv, Lines, TypeOK
  <1>3. /\ w \in Texts /\ w \in Seq(Nat) /\ text.maxLines \in 2..6 /\ next - 1 \in 0..Len(w)
        /\ Len(w) \in Nat /\ Len(lines) \in Nat
    BY <1>1, <1>2 DEF CutInv, Texts
  <1>4. Len(all) = Len(lines) + 1 /\ Len(lines') = Len(lines) + 1
    BY <1>1, <1>2
  <1>5. Joined(all) = Joined(lines) + 1 + current /\ Joined(lines) \in Int
    BY <1>2, JoinedAppend
  <1>6. Joined(w) = UpTo(w)[Len(w)] /\ UpTo(w)[Len(w)] \in Int
        /\ UpTo(w)[next - 1] \in Int
    <2> HIDE DEF w
    <2>1. Len(w) \in 0..Len(w)
      BY <1>3
    <2>2. \A n \in 0..Len(w) : UpTo(w)[n] \in Int
      BY <1>3, LengthsAre
    <2>3. Joined(w) = UpTo(w)[Len(w)]
      BY JoinedIsTheLast
    <2> QED
      BY <1>3, <2>1, <2>2, <2>3
  <1>7. cut <=> next <= Len(w)
    <2>1. CASE next > Len(w)
      <3>1. next - 1 = Len(w)
        BY <1>2, <1>3, <2>1
      <3>2. CASE next = 1
        <4>1. lines = <<>> /\ current = 0 /\ Len(w) = 0
          BY <1>1, <1>3, <2>1, <3>2 DEF CutInv
        <4>2. Len(lines) = 0
          BY <4>1
        <4> QED
          BY <1>2, <1>3, <1>4, <2>1, <4>2
      <3>3. CASE next > 1
        <4>1. Joined(all) = UpTo(w)[next - 1]
          BY <1>1, <3>3 DEF CutInv
        <4> QED
          BY <1>2, <1>3, <1>6, <2>1, <3>1, <4>1
      <3> QED
        BY <1>2, <3>2, <3>3
    <2>2. CASE next <= Len(w)
      <3>1. Len(lines) = text.maxLines - 1
        BY <1>1, <1>2, <1>3, <2>2 DEF LoopEnded
      <3>2. next > 1
        <4> SUFFICES ASSUME next = 1 PROVE FALSE
          BY <1>2
        <4>1. Len(lines) = 0
          BY <1>1 DEF CutInv
        <4> QED
          BY <1>3, <3>1, <4>1
      <3>3. Joined(all) = UpTo(w)[next - 1]
        BY <1>1, <3>2 DEF CutInv
      <3>4. next - 1 < Len(w) /\ next - 1 \in 0..Len(w)
        BY <1>2, <1>3, <2>2
      <3> HIDE DEF w, all
      <3>5. UpTo(w)[next - 1] < Joined(w)
        BY <1>3, <3>4, LengthsGrow
      <3>6. Joined(w) > Joined(all)
        BY <1>6, <3>3, <3>5
      <3>7. Len(all) = text.maxLines
        BY <1>3, <1>4, <3>1
      <3> QED
        BY <2>2, <3>6, <3>7
    <2> QED
      BY <1>2, <1>3, <2>1, <2>2
  <1> HIDE DEF cut
  <1>8. CutsAreMarked'
    <2>1. Len(lines') \in 1..text.maxLines
      BY <1>2, <1>3, <1>4
    <2>2. marked' = (next <= Len(w))
      <3>1. cut \in BOOLEAN
        BY DEF cut
      <3> QED
        BY <1>1, <1>7, <3>1
    <2> QED
      BY <1>1, <2>1, <2>2 DEF CutsAreMarked, w
  <1> QED
    BY <1>1, <1>3, <1>8 DEF CutInv, w

\* Every step keeps what is known of the lengths.
LEMMA CutInvNext == IInv /\ IInv' /\ CutInv /\ [Next]_vars => CutInv'
  <1> SUFFICES ASSUME IInv, IInv', CutInv, [Next]_vars PROVE CutInv'
    OBVIOUS
  <1>1. CASE UNCHANGED vars
    BY <1>1 DEF vars, CutInv, CutsAreMarked
  <1>2. CASE Parse \/ Create \/ Bind \/ Style
    <2>1. step' \notin {"wrap", "drawn"}
      BY <1>2 DEF Parse, Create, Bind, Style, Advance
    <2> QED
      BY <2>1 DEF CutInv, CutsAreMarked
  <1>3. CASE Draw
    <2>1. step' = "wrap" /\ next' = 1 /\ current' = 0 /\ lines' = <<>>
      BY <1>3 DEF Draw, IInv, Lines
    <2>2. text' \in TextElements
      BY <2>1 DEF IInv, Lines
    <2>3. text'.words \in Texts /\ text'.maxLines \in 2..6 /\ Len(text'.words) \in Nat
      BY <2>2 DEF TextElements, Texts
    <2> QED
      BY <2>1, <2>3 DEF CutInv, CutsAreMarked
  <1>4. CASE Word
    BY <1>4, WordKeepsCuts
  <1>5. CASE Close
    BY <1>5, CloseKeepsCuts
  <1> QED
    BY <1>1, <1>2, <1>3, <1>4, <1>5 DEF Next

-----------------------------------------------------------------------------
(* The theorems.                                                           *)

\* Every reachable state satisfies the invariant.
THEOREM InvariantHolds == Spec => []IInv
  <1> QED
    BY IInvInit, IInvNext, PTL DEF Spec

\* The variables keep their types, whatever the requests.
THEOREM TypeCorrect == Spec => []TypeOK
  <1>1. IInv => TypeOK
    BY DEF IInv
  <1> QED
    BY <1>1, InvariantHolds, PTL

\* A call is refused only for a fault of its arguments: the checks that follow
\* one another accept all that the steps before them make.
THEOREM RefusalCorrect == Spec => []RefusedForItsInput
  <1>1. IInv => RefusedForItsInput
    BY DEF IInv, Stage
  <1> QED
    BY <1>1, InvariantHolds, PTL

\* Every line stays in the box of its text, for texts of any length.
THEOREM BoxCorrect == Spec => []TextStaysInItsBox
  <1>1. ASSUME IInv PROVE TextStaysInItsBox
    <2> SUFFICES ASSUME step = "drawn"
                 PROVE  /\ \A i \in DOMAIN lines :
                             \/ /\ LeftEdge(text, lines[i]) >= 200 * text.box.x
                                /\ RightEdge(text, lines[i]) <= 200 * (text.box.x + text.box.width)
                             \/ \E j \in DOMAIN text.words : lines[i] = text.words[j]
                        /\ \/ Baseline(text, Len(lines)) <= 2 * (text.box.y + text.box.height)
                           \/ /\ text.id = "headline" /\ Len(lines) = 3
                              /\ request.intent.headlineProminence = "LOW"
      BY DEF TextStaysInItsBox
    <2>1. PICK S : request \in Requests /\ Placed(request, S) /\ spec = Styled(S)
      BY <1>1 DEF IInv, Stage
    <2>2. /\ text \in spec /\ text \in TextElements /\ lines \in Seq(Nat)
          /\ Len(lines) <= text.maxLines /\ text.maxLines \in 2..6
          /\ \A i \in DOMAIN lines : LineFits(text, lines[i])
      BY <1>1 DEF IInv, Lines, TypeOK, TextElements
    <2>3. Roomy(text, request.intent)
      BY <2>1, <2>2, StyledText DEF TextElements
    <2>4. ASSUME NEW i \in DOMAIN lines, lines[i] <= MaxChars(text)
          PROVE  /\ LeftEdge(text, lines[i]) >= 200 * text.box.x
                 /\ RightEdge(text, lines[i]) <= 200 * (text.box.x + text.box.width)
      <3> DEFINE w == 56 * text.font * lines[i]
      <3>1. lines[i] \in Nat
        BY <2>2
      <3>2. text.font \in 28..64 /\ text.box \in Boxes
        BY <2>2 DEF TextElements
      <3>3. text.font \in Nat /\ text.box.x \in Int /\ text.box.width \in Int
        BY <3>2 DEF Boxes
      <3>4. lines[i] \in Nat /\ text.font \in Nat /\ text.box.x \in Int /\ text.box.width \in Int
        BY <3>1, <3>3
      <3>5. text.box.width >= 390 /\ text.font \in Sizes
        BY <2>3 DEF Roomy
      <3>6. text \in TextElements
        BY <2>2
      <3>7. w <= 100 * text.box.width
        BY <2>4, <3>4, <3>5, <3>6, LineWidth
      <3>8. \A a \in Nat, b \in Nat : 56 * a * b \in Nat
        OBVIOUS
      <3>9. w \in Nat /\ w <= 100 * text.box.width
        BY <3>4, <3>7, <3>8
      <3>10. 112 * text.font * lines[i] = 2 * w
        BY <3>4
      <3>11. text.align \in {"left", "center", "right"}
        BY <2>2 DEF TextElements
      <3>12. /\ text.align = "left" => LeftEdge(text, lines[i]) = 200 * text.box.x
             /\ text.align = "center" =>
                   LeftEdge(text, lines[i]) = 200 * text.box.x + 100 * text.box.width - w
             /\ text.align = "right" =>
                   LeftEdge(text, lines[i]) = 200 * (text.box.x + text.box.width) - 2 * w
             /\ RightEdge(text, lines[i]) = LeftEdge(text, lines[i]) + 2 * w
        BY <3>10 DEF LeftEdge, RightEdge
      <3> HIDE DEF w
      <3> QED
        BY <3>4, <3>9, <3>11, <3>12
    <2>5. Len(lines) >= 1
      BY <1>1 DEF IInv, Lines
    <2>6. Len(lines) \in 1..text.maxLines
      BY <2>2, <2>5
    <2> QED
      BY <2>2, <2>3, <2>4, <2>6 DEF LineFits, Roomy
  <1> QED
    BY <1>1, InvariantHolds, PTL

\* Every text but the hero label is in a colour that has been checked against
\* the surface under it.
THEOREM ReadableCorrect == Spec => []ReadableText
  <1>1. ASSUME IInv PROVE ReadableText
    <2> SUFFICES ASSUME step \in {"draw", "wrap", "drawn"}, NEW e \in spec,
                        e.kind = "text", e.id # "hero-label"
                 PROVE  <<e.fill, SurfaceUnder(e)>> \in request.identity.legible
      BY DEF ReadableText
    <2>1. PICK S : /\ request \in Requests /\ request.intent \in Intents /\ Placed(request, S)
                   /\ spec = Styled(S) /\ ValidIdentity(request.identity)
      BY <1>1, RequestsAssumption DEF IInv, Stage
    <2>2. PICK d \in TextsOf(request) : e.id = d.id /\ e.box = d.box
      BY <2>1, StyledText
    <2>3. e \in TextElements /\ e.fill = FillOf(e)
      BY <2>1, StyledText
    <2>4. e.fill \in {"text", "mutedText", "primary"}
      BY <2>3 DEF FillOf, TextElements
    <2> DEFINE l == Solve(request.intent)
    <2>5. e.box \in {l.header, l.headline, l.content, l.footer}
      BY <2>2 DEF TextsOf, Text
    <2>6. ~Overlaps(e.box, l.hero)
      <3>1. /\ l.header = Rect(64, 72, 952, 100) /\ l.footer = Rect(64, 1748, 952, 100)
            /\ l.headline \in Boxes /\ l.content \in Boxes /\ l.hero \in Boxes
        BY <2>1, RegionSizes
      <3>2. /\ ~Overlaps(l.headline, l.hero) /\ ~Overlaps(l.hero, l.content)
            /\ ~Overlaps(l.hero, l.footer)
        BY <2>1, EveryIntentIsValid DEF Valid, ComparedPairs
      <3>3. l.hero.y >= 368
        BY <2>1, HeroAndContentBand, HeadlineBand DEF Headline, Rect
      <3>4. ~Overlaps(l.header, l.hero)
        BY <3>1, <3>3 DEF Overlaps, Rect, Boxes
      <3>5. ~Overlaps(l.content, l.hero) /\ ~Overlaps(l.footer, l.hero)
        BY <3>1, <3>2 DEF Overlaps, Rect, Boxes
      <3> QED
        BY <2>5, <3>2, <3>4, <3>5
    <2>7. SurfaceUnder(e) = "background"
      BY <2>6 DEF SurfaceUnder
    <2> QED
      BY <2>1, <2>4, <2>7 DEF ValidIdentity
  <1> QED
    BY <1>1, InvariantHolds, PTL

\* A text is marked as cut when words of it are left out and only then, whatever
\* its words: comparing the lengths of lines and text, as wrapText does, comes to
\* the same as counting the words.
THEOREM CutsCorrect == Spec => []CutsAreMarked
  <1>1. CutInv => CutsAreMarked
    BY DEF CutInv
  <1>2. Spec => []CutInv
    BY InvariantHolds, CutInvInit, CutInvNext, PTL DEF Spec
  <1> QED
    BY <1>1, <1>2, PTL

=============================================================================
