----------------------------- MODULE Rendering -----------------------------
(***************************************************************************)
(* One call of generation.render_preview: the arguments are parsed, the    *)
(* layout is solved, the text and a hero image are placed in it, the       *)
(* institution's identity is applied, and the SVG is drawn, each step with *)
(* checks of its own (render-tool, render-service, renderer, asset-binding,*)
(* identity-style, provenance).  Calls share nothing, so there is one.     *)
(*                                                                         *)
(* A text is the sequence of the lengths of its words; the body is the     *)
(* text of its items joined by bullets, a bullet being a word of length 1. *)
(* Words do not end in dots, which a cut would strip.  Whether a colour is *)
(* legible on another, and whether a field has its type and its enumerated *)
(* value, comes with the request.                                          *)
(*                                                                         *)
(* renderSvg wraps each text on its own: a behaviour follows one of them,  *)
(* whichever it is, from its first word to its last line.                  *)
(***************************************************************************)
EXTENDS LayoutEngine, Sequences

CONSTANT Requests

Texts == {s \in Seq(Nat) : \A i \in DOMAIN s : s[i] > 0}
Surfaces == {"background", "heroSurface"}
Colours == {"primary", "text", "mutedText"} \cup Surfaces

\* The other five sources are treated like the third of these.
Sources == {"MASTER_ASSET", "DOCUMENTARY_ASSET", "GENERATED_ASSET"}
NoAsset == [elementId |-> "none"]

Assets ==
    [elementId : {"hero", "headline", "unknown"}, sourceType : Sources,
     generatedByAI : BOOLEAN, documentary : BOOLEAN, approved : BOOLEAN,
     approvedAt : {"null", "date", "other"}, mediaType : BOOLEAN, quads : Nat]

Identities == [hex : BOOLEAN, legible : SUBSET (Colours \X Surfaces)]

\* typed: the fields have their types and values, except what follows.
ASSUME RequestsAssumption ==
    \A r \in Requests :
        /\ r.typed \in BOOLEAN /\ r.intent \in Intents
        /\ {r.eyebrow, r.headline, r.body, r.heroLabel, r.footer} \subseteq Texts
        /\ r.asset \in Assets \cup {NoAsset}
        /\ r.identity \in Identities

VARIABLES
    request,  \* the arguments of the call
    step,     \* what is done next, or how the call ended
    spec,     \* the elements of the RenderSpec
    text,     \* the text element being drawn, NoText before
    next,     \* the index of its next word
    current,  \* wrapText's current line, as a length
    lines,    \* wrapText's lines, as lengths
    marked    \* whether the last line ends in an ellipsis

vars == <<request, step, spec, text, next, current, lines, marked>>
wrapping == <<text, next, current, lines, marked>>

Blank == <<>>
NoText == [id |-> "none"]

Init ==
    /\ request \in Requests
    /\ step = "parse" /\ spec = {}
    /\ text = NoText /\ next = 1 /\ current = 0 /\ lines = <<>> /\ marked = FALSE

\* One step of the call: it goes on if ok, with these elements, or it throws.
Advance(ok, to, elements) ==
    /\ \/ ok /\ step' = to /\ spec' = elements
       \/ ~ok /\ step' = "refused" /\ UNCHANGED spec
    /\ UNCHANGED <<request, wrapping>>

\* parseIntent, parseContent, parseIdentity and parseAsset: of the strings only
\* the headline must not be blank.
Parse ==
    /\ step = "parse"
    /\ Advance(request.typed /\ request.headline # Blank, "create", {})

-----------------------------------------------------------------------------
(* The elements.                                                           *)

Shape(id, box) == [kind |-> "rect", id |-> id, box |-> box, fill |-> "default"]
Text(id, box, words, font, maxLines, align) ==
    [kind |-> "text", id |-> id, box |-> box, words |-> words, font |-> font,
     maxLines |-> maxLines, align |-> align, fill |-> "default"]

\* Left, centre or right, by where the middle of the box is: twice its distance
\* from the middle of the canvas is compared with 160.
AlignFor(box) ==
    LET off == 2 * box.x + box.width - Canvas.width
    IN  CASE off \in -159..159 -> "center" [] off <= -160 -> "left" [] off >= 160 -> "right"

TextsOf(r) ==
    LET l == Solve(r.intent)  k == Constraints(r.intent)
    IN  {Text("eyebrow", l.header, r.eyebrow, 30, 2, "left"),
         Text("headline", l.headline, r.headline, k.headlineFont, 3, AlignFor(l.headline)),
         Text("body", l.content, r.body, k.bodyFont, k.bodyLines, "left"),
         Text("hero-label", l.hero, r.heroLabel, 28, 2, "center"),
         Text("footer", l.footer, r.footer, 28, 2, "left")}

\* A slip: every text gets an element.
ElementsBlankToo(r) ==
    {Shape("background", Rect(0, 0, Canvas.width, Canvas.height)),
     Shape("hero", Solve(r.intent).hero)} \cup TextsOf(r)

\* createFlyerRenderSpec: a blank text gets no element.
Elements(r) ==
    {Shape("background", Rect(0, 0, Canvas.width, Canvas.height)),
     Shape("hero", Solve(r.intent).hero)}
      \cup {t \in TextsOf(r) : t.words # Blank}

Create ==
    /\ step = "create"
    /\ Advance(Valid(Solve(request.intent)) /\ request.headline # Blank,
               "bind", Elements(request))

-----------------------------------------------------------------------------
(* The hero image.                                                         *)

MaxInlineImageBytes == 8000000

\* The data URI has the prefix of its media type, and a base64 payload of quads
\* groups of four characters, its padding counted as bytes.
SafeRaster(a) == a.mediaType /\ a.quads > 0 /\ 3 * a.quads <= MaxInlineImageBytes

Honest(a) ==
    a.generatedByAI => ~a.documentary /\ a.sourceType \notin {"MASTER_ASSET", "DOCUMENTARY_ASSET"}

ValidAsset(a) ==
    /\ Honest(a) /\ SafeRaster(a)
    /\ IF a.approved THEN a.approvedAt = "date" ELSE a.approvedAt = "null"

Image(e, a) == [kind |-> "image", id |-> a.elementId, box |-> e.box, asset |-> a]

Bindable(elements, a) == \E e \in elements : e.id = a.elementId /\ e.kind = "rect" /\ e.id = "hero"

Bound(elements, a) == {IF e.id = a.elementId THEN Image(e, a) ELSE e : e \in elements}

Bind ==
    /\ step = "bind"
    /\ LET a == request.asset
       IN  IF a = NoAsset THEN Advance(TRUE, "style", spec)
           ELSE Advance(ValidAsset(a) /\ Bindable(spec, a), "style", Bound(spec, a))

-----------------------------------------------------------------------------
(* The identity.                                                           *)

\* A slip: the muted colour is not checked.
ValidIdentityButMuted(i) ==
    i.hex /\ \A c \in {"text", "primary"} : <<c, "background">> \in i.legible

\* The font is of an enumerated family.
ValidIdentity(i) ==
    i.hex /\ \A c \in {"text", "mutedText", "primary"} : <<c, "background">> \in i.legible

FillOf(e) ==
    CASE e.id = "background" -> "background"
      [] e.id = "hero"       -> "heroSurface"
      [] e.id = "headline"   -> "primary"
      [] e.id = "body"       -> "text"
      [] OTHER               -> "mutedText"

Styled(elements) ==
    {IF e.kind = "image" THEN e ELSE [e EXCEPT !.fill = FillOf(e)] : e \in elements}

InsideCanvas(b) ==
    /\ b.x >= 0 /\ b.y >= 0 /\ b.width > 0 /\ b.height > 0
    /\ b.x + b.width <= Canvas.width /\ b.y + b.height <= Canvas.height

\* validateRenderSpec.
ValidSpec(elements, i) ==
    /\ \A e, f \in elements : e.id = f.id => e = f
    /\ \A e \in elements :
          /\ InsideCanvas(e.box)
          /\ e.kind = "text" => e.words # Blank
          /\ e.kind \in {"text", "rect"} => e.fill = "default" \/ i.hex
          /\ e.kind = "image" => SafeRaster(e.asset)

\* applyIdentityTokens, then the checks of the service and of renderSvg.
Style ==
    /\ step = "style"
    /\ Advance(/\ ValidIdentity(request.identity)
               /\ ValidSpec(Styled(spec), request.identity),
               "draw", Styled(spec))

-----------------------------------------------------------------------------
(* The drawing of a text.                                                  *)

\* A slip: any element is drawn as a text.
DrawAnything ==
    /\ step = "draw" /\ step' = "wrap"
    /\ \E e \in spec : text' = e
    /\ UNCHANGED <<request, spec, next, current, lines, marked>>

Draw ==
    /\ step = "draw" /\ step' = "wrap"
    /\ \E e \in spec : e.kind = "text" /\ text' = e
    /\ UNCHANGED <<request, spec, next, current, lines, marked>>

\* Math.max(8, Math.floor(width / (fontSize * 0.56))).
MaxChars(e) ==
    LET n == (100 * e.box.width) \div (56 * e.font) IN IF n > 8 THEN n ELSE 8

\* The length of a text whose words, or lines, have these lengths: join(" ").
Joined(lengths) ==
    LET upTo[n \in 0..Len(lengths)] == IF n = 0 THEN -1 ELSE upTo[n - 1] + 1 + lengths[n]
    IN  upTo[Len(lengths)]

\* The loop of wrapText has been left.
LoopEnded == next > Len(text.words) \/ Len(lines) = text.maxLines - 1

\* A slip: the blank between two words is not counted.
WordWithoutBlank ==
    LET word == text.words[next]
        longer == IF current = 0 THEN word ELSE current + 1 + word
    IN  /\ step = "wrap" /\ ~LoopEnded
        /\ \/ /\ longer <= MaxChars(text) + 1 \/ current = 0
              /\ current' = longer
              /\ UNCHANGED lines
           \/ /\ longer > MaxChars(text) + 1 /\ current # 0
              /\ lines' = Append(lines, current)
              /\ current' = word
        /\ next' = next + 1
        /\ UNCHANGED <<request, step, spec, text, marked>>

\* One round of the loop: the word goes on the current line, or ends it.
Word ==
    LET word == text.words[next]
        longer == IF current = 0 THEN word ELSE current + 1 + word
    IN  /\ step = "wrap" /\ ~LoopEnded
        /\ \/ /\ longer <= MaxChars(text) \/ current = 0
              /\ current' = longer
              /\ UNCHANGED lines
           \/ /\ longer > MaxChars(text) /\ current # 0
              /\ lines' = Append(lines, current)
              /\ current' = word
        /\ next' = next + 1
        /\ UNCHANGED <<request, step, spec, text, marked>>

\* A line cut at n characters, the last of which is the ellipsis.
CutTo(length, n) == IF length < n THEN length + 1 ELSE n

\* A slip: a text that fills its lines counts as cut.
CloseFull ==
    LET all == Append(lines, current)
        cut == Len(all) = text.maxLines
    IN  /\ step = "wrap" /\ LoopEnded
        /\ lines' = IF cut THEN Append(lines, CutTo(current, MaxChars(text))) ELSE all
        /\ marked' = cut
        /\ step' = "drawn"
        /\ UNCHANGED <<request, spec, text, next, current>>

\* After the loop: the current line becomes the last, and is cut if it is the
\* last there may be and the lines are shorter than the text.
Close ==
    LET all == Append(lines, current)
        cut == Len(all) = text.maxLines /\ Joined(text.words) > Joined(all)
    IN  /\ step = "wrap" /\ LoopEnded
        /\ lines' = IF cut THEN Append(lines, CutTo(current, MaxChars(text))) ELSE all
        /\ marked' = cut
        /\ step' = "drawn"
        /\ UNCHANGED <<request, spec, text, next, current>>

Next == Parse \/ Create \/ Bind \/ Style \/ Draw \/ Word \/ Close

Spec == Init /\ [][Next]_vars

-----------------------------------------------------------------------------
(* Where the lines are on the canvas.                                      *)

LineHeight(e) == RoundPercent(e.font, 118)

\* The baseline of line i, in half pixels.
Baseline(e, i) ==
    (IF e.id = "hero-label" THEN 2 * e.box.y + e.box.height ELSE 2 * (e.box.y + e.font))
      + 2 * (i - 1) * LineHeight(e)

\* The left and the right edge of a line, in 1/200 pixels, with the width of a
\* character that wrapText counts with.
LeftEdge(e, length) ==
    CASE e.align = "left"   -> 200 * e.box.x
      [] e.align = "center" -> 200 * e.box.x + 100 * e.box.width - 56 * e.font * length
      [] e.align = "right"  -> 200 * (e.box.x + e.box.width) - 112 * e.font * length

RightEdge(e, length) == LeftEdge(e, length) + 112 * e.font * length

\* The surface that lies under a text.
SurfaceUnder(e) ==
    IF Overlaps(e.box, Solve(request.intent).hero) THEN "heroSurface" ELSE "background"

-----------------------------------------------------------------------------
(* Properties.                                                             *)

Boxes == [x : Int, y : Int, width : Int, height : Int]
Fills == Colours \cup {"default"}
Shapes == [kind : {"rect"}, id : {"background", "hero"}, box : Boxes, fill : Fills]
TextElements ==
    [kind : {"text"}, id : {"eyebrow", "headline", "body", "hero-label", "footer"}, box : Boxes,
     words : Texts, font : 28..64, maxLines : 2..6,
     align : {"left", "center", "right"}, fill : Fills]
Images == [kind : {"image"}, id : {"hero"}, box : Boxes, asset : Assets]

TypeOK ==
    /\ step \in {"parse", "create", "bind", "style", "draw", "wrap", "drawn", "refused"}
    /\ spec \subseteq Shapes \cup TextElements \cup Images
    /\ text \in TextElements \cup {NoText}
    /\ step \in {"wrap", "drawn"} => text \in spec
    /\ next \in Nat /\ current \in Nat /\ lines \in Seq(Nat) /\ marked \in BOOLEAN

\* What may be wrong with a request itself.
Faulty(r) ==
    \/ ~r.typed \/ r.headline = Blank \/ ~ValidIdentity(r.identity)
    \/ r.asset # NoAsset /\ (~ValidAsset(r.asset) \/ r.asset.elementId # "hero")

\* The five checks that follow each other never throw on what the steps before
\* them have made: a call is refused only for a fault of its arguments.
RefusedForItsInput == step = "refused" => Faulty(request)

\* "no renderer that silently changes approved content": when words of a text
\* are left out its last line ends in an ellipsis, and only then, although
\* wrapText counts lines and compares lengths instead of words.
CutsAreMarked ==
    step = "drawn" => /\ marked = (next <= Len(text.words))
                      /\ Len(lines) \in 1..text.maxLines

\* The sizes and line counts that textConstraints chooses go with the boxes of
\* the solver and with wrapText: every line is drawn within the box of its text,
\* by wrapText's width of a character, save a word longer than a line; and so
\* is the last baseline, save that of a LOW headline of three lines.
TextStaysInItsBox ==
    step = "drawn" =>
        LET b == text.box
        IN  /\ \A i \in DOMAIN lines :
                  \/ /\ LeftEdge(text, lines[i]) >= 200 * b.x
                     /\ RightEdge(text, lines[i]) <= 200 * (b.x + b.width)
                  \/ \E j \in DOMAIN text.words : lines[i] = text.words[j]
            /\ \/ Baseline(text, Len(lines)) <= 2 * (b.y + b.height)
               \/ /\ text.id = "headline" /\ Len(lines) = 3
                  /\ request.intent.headlineProminence = "LOW"

\* Every text is in a colour whose contrast with the surface under it has been
\* checked, save the hero label.
ReadableText ==
    step \in {"draw", "wrap", "drawn"} =>
        \A e \in spec : e.kind = "text" /\ e.id # "hero-label" =>
            <<e.fill, SurfaceUnder(e)>> \in request.identity.legible

=============================================================================
