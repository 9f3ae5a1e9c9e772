---------------------------- MODULE MCRendering ----------------------------
(***************************************************************************)
(* Rendering for TLC: every intent with long texts, every sequence of a few*)
(* words in three intents, and every asset and many identities.            *)
(***************************************************************************)
EXTENDS Rendering

Good == [hex |-> TRUE, legible |-> {"primary", "text", "mutedText"} \X {"background"}]

Plain ==
    [typed |-> TRUE,
     intent |-> [headlineProminence |-> "LOW", headlineZone |-> "UPPER_LEFT",
                 heroZone |-> "RIGHT", negativeSpace |-> "HIGH", textDensity |-> "HIGH"],
     eyebrow |-> <<>>, headline |-> <<9>>, body |-> <<>>, heroLabel |-> <<>>, footer |-> <<>>,
     asset |-> NoAsset, identity |-> Good]

\* A text of n words that fill lines unevenly.
Long(n) == [i \in 1..n |-> 4 + ((i * 7) % 17)]

EveryIntent ==
    {[Plain EXCEPT !.intent = i, !.eyebrow = Long(15), !.headline = Long(9), !.body = Long(40),
                   !.heroLabel = Long(12), !.footer = Long(16)] : i \in Intents}

\* Words that fit, just fit and do not fit on a line of 20 to 23 characters.
FewWords == UNION {[1..n -> {1, 9, 11, 23, 40}] : n \in 1..4}

EveryText ==
    {[Plain EXCEPT !.intent.headlineProminence = p, !.headline = t] :
        p \in {"LOW", "HIGH", "VERY_HIGH"}, t \in FewWords}

EveryAsset ==
    {[Plain EXCEPT !.asset = a] : a \in
        [elementId : {"hero", "headline", "unknown"}, sourceType : Sources,
         generatedByAI : BOOLEAN, documentary : BOOLEAN, approved : BOOLEAN,
         approvedAt : {"null", "date", "other"}, mediaType : BOOLEAN,
         quads : {0, 2666666, 2666667}]}

\* Any of the colours may be legible on either surface.
EveryIdentity ==
    {[Plain EXCEPT !.identity = i, !.typed = typed, !.headline = t, !.body = <<5>>, !.footer = <<5>>] :
        i \in [hex : BOOLEAN, legible : SUBSET ({"primary", "text", "mutedText"} \X Surfaces)],
        typed \in BOOLEAN, t \in {<<>>, <<5>>}}

SomeRequests == EveryIntent \cup EveryText \cup EveryAsset \cup EveryIdentity
=============================================================================
