----------------------------- MODULE MCFragments -----------------------------
EXTENDS Fragments

Texts == UNION {[1..n -> {Quote, Other}] : n \in 1..8}

\* For the cutting: each text of at most Limit fragments that is short or has its
\* quotes near the ends, alone.
Singles == {t \in Texts : Len(Cut(t)) <= Limit /\ (Len(t) <= 4 \/ QuotesNearTheEnds(t))}

\* For the handler: two texts of three fragments, or of three and two, together.
Three == <<Quote, Other, Quote, Quote, Quote, Other>>
ThreeToo == <<Quote, Quote, Other, Quote, Quote>>
Two == <<Quote, Other, Quote>>

SinglesAndPairs == {{t} : t \in Singles} \cup {{Three, ThreeToo}, {Three, Two}}
=============================================================================
