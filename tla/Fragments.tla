------------------------------ MODULE Fragments ------------------------------
(***************************************************************************)
(* Datagrams above 1400 bytes: how ControlDatagram::fragments cuts their   *)
(* JSON text, and how the FragmentHandler of tunnel_handler puts fragments *)
(* together that arrive in any order, any number of times, or never.       *)
(*                                                                         *)
(* A text is a sequence of quotes and other characters, since a fragment   *)
(* carries its part as a JSON string, where a quote takes two bytes. The   *)
(* code doubles each quote by a NUL before it cuts and drops the NULs      *)
(* afterwards: a cut may fall between the two.                             *)
(***************************************************************************)
EXTENDS Naturals, Sequences, FiniteSets, SequencesExt

CONSTANTS
  Sendings,     \* sets of texts that may be sent in one behaviour
  MaxSize,      \* bytes a fragment may have               (1400 in the code)
  EnvelopeSize, \* bytes of a fragment without its data
  Limit,        \* fragments kept before all are dropped    (512 in the code)
  None

Quote == "quote"
Other == "other"
Nul == "nul"

ASSUME ConstantsAssumption ==
  /\ \A texts \in Sendings : \A text \in texts : text \in Seq({Quote, Other}) \ {<<>>, None}
  /\ MaxSize \in Nat /\ EnvelopeSize \in Nat /\ EnvelopeSize < MaxSize
  /\ Limit \in Nat

-----------------------------------------------------------------------------
(***************************************************************************)
(* ControlDatagram::fragments.                                             *)
(***************************************************************************)
Unguarded(text) == text  \* mutant of Guarded
Guarded(text) ==
  FlattenSeq([i \in DOMAIN text |-> IF text[i] = Quote THEN <<Nul, Quote>> ELSE <<text[i]>>])

WithoutNuls(part) ==
  FlattenSeq([i \in DOMAIN part |-> IF part[i] = Nul THEN <<>> ELSE <<part[i]>>])

DataMaxSize == MaxSize - EnvelopeSize

Parts(text) ==
  LET json == Guarded(text)
      count == (Len(json) + DataMaxSize - 1) \div DataMaxSize
  IN [i \in 1..count |-> SubSeq(json, (i - 1) * DataMaxSize + 1, Min({i * DataMaxSize, Len(json)}))]

\* The digest is that of the whole text, and free of collisions.
Cut(text) ==
  LET parts == Parts(text)
  IN [i \in DOMAIN parts |->
        [digest |-> text, index |-> i - 1, length |-> Len(parts),
         data |-> WithoutNuls(parts[i])]]

\* A quote of the data is escaped: \" in the JSON of the fragment.
Bytes(data) == Len(data) + Cardinality({i \in DOMAIN data : data[i] = Quote})
Size(fragment) == EnvelopeSize + Bytes(fragment.data)

-----------------------------------------------------------------------------
VARIABLES
  sent,      \* the texts of this behaviour
  fragments, \* the handler's map, as the set of the fragments in it
  complete,  \* what get_complete_datagram returned last: a text or None
  arrived,   \* history, per text: indices that arrived since it was last complete
  whole      \* history: the copy arriving right now, fragment by fragment and in
             \*   order, and how many such copies of it in a row came to nothing

vars == <<sent, fragments, complete, arrived, whole>>

AllFragments == UNION {Range(Cut(text)) : text \in sent}

TypeOK ==
  /\ sent \in Sendings
  /\ fragments \subseteq AllFragments
  /\ Cardinality(fragments) <= Limit
  /\ complete \in sent \cup {None}
  /\ arrived \in [sent -> SUBSET {f.index : f \in AllFragments}]
  /\ whole \in [text : sent \cup {None}, next : Nat, vain : 0..2]

Init ==
  /\ sent \in Sendings
  /\ fragments = {}
  /\ complete = None
  /\ arrived = [text \in sent |-> {}]
  /\ whole = [text |-> None, next |-> 0, vain |-> 0]

IndexOnly(f) == f.index  \* mutant of Key
Key(f) == <<f.index, f.digest>>

\* What the map holds after an insertion and the check of its size.
EarlyLimit(f) ==  \* mutant of Inserted
  LET all == {g \in fragments : Key(g) # Key(f)} \cup {f}
  IN IF Cardinality(all) >= Limit THEN {} ELSE all
NoLimit(f) == {g \in fragments : Key(g) # Key(f)} \cup {f}  \* mutant of Inserted
Inserted(f) ==
  LET all == {g \in fragments : Key(g) # Key(f)} \cup {f}
  IN IF Cardinality(all) > Limit THEN {} ELSE all

\* The entries of the datagram of f, in order, if none is missing.
Siblings(f, kept) ==
  {g \in kept : \E i \in 0..(f.length - 1) : Key(g) = Key([f EXCEPT !.index = i])}

Joined(siblings) ==
  FlattenSeq([i \in 1..Cardinality(siblings) |->
                (CHOOSE g \in siblings : g.index = i - 1).data])

Without(kept, siblings) == kept \ siblings

\* History of uninterrupted copies: a fragment 0 begins one, fragment i follows
\* i - 1 at once, the last one ends it.
Follows(f) == f.index = 0 \/ (whole.text = f.digest /\ whole.next = f.index)
Vain(f, found) ==
  LET before == IF whole.text = f.digest THEN whole.vain ELSE 0
  IN CASE found -> 0
       [] ~found /\ f.index = f.length - 1 -> Min({before + 1, 2})
       [] OTHER -> before

\* get_complete_datagram(f): any fragment of any datagram may come at any time.
\* A text that is not the JSON of a datagram is an error, and stays in the map.
GetCompleteDatagram(f) ==
  LET kept == Inserted(f)
      siblings == Siblings(f, kept)
      found == Cardinality(siblings) = f.length /\ Joined(siblings) \in sent
      text == Joined(siblings)
  IN /\ complete' = IF found THEN text ELSE None
     /\ fragments' = IF found THEN Without(kept, siblings) ELSE kept
     /\ arrived' = [t \in sent |-> (IF t = complete THEN {} ELSE arrived[t])
                                   \cup (IF t = f.digest THEN {f.index} ELSE {})]
     /\ whole' = IF Follows(f)
                 THEN [text |-> f.digest, next |-> (f.index + 1) % f.length, vain |-> Vain(f, found)]
                 ELSE [text |-> None, next |-> 0, vain |-> 0]
     /\ UNCHANGED sent

Next == \E f \in AllFragments : GetCompleteDatagram(f)

Spec == Init /\ [][Next]_vars

-----------------------------------------------------------------------------
(***************************************************************************)
(* Properties.                                                             *)
(***************************************************************************)

\* No fragment is larger than allowed, and all but the last are as large as
\* allowed or one byte less, as datagram_tests.rs has it. This needs that quotes
\* are near the ends of the text, as in the JSON of a datagram with one long value:
\* elsewhere a fragment that begins with the quote of a divided pair is larger.
QuotesNearTheEnds(text) ==
  \A i \in DOMAIN text : text[i] = Quote =>
    \/ 2 * i <= DataMaxSize
    \/ 2 * (Len(text) - i) + 1 < DataMaxSize

SizesAsTested ==
  \A text \in {t \in sent : QuotesNearTheEnds(t)} :
    LET cut == Cut(text)
    IN \A i \in DOMAIN cut :
         /\ Size(cut[i]) <= MaxSize
         /\ i < Len(cut) => Size(cut[i]) >= MaxSize - 1

\* A datagram comes out only when each of its fragments has come in since it last
\* came out, and it is then the text that was cut: late copies of fragments do not
\* repeat it, and nothing of another datagram gets into it.
OnlyWhole ==
  complete # None =>
    arrived[complete] = {f.index : f \in Range(Cut(complete))}

\* Dropping all fragments costs at most one copy: of two copies of a datagram that
\* arrive whole, one after the other, one gets it out, whatever else was in the map.
\* (A datagram has at most Limit fragments.)
OneOfTwoCopies == whole.vain < 2

=============================================================================
