--------------------------- MODULE HandshakeFilter ---------------------------
(***************************************************************************)
(* bip_handshake: the filters of a handshaker (filter/filters.rs) and what *)
(* they decide of a handshake (filter/mod.rs, handler/mod.rs).  Data is a  *)
(* function from fields to Options, sets of at most one value: early in a  *)
(* handshake some fields are not known.                                    *)
(*                                                                         *)
(* Definitions named X_Slip are X with a plausible mistake, to show that   *)
(* the properties notice it.                                               *)
(***************************************************************************)
EXTENDS Integers, Sequences, SequencesExt

Fields == {"addr", "prot", "ext", "hash", "pid"}

\* FilterDecision
Pass     == 0
Block    == 1
NeedData == 2
Allow    == 3

\* Block stands above NeedData.
choose_Slip(self, other) ==
    IF Block \in {self, other} /\ Allow \notin {self, other} THEN Block
    ELSE IF self > other THEN self ELSE other

choose(self, other) == IF self > other THEN self ELSE other

\* A HandshakeFilter, as clients write them: it looks at one field, needs its
\* data, and decides by whether the value is one of its values.
Decide(filter, field, opt) ==
    IF filter.field # field THEN Pass
    ELSE IF opt = {} THEN NeedData
         ELSE IF opt \subseteq filter.values THEN filter.hit ELSE filter.miss

\* What the filters, one after the other, decide of one field.
FieldDecision(data, filters, field) ==
    LET after[i \in 0 .. Len(filters)] ==
            IF i = 0 THEN Pass
            ELSE choose(after[i - 1], Decide(filters[i], field, data[field]))
    IN after[Len(filters)]

should_filter(data, filters) ==
    LET of(field) == FieldDecision(data, filters, field)
    IN choose(choose(choose(choose(of("addr"), of("prot")), of("ext")), of("hash")), of("pid")) = Block

\* The data of a handshake that is known before all of it is: Fields \ known
\* are None.
Known(data, known) == [f \in Fields |-> IF f \in known THEN data[f] ELSE {}]

-----------------------------------------------------------------------------
(* Filters: a list without duplicates. *)

add_filter(filters, filter) == IF Contains(filters, filter) THEN filters ELSE Append(filters, filter)

swap_remove(s, i) == Front([s EXCEPT ![i] = Last(s)])

remove_filter(filters, filter) ==
    IF Contains(filters, filter)
    THEN swap_remove(filters, CHOOSE i \in DOMAIN filters : filters[i] = filter)
    ELSE filters

clear_filters(filters) == <<>>
=============================================================================
