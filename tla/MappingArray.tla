----------------------------- MODULE MappingArray -----------------------------
(***************************************************************************)
(* The two bitmaps of received TSNs of an association (sctp_indata.c,      *)
(* sctputil.c, sctp_output.c): mapping_array has the TSNs that may still   *)
(* be given up, nr_mapping_array those that may not.  A receiver state m   *)
(* is a record with at least the fields                                    *)
(*   cum, base      cumulative_tsn, mapping_array_base_tsn                 *)
(*   size           mapping_array_size, in octets                          *)
(*   map, nr        the TSNs whose bit is set in each of the bitmaps       *)
(*   himap, hinr    highest_tsn_inside_map, highest_tsn_inside_nr_map      *)
(* TSNs are integers here; RawTsn gives the unsigned value that the code   *)
(* compares directly in sctp_send_sack.                                    *)
(***************************************************************************)
EXTENDS Integers, FiniteSets, FiniteSetsExt

CONSTANTS
  Octet,       \* bits of one element of the bitmaps: 8 in the code
  ArraySize,   \* SCTP_INITIAL_MAPPING_ARRAY
  ArrayIncr,   \* SCTP_MAPPING_ARRAY_INCR
  ArrayMax,    \* SCTP_MAPPING_ARRAY, the largest size a TSN may ask for
  TsnModulus   \* MAX_TSN + 1

ASSUME ArrayAssumption ==
  /\ Octet \in Nat \ {0} /\ ArraySize \in Nat \ {0} /\ ArrayIncr \in Nat
  /\ ArrayMax \in Nat /\ TsnModulus \in Nat \ {0}

RawTsn(t) == t % TsnModulus

Larger(a, b) == IF a > b THEN a ELSE b

Gap(m, t)     == t - m.base
PresentOnce(m, t) == t \in m.map
Present(m, t) == t \in m.map \cup m.nr
Highest(m)    == Larger(m.himap, m.hinr)

(* sctp_expand_mapping_array, asked for the bit number "needed". *)
sctp_expand_mapping_array(m, needed) ==
  [m EXCEPT !.size = @ + (needed + Octet - 1) \div Octet + ArrayIncr]

SetRevokable(m, t)    == [m EXCEPT !.map = @ \cup {t}, !.himap = Larger(@, t)]
SetNonRevokable(m, t) == [m EXCEPT !.nr = @ \cup {t}, !.hinr = Larger(@, t)]

MarkKeepsBit(m, t) == IF m.cum + 1 > t THEN m ELSE SetNonRevokable(m, t)
(* The bit moves from mapping_array to nr_mapping_array, and the highest TSN of *)
(* mapping_array is looked for again when it was this one.                       *)
sctp_mark_non_revokable(m, t) ==
  IF m.cum + 1 > t THEN m
  ELSE LET below == {u \in m.map : m.base <= u /\ u < t} IN
       [SetNonRevokable(m, t) EXCEPT
          !.map   = @ \ {t},
          !.himap = IF t # @ THEN @ ELSE Max(below \cup {m.base - 1})]

(* Octets that are full from the start of the bitmaps, and the bits set without a *)
(* hole from there: sctp_map_lookup_tab gives those of the first octet not full.  *)
FullOctets(m) ==
  Max({n \in 0..m.size : \A i \in 0..(n * Octet - 1) : Present(m, m.base + i)})
LeadingBits(m) ==
  Max({n \in 0..(m.size * Octet) :
         n < (FullOctets(m) + 1) * Octet /\ \A i \in 0..(n - 1) : Present(m, m.base + i)})

(* The bitmaps are emptied when nothing is above the cumulative TSN, and otherwise *)
(* moved down by the full octets; both happen only once a whole octet is full.     *)
ClearArrays(m) ==
  LET clr == {m.base + i : i \in 0..(((LeadingBits(m) + Octet - 1) \div Octet) * Octet - 1)} IN
  [m EXCEPT !.map = @ \ clr, !.nr = @ \ clr, !.base = m.cum + 1,
            !.himap = m.cum, !.hinr = m.cum]
ShiftArrays(m) ==
  LET newBase == m.base + FullOctets(m) * Octet
      lifted(hi) == IF hi + 1 = m.base THEN hi + FullOctets(m) * Octet ELSE hi IN
  [m EXCEPT !.map = {t \in @ : t >= newBase}, !.nr = {t \in @ : t >= newBase},
            !.himap = lifted(@), !.hinr = lifted(@), !.base = newBase]

sctp_slide_mapping_arrays(m0) ==
  LET cum == m0.base + LeadingBits(m0) - 1
      m   == [m0 EXCEPT !.cum = cum,
                        !.himap = IF cum > Highest(m0) THEN cum ELSE @,
                        !.hinr  = IF cum > Highest(m0) THEN cum ELSE @] IN
  IF LeadingBits(m0) < Octet THEN m
  ELSE IF cum = Highest(m) THEN ClearArrays(m)
  ELSE ShiftArrays(m)

(* The octets sctp_send_sack looks at, and the TSNs above the cumulative one that  *)
(* its gap blocks name; in the else branch the highest TSN cancels out and the sum *)
(* is taken modulo the width of a TSN.                                             *)
SackOctetsFloor(m) == (RawTsn(Highest(m)) - RawTsn(m.base) + 1) \div Octet
SackOctets(m) ==
  IF RawTsn(Highest(m)) > RawTsn(m.base)
  THEN (RawTsn(Highest(m)) - RawTsn(m.base) + 1 + Octet - 1) \div Octet
  ELSE RawTsn(TsnModulus + Octet - 1) \div Octet
GapBlocks(m) ==
  IF Highest(m) <= m.cum THEN {}
  ELSE {t \in m.map \cup m.nr : t > m.cum /\ t < m.base + SackOctets(m) * Octet}

(* What sctp_handle_forward_tsn does to the bitmaps; a jump past their end empties *)
(* them, any other sets the missing bits up to the new cumulative TSN.             *)
ForwardMaps(m, new) ==
  IF Gap(m, new) >= m.size * Octet
  THEN [m EXCEPT !.cum = new, !.map = {}, !.nr = {}, !.base = new + 1,
                 !.himap = new, !.hinr = new]
  ELSE LET missing == {t \in m.base..new : ~Present(m, t)} IN
       [m EXCEPT !.cum = new, !.nr = @ \cup missing,
                 !.hinr = Max({@} \cup missing)]
===============================================================================
