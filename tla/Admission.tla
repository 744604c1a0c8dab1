----------------------------- MODULE Admission -----------------------------
(***************************************************************************)
(* The admission decision of ragadmission.crexx.  A provider call is asked *)
(* of several allowance dimensions at once; each one ranks it and the      *)
(* worst rank decides, so that waiting for a peer never hides an exhausted *)
(* allowance.                                                              *)
(***************************************************************************)
EXTENDS Integers

Ranks == 0 .. 4

(* One dimension: what is measured, held by live peers and still unknown. *)
Rank(allowance, consumed, held, uncertain, requested, zeroUnlimited) ==
    IF \/ allowance < 0 \/ consumed < 0 \/ held < 0
       \/ uncertain < 0 \/ requested < 0
    THEN 4
    ELSE IF zeroUnlimited /\ allowance = 0 THEN 0
    ELSE IF consumed > allowance \/ requested > allowance - consumed THEN 3
    ELSE IF uncertain > allowance - consumed - requested THEN 2
    ELSE IF held > allowance - consumed - requested - uncertain THEN 1
    ELSE 0

(* consider() keeps the highest rank it has met. *)
Worst(r, s) == IF r > s THEN r ELSE s

AdmissionState(rank) ==
    CASE rank = 4 -> "invalid"
      [] rank = 3 -> "exhausted"
      [] rank = 2 -> "uncertain"
      [] rank = 1 -> "waiting"
      [] rank = 0 -> "admitted"

(* aggregatefits: whether reviewed work fits what is left of a ceiling. *)
AggregateFits(ceiling, consumed, requested, zeroUnlimited) ==
    /\ ceiling >= 0 /\ consumed >= 0 /\ requested >= 0
    /\ \/ zeroUnlimited /\ ceiling = 0
       \/ consumed <= ceiling /\ requested <= ceiling - consumed

=============================================================================
