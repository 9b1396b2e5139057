---------------------------- MODULE RateLimitProofs ---------------------------
(***************************************************************************)
(* The quota holds for every window, limit and number of calls, counting   *)
(* the sends by the moment they were admitted.  The argument: a send that  *)
(* was admitted within Window - LockWait read its clock within Window, so  *)
(* no call, with whatever old reading of the clock, has deleted its row,   *)
(* and the call that is next to be admitted counts it.                     *)
(***************************************************************************)
EXTENDS RateLimit, FiniteSetTheorems, TLAPS

Span == Window - LockWait

\* How old a reading of the clock can be when it is used.
Timely ==
  /\ \A r \in Calls : pc[r] = "waiting" => clock - now[r] <= LockWait
  /\ \A r \in Admitted : admitted_at[r] <= now[r] + LockWait

\* Rows that are still of interest are there.
Kept == \A r \in Admitted : now[r] >= clock - Window => r \in send_log

IInv == TypeOK /\ Timely /\ Kept /\ CappedPerWindow

LEMMA SpanNat == Span \in Nat /\ Window \in Nat /\ LockWait \in Nat
  BY RateLimitAssumption DEF Span

\* Subsets of the calls are finite, and smaller sets have fewer members.
LEMMA Fewer ==
  ASSUME NEW S \in SUBSET Calls, NEW T \in SUBSET S
  PROVE  /\ Cardinality(S) \in Nat /\ Cardinality(T) \in Nat
         /\ Cardinality(T) <= Cardinality(S)
  BY FS_Subset, FS_CardinalityType, RateLimitAssumption

\* One more send for a key is within its limit, if the call counted all the recent
\* ones (old) among the rows it saw; a send for another key changes nothing.
LEMMA OneMore ==
  ASSUME NEW seen \in SUBSET Calls, NEW old \in SUBSET Calls, NEW r \in Calls, NEW all,
         \/ old \subseteq seen /\ all \subseteq old \cup {r}
         \/ all \subseteq old,
         NEW limit \in Nat, limit > 0, ~Full(seen, limit), Cardinality(old) <= limit
  PROVE  Cardinality(all) <= limit
<1>1. CASE old \subseteq seen /\ all \subseteq old \cup {r}
  <2>1. Cardinality(old) \in Nat /\ Cardinality(seen) \in Nat
        /\ Cardinality(old) <= Cardinality(seen)
    BY <1>1, Fewer
  <2>2. Cardinality(seen) < limit
    BY <2>1 DEF Full
  <2>3. IsFiniteSet(old)
    BY FS_Subset, RateLimitAssumption
  <2>4. Cardinality(old \cup {r}) <= Cardinality(old) + 1
    BY <2>1, <2>3, FS_AddElement
  <2>5. old \cup {r} \in SUBSET Calls /\ all \in SUBSET (old \cup {r})
    BY <1>1
  <2>6. Cardinality(all) <= Cardinality(old \cup {r}) /\ Cardinality(all) \in Nat
        /\ Cardinality(old \cup {r}) \in Nat
    BY <2>5, Fewer
  <2> QED
    BY <2>1, <2>2, <2>4, <2>6
<1>2. CASE all \subseteq old
  <2>1. Cardinality(all) <= Cardinality(old) /\ Cardinality(all) \in Nat
        /\ Cardinality(old) \in Nat
    BY <1>2, Fewer
  <2> QED
    BY <2>1
<1> QED
  BY <1>1, <1>2

\* No row, no count.
LEMMA InitInv == Init => IInv
<1> SUFFICES ASSUME Init PROVE IInv
  OBVIOUS
<1>1. TypeOK /\ Timely /\ Kept
  BY RateLimitAssumption DEF Init, TypeOK, Timely, Kept, Admitted
<1>2. Since(Span) = {}
  BY DEF Init, Since, Admitted
<1>3. Cardinality({}) = 0
  BY FS_EmptySet
<1>4. CappedPerWindow
  <2>1. \A m : {r \in Since(Span) : mailbox[r] = m} = {}
    BY <1>2
  <2>2. \A t : {r \in Since(Span) : token[r] = t} = {}
    BY <1>2
  <2> QED
    BY <1>3, <2>1, <2>2, RateLimitAssumption DEF CappedPerWindow, Capped, Span
<1> QED
  BY <1>1, <1>4 DEF IInv

\* A step that admits nobody: the set of recent sends can only shrink.
LEMMA CapKept ==
  ASSUME IInv, Since(Span)' \subseteq Since(Span), mailbox' = mailbox, token' = token
  PROVE  CappedPerWindow'
<1>1. Since(Span) \subseteq Calls
  BY DEF Since, Admitted
<1>2. ASSUME NEW m \in Mailboxes, MailboxLimit > 0
      PROVE  Cardinality({r \in Since(Span)' : mailbox'[r] = m}) <= MailboxLimit
  <2>1. Cardinality({r \in Since(Span) : mailbox[r] = m}) <= MailboxLimit
    BY <1>2 DEF IInv, CappedPerWindow, Capped, Span
  <2>2. Cardinality({r \in Since(Span)' : mailbox'[r] = m})
          <= Cardinality({r \in Since(Span) : mailbox[r] = m})
        /\ Cardinality({r \in Since(Span)' : mailbox'[r] = m}) \in Nat
        /\ Cardinality({r \in Since(Span) : mailbox[r] = m}) \in Nat
    BY <1>1, Fewer
  <2> QED
    BY <2>1, <2>2, RateLimitAssumption
<1>3. ASSUME NEW t \in Tokens, TokenLimit > 0
      PROVE  Cardinality({r \in Since(Span)' : token'[r] = t}) <= TokenLimit
  <2>1. Cardinality({r \in Since(Span) : token[r] = t}) <= TokenLimit
    BY <1>3 DEF IInv, CappedPerWindow, Capped, Span
  <2>2. Cardinality({r \in Since(Span)' : token'[r] = t})
          <= Cardinality({r \in Since(Span) : token[r] = t})
        /\ Cardinality({r \in Since(Span)' : token'[r] = t}) \in Nat
        /\ Cardinality({r \in Since(Span) : token[r] = t}) \in Nat
    BY <1>1, Fewer
  <2> QED
    BY <2>1, <2>2, RateLimitAssumption
<1> QED
  BY <1>2, <1>3 DEF CappedPerWindow, Capped, Span

\* The argument of the header, for the call that is admitted.
LEMMA AdmitKeepsInv ==
  ASSUME IInv, NEW r \in Calls, Admit(r)
  PROVE  IInv'
<1> USE SpanNat DEF Admit
<1>1. TypeOK'
  BY DEF IInv, TypeOK, Admitted, Recent
<1>2. Timely'
  BY DEF IInv, TypeOK, Timely, Admitted
<1>3. Kept'
  BY DEF IInv, TypeOK, Kept, Admitted, Recent
<1>4. Since(Span) \subseteq Recent(r)
  BY DEF IInv, TypeOK, Timely, Kept, Since, Admitted, Recent, Span
<1>5. Since(Span)' \in SUBSET (Since(Span) \cup {r})
  BY DEF IInv, TypeOK, Since, Admitted, Span
<1>6. Since(Span) \in SUBSET Calls /\ Recent(r) \in SUBSET Calls
  BY DEF IInv, TypeOK, Since, Admitted, Recent
<1>7. ~Full({x \in Recent(r) : mailbox[x] = mailbox[r]}, MailboxLimit)
      /\ ~Full({x \in Recent(r) : token[x] = token[r]}, TokenLimit)
  BY DEF Refuses
<1>8. ASSUME NEW m \in Mailboxes, MailboxLimit > 0
      PROVE  Cardinality({x \in Since(Span)' : mailbox'[x] = m}) <= MailboxLimit
  <2>1. Cardinality({x \in Since(Span) : mailbox[x] = m}) <= MailboxLimit
    BY <1>8 DEF IInv, CappedPerWindow, Capped, Span
  <2> DEFINE seen == {x \in Recent(r) : mailbox[x] = mailbox[r]}
             old == {x \in Since(Span) : mailbox[x] = m}
             all == {x \in Since(Span)' : mailbox'[x] = m}
  <2>2. seen \in SUBSET Calls /\ old \in SUBSET Calls /\ MailboxLimit \in Nat
    BY <1>6, RateLimitAssumption
  <2>3. \/ old \subseteq seen /\ all \subseteq old \cup {r}
        \/ all \subseteq old
    BY <1>4, <1>5
  <2>4. ~Full(seen, MailboxLimit) /\ Cardinality(old) <= MailboxLimit
    BY <1>7, <2>1
  <2> HIDE DEF seen, old, all
  <2>5. Cardinality(all) <= MailboxLimit
    BY <1>8, <2>2, <2>3, <2>4, OneMore
  <2> QED
    BY <2>5 DEF all
<1>9. ASSUME NEW t \in Tokens, TokenLimit > 0
      PROVE  Cardinality({x \in Since(Span)' : token'[x] = t}) <= TokenLimit
  <2>1. Cardinality({x \in Since(Span) : token[x] = t}) <= TokenLimit
    BY <1>9 DEF IInv, CappedPerWindow, Capped, Span
  <2> DEFINE seen == {x \in Recent(r) : token[x] = token[r]}
             old == {x \in Since(Span) : token[x] = t}
             all == {x \in Since(Span)' : token'[x] = t}
  <2>2. seen \in SUBSET Calls /\ old \in SUBSET Calls /\ TokenLimit \in Nat
    BY <1>6, RateLimitAssumption
  <2>3. \/ old \subseteq seen /\ all \subseteq old \cup {r}
        \/ all \subseteq old
    BY <1>4, <1>5
  <2>4. ~Full(seen, TokenLimit) /\ Cardinality(old) <= TokenLimit
    BY <1>7, <2>1
  <2> HIDE DEF seen, old, all
  <2>5. Cardinality(all) <= TokenLimit
    BY <1>9, <2>2, <2>3, <2>4, OneMore
  <2> QED
    BY <2>5 DEF all
<1>10. CappedPerWindow'
  BY <1>8, <1>9 DEF CappedPerWindow, Capped, Span
<1> QED
  BY <1>1, <1>2, <1>3, <1>10 DEF IInv

LEMMA NextKeepsInv == IInv /\ [Next]_vars => IInv'
<1> SUFFICES ASSUME IInv, [Next]_vars PROVE IInv'
  OBVIOUS
<1> USE SpanNat
<1>1. ASSUME NEW r \in Calls, Admit(r) PROVE IInv'
  BY <1>1, AdmitKeepsInv
<1>2. ASSUME NEW r \in Calls, Begin(r) PROVE IInv'
  <2>1. TypeOK' /\ Timely' /\ Kept'
    BY <1>2 DEF Begin, IInv, TypeOK, Timely, Kept, Admitted
  <2>2. Since(Span)' \subseteq Since(Span)
    BY <1>2 DEF Begin, IInv, TypeOK, Since, Admitted
  <2> QED
    BY <1>2, <2>1, <2>2, CapKept DEF IInv, Begin
<1>3. ASSUME NEW r \in Calls, Refuse(r) \/ Abort(r) PROVE IInv'
  <2>1. TypeOK' /\ Timely' /\ Kept'
    BY <1>3 DEF Refuse, Abort, IInv, TypeOK, Timely, Kept, Admitted
  <2>2. Since(Span)' \subseteq Since(Span)
    BY <1>3 DEF Refuse, Abort, IInv, TypeOK, Since, Admitted
  <2> QED
    BY <1>3, <2>1, <2>2, CapKept DEF IInv, Refuse, Abort
<1>4. CASE Tick
  <2>1. TypeOK' /\ Timely' /\ Kept'
    BY <1>4 DEF Tick, IInv, TypeOK, Timely, Kept, Admitted
  <2>2. Since(Span)' \subseteq Since(Span)
    BY <1>4 DEF Tick, IInv, TypeOK, Since, Admitted
  <2> QED
    BY <1>4, <2>1, <2>2, CapKept DEF IInv, Tick
<1>5. CASE UNCHANGED vars
  BY <1>5 DEF vars, IInv, TypeOK, Timely, Kept, CappedPerWindow, Capped, Since, Admitted
<1> QED
  BY <1>1, <1>2, <1>3, <1>4, <1>5 DEF Next

LEMMA Invariance == Spec => []IInv
  BY InitInv, NextKeepsInv, PTL DEF Spec

\* The cap of check_and_record_send, for all limits, windows and numbers of calls.
THEOREM QuotaHolds == Spec => []CappedPerWindow
<1>1. IInv => CappedPerWindow
  BY DEF IInv
<1> QED
  BY <1>1, Invariance, PTL

\* Types, and that only admitted calls have a row.
THEOREM RateLimitTyped == Spec => []TypeOK
<1>1. IInv => TypeOK
  BY DEF IInv
<1> QED
  BY <1>1, Invariance, PTL
=============================================================================
