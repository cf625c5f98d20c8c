---------------------- MODULE SubscriptionAdminProofs ----------------------
(***************************************************************************)
(* Theorems about SubscriptionAdmin, for any number of subscriptions: the  *)
(* rotation of secrets, for any number of rotations and requests under     *)
(* way, and the pages of the listing, for every limit.                     *)
(***************************************************************************)
EXTENDS SubscriptionAdmin, FiniteSetTheorems, SequenceTheorems,
        WellFoundedInduction, TLAPS

LEMMA Constants ==
    GraceMs \in Nat /\ NULL \notin Nat
BY Times, NullIsNoNumber

Generated == [sub : Subs, end : OrNull(Nat)]

RowsTyped ==
    now \in Nat /\ subs \in [Subs -> Row] /\ issued \in Seq(Generated)

\* Of the secrets of s all but the current one have an end; only the previous
\* one may have it still to come, and it is the one the row has for it.
OneInGrace(s) ==
    /\ subs[s].secret \in DOMAIN issued
    /\ issued[subs[s].secret] = Secret(s)
    /\ \A k \in DOMAIN issued :
          issued[k].sub = s /\ k # subs[s].secret =>
             /\ issued[k].end \in Nat
             /\ issued[k].end > now =>
                   k = subs[s].prev /\ subs[s].until = issued[k].end

\* A request knows no secret of the future.
Accepted(c) ==
    /\ c.sub \in Subs /\ c.secrets \in SUBSET Nat
    /\ c.at \in Nat /\ c.at <= now
    /\ c.newest \in Nat /\ c.newest <= Len(issued)
    /\ \A k \in DOMAIN issued :
          issued[k].sub = c.sub =>
             \/ k \in c.secrets
             \/ issued[k].end # NULL /\ issued[k].end <= c.at
             \/ c.newest < k

SecretInv ==
    /\ RowsTyped
    /\ \A s \in Subs : subs[s].status = "unborn" =>
                          \A k \in DOMAIN issued : issued[k].sub # s
    /\ \A s \in Existing : OneInGrace(s)
    /\ \A c \in calls : Accepted(c)

-----------------------------------------------------------------------------
LEMMA NewRowType ==
    ASSUME NEW name \in OrNull(Names),
           NEW status \in {"unborn", "active", "paused", "deleted"},
           NEW secret \in OrNull(Nat)
    PROVE  NewRow(name, status, secret) \in Row
BY DEF NewRow, Row, OrNull

LEMMA NoRowType == NoRow("unborn") \in Row /\ NoRow("deleted") \in Row
BY DEF NoRow, NewRow, Row, OrNull

LEMMA SecretType == \A s \in Subs : Secret(s) \in Generated
BY DEF Secret, Generated, OrNull

\* The secrets there are, after one is generated for s.
LEMMA OneMore ==
    ASSUME NEW seq \in Seq(Generated), NEW s \in Subs
    PROVE  /\ Append(seq, Secret(s)) \in Seq(Generated)
           /\ Len(seq) \in Nat /\ Len(Append(seq, Secret(s))) = Len(seq) + 1
           /\ DOMAIN seq = 1 .. Len(seq)
           /\ DOMAIN Append(seq, Secret(s)) = 1 .. (Len(seq) + 1)
           /\ \A k \in 1 .. Len(seq) : Append(seq, Secret(s))[k] = seq[k]
           /\ Append(seq, Secret(s))[Len(seq) + 1] = Secret(s)
<1>1. Secret(s) \in Generated
    BY SecretType
<1>2. PICK longer : longer = Append(seq, Secret(s))
    OBVIOUS
<1>3. /\ longer \in Seq(Generated) /\ Len(longer) = Len(seq) + 1
      /\ \A k \in 1 .. Len(seq) : longer[k] = seq[k]
      /\ longer[Len(seq) + 1] = Secret(s)
    BY <1>1, <1>2, AppendProperties
<1>4. Len(seq) \in Nat /\ DOMAIN seq = 1 .. Len(seq)
    OBVIOUS
<1>5. DOMAIN longer = 1 .. (Len(seq) + 1)
    BY <1>3
<1> QED
    BY <1>2, <1>3, <1>4, <1>5

\* The ends of a subscription's secrets, when it gets another one.
LEMMA Ended ==
    ASSUME RowsTyped, NEW s \in Subs
    PROVE  LET ended == [k \in DOMAIN issued |->
                            IF issued[k].sub = s
                            THEN [issued[k] EXCEPT !.end = EndOf(@)]
                            ELSE issued[k]]
           IN  /\ ended \in Seq(Generated) /\ Len(ended) = Len(issued)
               /\ \A k \in DOMAIN issued :
                     /\ ended[k].sub = issued[k].sub
                     /\ issued[k].sub # s => ended[k] = issued[k]
                     /\ issued[k].sub = s => ended[k].end = EndOf(issued[k].end)
<1> DEFINE ended == [k \in DOMAIN issued |->
                        IF issued[k].sub = s
                        THEN [issued[k] EXCEPT !.end = EndOf(@)]
                        ELSE issued[k]]
<1>1. DOMAIN issued = 1 .. Len(issued) /\ Len(issued) \in Nat
    BY DEF RowsTyped
<1>2. \A k \in DOMAIN issued : issued[k] \in Generated
    BY <1>1 DEF RowsTyped
<1>3. ASSUME NEW k \in DOMAIN issued
      PROVE  /\ ended[k] \in Generated /\ ended[k].sub = issued[k].sub
             /\ issued[k].sub # s => ended[k] = issued[k]
             /\ issued[k].sub = s => ended[k].end = EndOf(issued[k].end)
    <2>1. issued[k] \in Generated
        BY <1>2
    <2>2. EndOf(issued[k].end) \in OrNull(Nat)
        BY <2>1, Constants DEF EndOf, Generated, OrNull, RowsTyped
    <2> QED
        BY <2>1, <2>2 DEF Generated
<1>4. ended \in [1 .. Len(issued) -> Generated]
    BY <1>1, <1>3
<1> HIDE DEF ended
<1>5. ended \in Seq(Generated) /\ Len(ended) = Len(issued)
    <2>1. ended \in Seq(Generated)
        BY <1>1, <1>4, SeqDef
    <2>2. DOMAIN ended = 1 .. Len(issued)
        BY <1>4
    <2> QED
        BY <1>1, <2>1, <2>2
<1> QED
    BY <1>3, <1>5 DEF ended

LEMMA InitSecrets == Init => SecretInv
<1> SUFFICES ASSUME Init PROVE SecretInv
    OBVIOUS
<1>1. RowsTyped
    BY NoRowType DEF Init, RowsTyped
<1>2. \A s \in Subs : s \notin Existing
    BY DEF Init, Existing, NoRow, NewRow
<1>3. DOMAIN issued = {}
    BY DEF Init
<1> QED
    BY <1>1, <1>2, <1>3 DEF SecretInv, Existing, Init

\* What the generation of a secret leaves of another subscription's.
LEMMA KeptGrace ==
    ASSUME RowsTyped, NEW s \in Existing, OneInGrace(s), now' = now,
           subs'[s] = subs[s], DOMAIN issued \subseteq DOMAIN issued',
           \A k \in DOMAIN issued' : issued'[k].sub = s => k \in DOMAIN issued,
           \A k \in DOMAIN issued : issued[k].sub = s => issued'[k] = issued[k],
           \A k \in DOMAIN issued : issued'[k].sub = issued[k].sub
    PROVE  OneInGrace(s)'
<1>1. issued[subs[s].secret].sub = s
    BY DEF OneInGrace, Secret
<1>2. issued'[subs'[s].secret] = Secret(s)
    BY <1>1 DEF OneInGrace
<1> QED
    BY <1>2 DEF OneInGrace

\* Nor does it say more of a request than there was, beside the new secret.
LEMMA KeptAccepted ==
    ASSUME RowsTyped, NEW c \in calls, Accepted(c), NEW n \in Nat,
           now' = now, Len(issued) \in Nat, n = Len(issued) + 1,
           Len(issued') = n, DOMAIN issued = 1 .. Len(issued),
           DOMAIN issued' = 1 .. n,
           \A k \in DOMAIN issued :
              /\ issued'[k].sub = issued[k].sub
              /\ issued'[k].end = issued[k].end \/ issued'[k].end = EndOf(issued[k].end)
    PROVE  Accepted(c)'
<1>1. /\ c.sub \in Subs /\ c.secrets \in SUBSET Nat
      /\ c.at \in Nat /\ c.at <= now'
      /\ c.newest \in Nat /\ c.newest <= Len(issued')
    BY DEF Accepted
<1>2. ASSUME NEW k \in DOMAIN issued', issued'[k].sub = c.sub
      PROVE  \/ k \in c.secrets
             \/ issued'[k].end # NULL /\ issued'[k].end <= c.at
             \/ c.newest < k
    <2>1. CASE k = n
        BY <2>1 DEF Accepted
    <2>2. CASE k # n
        <3>1. k \in DOMAIN issued /\ issued[k].sub = c.sub
            BY <1>2, <2>2
        <3>2. CASE issued[k].end # NULL /\ issued[k].end <= c.at
            <4>1. issued[k] \in Generated
                BY <3>1 DEF RowsTyped
            <4>2. issued[k].end \in Nat
                BY <3>2, <4>1 DEF Generated, OrNull
            <4>3. EndOf(issued[k].end) = issued[k].end
                BY <3>2, <4>2 DEF EndOf, RowsTyped, Accepted
            <4> QED
                BY <3>1, <3>2, <4>3
        <3> QED
            BY <3>1, <3>2 DEF Accepted
    <2> QED
        BY <2>1, <2>2
<1> QED
    BY <1>1, <1>2 DEF Accepted

LEMMA CreateSecrets ==
    ASSUME SecretInv, NEW s \in Subs, NEW name \in Names, NEW enabled \in BOOLEAN,
           Create(s, name, enabled)
    PROVE  SecretInv'
<1>1. PICK n : n = Len(issued) + 1
    OBVIOUS
<1>2. RowsTyped
    BY DEF SecretInv
<1>3. /\ issued' \in Seq(Generated) /\ Len(issued) \in Nat /\ n \in Nat
      /\ Len(issued') = n /\ DOMAIN issued = 1 .. Len(issued)
      /\ DOMAIN issued' = 1 .. n
      /\ \A k \in DOMAIN issued : issued'[k] = issued[k]
      /\ issued'[n] = Secret(s)
    BY <1>1, <1>2, OneMore DEF RowsTyped, Create
<1>4. PICK row : row = NewRow(name, Status(enabled), n)
    OBVIOUS
<1>5. row \in Row /\ row.secret = n /\ row.status \in {"active", "paused"}
    <2>1. row \in Row
        BY <1>3, <1>4, NewRowType DEF Status, OrNull
    <2> QED
        BY <1>4, <2>1 DEF NewRow, Status
<1>6. /\ subs' = [subs EXCEPT ![s] = row] /\ now' = now /\ calls' = calls
      /\ subs[s].status = "unborn"
    BY <1>3, <1>4 DEF Create
<1>7. RowsTyped'
    BY <1>2, <1>3, <1>5, <1>6 DEF RowsTyped
<1>8. subs'[s] = row /\ \A t \in Subs \ {s} : subs'[t] = subs[t]
    BY <1>2, <1>6 DEF RowsTyped
<1>9. \A k \in DOMAIN issued : issued[k].sub # s
    BY <1>6 DEF SecretInv
<1>10. issued'[n].sub = s
    BY <1>3 DEF Secret
<1>11. ASSUME NEW t \in Subs, subs'[t].status = "unborn", NEW k \in DOMAIN issued'
       PROVE  issued'[k].sub # t
    <2>1. t # s /\ subs[t].status = "unborn"
        BY <1>5, <1>8, <1>11
    <2>2. k \in DOMAIN issued \/ k = n
        BY <1>1, <1>3
    <2> QED
        BY <1>3, <1>10, <2>1, <2>2 DEF SecretInv
<1>12. ASSUME NEW t \in Existing' PROVE OneInGrace(t)'
    <2>1. CASE t = s
        <3>1. \A k \in DOMAIN issued' : issued'[k].sub = s => k = n
            BY <1>1, <1>3, <1>9
        <3>2. n \in DOMAIN issued' /\ subs'[s].secret = n
            BY <1>1, <1>3, <1>5, <1>8
        <3> QED
            BY <1>3, <2>1, <3>1, <3>2 DEF OneInGrace
    <2>2. CASE t # s
        <3>1. t \in Existing /\ OneInGrace(t) /\ subs'[t] = subs[t]
            BY <1>8, <2>2 DEF SecretInv, Existing
        <3>2. /\ DOMAIN issued \subseteq DOMAIN issued'
              /\ \A k \in DOMAIN issued' : issued'[k].sub = t => k \in DOMAIN issued
            BY <1>1, <1>3, <1>10, <2>2
        <3> QED
            BY <1>2, <1>3, <1>6, <3>1, <3>2, KeptGrace
    <2> QED
        BY <2>1, <2>2
<1>13. ASSUME NEW c \in calls' PROVE Accepted(c)'
    BY <1>1, <1>2, <1>3, <1>6, KeptAccepted DEF SecretInv
<1> QED
    BY <1>7, <1>11, <1>12, <1>13 DEF SecretInv

\* A rename, a pause or a removal.
LEMMA UpdateSecrets ==
    ASSUME SecretInv, NEW s \in Existing, NEW row \in Row,
           subs' = [subs EXCEPT ![s] = row], UNCHANGED <<now, issued, calls>>,
           row.status # "unborn",
           \/ row.status = "deleted"
           \/ /\ row.secret = subs[s].secret /\ row.prev = subs[s].prev
              /\ row.until = subs[s].until
    PROVE  SecretInv'
<1>1. s \in Subs /\ subs \in [Subs -> Row]
    BY DEF Existing, SecretInv, RowsTyped
<1>2. subs'[s] = row /\ \A t \in Subs \ {s} : subs'[t] = subs[t]
    BY <1>1
<1>3. RowsTyped'
    BY <1>1 DEF SecretInv, RowsTyped
<1>4. \A t \in Subs : subs'[t].status = "unborn" =>
                         \A k \in DOMAIN issued' : issued'[k].sub # t
    BY <1>2 DEF SecretInv
<1>5. ASSUME NEW t \in Existing' PROVE OneInGrace(t)'
    <2>1. t \in Existing /\ t \in Subs
        BY <1>2 DEF Existing
    <2>2. /\ subs'[t].secret = subs[t].secret /\ subs'[t].prev = subs[t].prev
          /\ subs'[t].until = subs[t].until
        BY <1>2, <2>1 DEF Existing
    <2> QED
        BY <2>1, <2>2 DEF SecretInv, OneInGrace
<1>6. ASSUME NEW c \in calls' PROVE Accepted(c)'
    BY DEF SecretInv, Accepted
<1> QED
    BY <1>3, <1>4, <1>5, <1>6 DEF SecretInv

LEMMA PatchSecrets ==
    ASSUME SecretInv, NEW s \in Subs,
           \/ \E name \in Names : Rename(s, name)
           \/ \E enabled \in BOOLEAN : Enable(s, enabled)
           \/ Remove(s)
    PROVE  SecretInv'
<1>1. subs[s] \in Row
    BY DEF SecretInv, RowsTyped
<1>2. ASSUME NEW name \in Names, Rename(s, name)
      PROVE  SecretInv'
    <2>1. PICK row : row = [subs[s] EXCEPT !.name = name]
        OBVIOUS
    <2>2. /\ row \in Row /\ row.status = subs[s].status
          /\ row.secret = subs[s].secret /\ row.prev = subs[s].prev
          /\ row.until = subs[s].until
        BY <1>1, <2>1 DEF Row, OrNull
    <2>3. /\ s \in Existing /\ subs' = [subs EXCEPT ![s] = row]
          /\ UNCHANGED <<now, issued, calls>>
        BY <1>2, <2>1 DEF Rename
    <2> QED
        BY <2>2, <2>3, UpdateSecrets DEF Existing
<1>3. ASSUME NEW enabled \in BOOLEAN, Enable(s, enabled)
      PROVE  SecretInv'
    <2>1. PICK row : row = [subs[s] EXCEPT !.status = Status(enabled)]
        OBVIOUS
    <2>2. /\ row \in Row /\ row.status # "unborn"
          /\ row.secret = subs[s].secret /\ row.prev = subs[s].prev
          /\ row.until = subs[s].until
        BY <1>1, <2>1 DEF Row, Status
    <2>3. /\ s \in Existing /\ subs' = [subs EXCEPT ![s] = row]
          /\ UNCHANGED <<now, issued, calls>>
        BY <1>3, <2>1 DEF Enable
    <2> QED
        BY <2>2, <2>3, UpdateSecrets
<1>4. ASSUME Remove(s)
      PROVE  SecretInv'
    <2>1. NoRow("deleted").status = "deleted"
        BY DEF NoRow, NewRow
    <2>2. /\ s \in Existing /\ subs' = [subs EXCEPT ![s] = NoRow("deleted")]
          /\ UNCHANGED <<now, issued, calls>>
        BY <1>4 DEF Remove
    <2> QED
        BY <2>1, <2>2, NoRowType, UpdateSecrets
<1> QED
    BY <1>2, <1>3, <1>4

\* The row and the secrets after a rotation.
LEMMA Rotated ==
    ASSUME RowsTyped, NEW s \in Existing, Rotate(s), NEW n, n = Len(issued) + 1
    PROVE  /\ RowsTyped' /\ Len(issued) \in Nat /\ n \in Nat
           /\ Len(issued') = n /\ DOMAIN issued = 1 .. Len(issued)
           /\ DOMAIN issued' = 1 .. n /\ issued'[n] = Secret(s)
           /\ \A k \in DOMAIN issued :
                 /\ issued'[k].sub = issued[k].sub
                 /\ issued[k].sub # s => issued'[k] = issued[k]
                 /\ issued[k].sub = s => issued'[k].end = EndOf(issued[k].end)
           /\ subs'[s].secret = n /\ subs'[s].status = subs[s].status
           /\ subs'[s].name = subs[s].name
           /\ GraceMs # 0 => /\ subs'[s].prev = subs[s].secret
                             /\ subs'[s].until = now + GraceMs
           /\ \A t \in Subs \ {s} : subs'[t] = subs[t]
<1>1. s \in Subs /\ subs[s] \in Row /\ now \in Nat /\ now' = now
    BY DEF Existing, RowsTyped, Rotate
<1>2. PICK ended : ended = [k \in DOMAIN issued |->
                               IF issued[k].sub = s
                               THEN [issued[k] EXCEPT !.end = EndOf(@)]
                               ELSE issued[k]]
    OBVIOUS
<1>3. /\ ended \in Seq(Generated) /\ Len(ended) = Len(issued)
      /\ \A k \in DOMAIN issued :
            /\ ended[k].sub = issued[k].sub
            /\ issued[k].sub # s => ended[k] = issued[k]
            /\ issued[k].sub = s => ended[k].end = EndOf(issued[k].end)
    BY <1>1, <1>2, Ended
<1>4. issued' = Append(ended, Secret(s))
    BY <1>2 DEF Rotate
<1>5. /\ issued' \in Seq(Generated) /\ Len(issued) \in Nat
      /\ Len(issued') = n /\ DOMAIN issued = 1 .. Len(issued)
      /\ DOMAIN issued' = 1 .. n /\ issued'[n] = Secret(s)
      /\ \A k \in DOMAIN issued : issued'[k] = ended[k]
    <2>1. DOMAIN issued = 1 .. Len(issued) /\ Len(issued) \in Nat
        BY DEF RowsTyped
    <2> QED
        BY <1>1, <1>3, <1>4, <2>1, OneMore
<1>6. PICK prev, until : /\ prev = (IF GraceMs = 0 THEN NULL ELSE subs[s].secret)
                         /\ until = (IF GraceMs = 0 THEN NULL ELSE now + GraceMs)
    OBVIOUS
<1>7. prev \in OrNull(Nat) /\ until \in OrNull(Nat) /\ n \in OrNull(Nat) /\ n \in Nat
    <2>1. subs[s].secret \in OrNull(Nat) /\ now + GraceMs \in Nat
        BY <1>1, Constants DEF Row
    <2> QED
        BY <1>5, <1>6, <2>1 DEF OrNull
<1>8. PICK row : row = [subs[s] EXCEPT !.secret = n, !.prev = prev, !.until = until]
    OBVIOUS
<1>9. /\ row \in Row /\ row.secret = n /\ row.prev = prev /\ row.until = until
      /\ row.status = subs[s].status /\ row.name = subs[s].name
    BY <1>1, <1>7, <1>8 DEF Row
<1>10. subs' = [subs EXCEPT ![s] = row]
    <2>1. subs' = [subs EXCEPT ![s].secret = n, ![s].prev = prev, ![s].until = until]
        BY <1>5, <1>6 DEF Rotate
    <2> QED
        BY <1>8, <2>1
<1>11. subs'[s] = row /\ \A t \in Subs \ {s} : subs'[t] = subs[t]
    BY <1>1, <1>10 DEF RowsTyped
<1>12. RowsTyped'
    BY <1>1, <1>5, <1>9, <1>10 DEF RowsTyped
<1> QED
    BY <1>3, <1>5, <1>6, <1>7, <1>9, <1>11, <1>12

LEMMA RotateSecrets ==
    ASSUME SecretInv, NEW s \in Subs, Rotate(s)
    PROVE  SecretInv'
<1>1. PICK n : n = Len(issued) + 1
    OBVIOUS
<1>2. RowsTyped /\ s \in Existing /\ now \in Nat /\ now' = now /\ calls' = calls
    BY DEF SecretInv, RowsTyped, Rotate
<1>3. /\ RowsTyped' /\ Len(issued) \in Nat /\ n \in Nat
      /\ Len(issued') = n /\ DOMAIN issued = 1 .. Len(issued)
      /\ DOMAIN issued' = 1 .. n /\ issued'[n] = Secret(s)
      /\ \A k \in DOMAIN issued :
            /\ issued'[k].sub = issued[k].sub
            /\ issued[k].sub # s => issued'[k] = issued[k]
            /\ issued[k].sub = s => issued'[k].end = EndOf(issued[k].end)
      /\ subs'[s].secret = n /\ subs'[s].status = subs[s].status
      /\ GraceMs # 0 => /\ subs'[s].prev = subs[s].secret
                        /\ subs'[s].until = now + GraceMs
      /\ \A t \in Subs \ {s} : subs'[t] = subs[t]
    BY <1>1, <1>2, Rotated
<1>4. issued'[n].sub = s
    BY <1>3 DEF Secret
<1>5. ASSUME NEW t \in Subs, subs'[t].status = "unborn", NEW k \in DOMAIN issued'
      PROVE  issued'[k].sub # t
    <2>1. t # s /\ subs[t].status = "unborn"
        BY <1>2, <1>3, <1>5 DEF Existing
    <2>2. k \in DOMAIN issued \/ k = n
        BY <1>1, <1>3
    <2> QED
        BY <1>3, <1>4, <2>1, <2>2 DEF SecretInv
<1>6. ASSUME NEW k \in DOMAIN issued, issued[k].sub = s
      PROVE  /\ issued'[k].end \in Nat
             /\ issued'[k].end > now =>
                   k = subs'[s].prev /\ subs'[s].until = issued'[k].end
    <2>1. OneInGrace(s) /\ issued'[k].end = EndOf(issued[k].end)
        BY <1>2, <1>3, <1>6 DEF SecretInv
    <2>2. CASE k = subs[s].secret
        <3>1. issued'[k].end = now + GraceMs
            BY <2>1, <2>2 DEF OneInGrace, Secret, EndOf
        <3> QED
            BY <1>2, <1>3, <2>2, <3>1, Constants
    <2>3. CASE k # subs[s].secret
        <3>1. issued[k].end \in Nat
            BY <1>6, <2>1, <2>3 DEF OneInGrace
        <3>2. EndOf(issued[k].end) \in Nat /\ EndOf(issued[k].end) <= now
            BY <1>2, <3>1, Constants DEF EndOf
        <3> QED
            BY <1>2, <2>1, <3>2
    <2> QED
        BY <2>2, <2>3
<1>7. ASSUME NEW t \in Existing' PROVE OneInGrace(t)'
    <2>1. CASE t = s
        <3>1. \A k \in DOMAIN issued' : k \in DOMAIN issued \/ k = n
            BY <1>1, <1>3
        <3>2. n \in DOMAIN issued'
            BY <1>1, <1>3
        <3> QED
            BY <1>2, <1>3, <1>6, <2>1, <3>1, <3>2 DEF OneInGrace
    <2>2. CASE t # s
        <3>1. t \in Existing /\ OneInGrace(t) /\ subs'[t] = subs[t]
            BY <1>3, <2>2 DEF SecretInv, Existing
        <3>2. /\ DOMAIN issued \subseteq DOMAIN issued'
              /\ \A k \in DOMAIN issued' : issued'[k].sub = t => k \in DOMAIN issued
            BY <1>1, <1>3, <1>4, <2>2
        <3>3. \A k \in DOMAIN issued : issued[k].sub = t => issued'[k] = issued[k]
            BY <1>3, <2>2
        <3> QED
            BY <1>2, <1>3, <3>1, <3>2, <3>3, KeptGrace
    <2> QED
        BY <2>1, <2>2
<1>8. \A k \in DOMAIN issued :
         /\ issued'[k].sub = issued[k].sub
         /\ issued'[k].end = issued[k].end \/ issued'[k].end = EndOf(issued[k].end)
    BY <1>3
<1>9. ASSUME NEW c \in calls' PROVE Accepted(c)'
    BY <1>1, <1>2, <1>3, <1>8, KeptAccepted DEF SecretInv
<1> QED
    BY <1>3, <1>5, <1>7, <1>9 DEF SecretInv

\* What is signed is all that has not ended.
LEMMA SendSecrets ==
    ASSUME SecretInv, NEW s \in Subs, Send(s)
    PROVE  SecretInv'
<1>1. /\ s \in Existing /\ now \in Nat /\ RowsTyped /\ subs[s] \in Row
      /\ UNCHANGED <<now, subs, issued>> /\ OneInGrace(s)
    BY DEF SecretInv, RowsTyped, Send
<1>2. DOMAIN issued = 1 .. Len(issued) /\ Len(issued) \in Nat
    BY <1>1 DEF RowsTyped
<1>3. subs[s].secret \in Nat /\ subs[s].secret <= Len(issued)
    BY <1>1, <1>2 DEF OneInGrace
<1>4. SigningSecrets(subs[s]) \in SUBSET Nat
    BY <1>1, <1>3 DEF Row, OrNull, SigningSecrets
<1>5. ASSUME NEW k \in DOMAIN issued, issued[k].sub = s
      PROVE  \/ k \in SigningSecrets(subs[s])
             \/ issued[k].end # NULL /\ issued[k].end <= now
    <2>1. CASE k = subs[s].secret
        BY <2>1 DEF SigningSecrets
    <2>2. CASE k # subs[s].secret
        <3>1. issued[k].end \in Nat /\ k \in Nat /\ issued[k].end # NULL
            BY <1>1, <1>2, <1>5, <2>2, Constants DEF OneInGrace
        <3>2. CASE issued[k].end > now
            <4>1. k = subs[s].prev /\ subs[s].until = issued[k].end
                BY <1>1, <1>5, <2>2, <3>2 DEF OneInGrace
            <4>2. k # NULL /\ subs[s].until > now
                BY <3>1, <3>2, <4>1, Constants
            <4> QED
                BY <4>1, <4>2 DEF SigningSecrets
        <3>3. CASE ~(issued[k].end > now)
            BY <1>1, <3>1, <3>3
        <3> QED
            BY <3>2, <3>3
    <2> QED
        BY <2>1, <2>2
<1>6. PICK c : c = [sub |-> s, secrets |-> SigningSecrets(subs[s]),
                    newest |-> subs[s].secret, at |-> now]
    OBVIOUS
<1>7. /\ c.sub = s /\ c.secrets = SigningSecrets(subs[s])
      /\ c.newest = subs[s].secret /\ c.at = now
    BY <1>6
<1>8. calls' = calls \cup {c}
    BY <1>6 DEF Send
<1>9. Accepted(c)'
    BY <1>1, <1>3, <1>4, <1>5, <1>7 DEF Accepted
<1>10. ASSUME NEW d \in calls PROVE Accepted(d)'
    BY <1>1 DEF SecretInv, Accepted
<1>11. RowsTyped' /\ (\A t \in Existing' : OneInGrace(t)')
    BY <1>1 DEF SecretInv, RowsTyped, Existing, OneInGrace
<1>12. \A t \in Subs : subs'[t].status = "unborn" =>
                          \A k \in DOMAIN issued' : issued'[k].sub # t
    BY <1>1 DEF SecretInv
<1> QED
    BY <1>8, <1>9, <1>10, <1>11, <1>12 DEF SecretInv

\* The clock, the reader or an answer.
LEMMA LaterSecrets ==
    ASSUME SecretInv, UNCHANGED <<subs, issued>>, calls' \subseteq calls,
           now' \in Nat, now <= now'
    PROVE  SecretInv'
<1>1. RowsTyped'
    BY DEF SecretInv, RowsTyped
<1>2. ASSUME NEW s \in Existing' PROVE OneInGrace(s)'
    <2>1. s \in Existing /\ OneInGrace(s) /\ now \in Nat
        BY DEF Existing, SecretInv, RowsTyped
    <2>2. ASSUME NEW k \in DOMAIN issued, issued[k].end \in Nat, issued[k].end > now'
          PROVE  issued[k].end > now
        BY <2>1, <2>2
    <2> QED
        BY <2>1, <2>2 DEF OneInGrace
<1>3. ASSUME NEW c \in calls' PROVE Accepted(c)'
    <2>1. Accepted(c) /\ now \in Nat
        BY DEF SecretInv, RowsTyped
    <2>2. c.at <= now'
        BY <2>1 DEF Accepted
    <2> QED
        BY <2>1, <2>2 DEF Accepted
<1>4. \A s \in Subs : subs'[s].status = "unborn" =>
                         \A k \in DOMAIN issued' : issued'[k].sub # s
    BY DEF SecretInv
<1> QED
    BY <1>1, <1>2, <1>3, <1>4 DEF SecretInv

LEMMA StepSecrets == SecretInv /\ [Next]_vars => SecretInv'
<1> SUFFICES ASSUME SecretInv, [Next]_vars PROVE SecretInv'
    OBVIOUS
<1>1. CASE Operate
    BY <1>1, CreateSecrets, PatchSecrets, RotateSecrets DEF Operate
<1>2. CASE \E s \in Subs : Send(s)
    BY <1>2, SendSecrets
<1>3. now \in Nat /\ now <= now
    BY DEF SecretInv, RowsTyped
<1>4. CASE \E c \in calls : Arrive(c)
    BY <1>3, <1>4, LaterSecrets DEF Arrive
<1>5. CASE Read \/ UNCHANGED vars
    BY <1>3, <1>5, LaterSecrets DEF Read, FirstPage, NextPage, CloseReader, vars
<1>6. CASE Tick
    <2>1. now' = now + 1 /\ UNCHANGED <<subs, issued, calls>>
        BY <1>6 DEF Tick
    <2>2. now' \in Nat /\ now <= now'
        BY <1>3, <2>1
    <2> QED
        BY <2>1, <2>2, LaterSecrets
<1> QED
    BY <1>1, <1>2, <1>4, <1>5, <1>6 DEF Next, Deliver

-----------------------------------------------------------------------------
(***************************************************************************)
(* Names in order.                                                         *)
(***************************************************************************)
Named(S) == S \in SUBSET Subs /\ IsFiniteSet(S) /\ \A s \in S : subs[s].name \in Nat

Below(S, s) == {t \in S : subs[t].name < subs[s].name}

LEMMA Least ==
    ASSUME NEW S \in SUBSET Nat, S # {}
    PROVE  \E l \in S : \A f \in S : l <= f
<1>1. PICK l \in S : \A f \in S : <<f, l>> \notin OpToRel(<, Nat)
    BY NatLessThanWellFounded, WFMin
<1>2. \A f \in S : ~(f < l)
    BY <1>1 DEF OpToRel
<1>3. l \in Nat /\ \A f \in S : f \in Nat
    OBVIOUS
<1> QED
    BY <1>2, <1>3

LEMMA FirstNamed ==
    ASSUME NEW S, Named(S), S # {}
    PROVE  \E l \in S : \A s \in S : subs[l].name <= subs[s].name
<1> DEFINE names == {subs[s].name : s \in S}
<1>1. names \in SUBSET Nat /\ names # {}
    BY DEF Named
<1>2. PICK n \in names : \A m \in names : n <= m
    <2> HIDE DEF names
    <2> QED
        BY <1>1, Least
<1> QED
    BY <1>2

LEMMA BelowFinite ==
    ASSUME NEW S, Named(S), NEW s
    PROVE  IsFiniteSet(Below(S, s)) /\ Cardinality(Below(S, s)) \in Nat
<1>1. Below(S, s) \in SUBSET S
    BY DEF Below
<1> QED
    BY <1>1, FS_Subset, FS_CardinalityType DEF Named

\* The last one has the most below it.
LEMMA LastNamed ==
    ASSUME NEW S, Named(S), S # {}
    PROVE  \E g \in S : \A s \in S : subs[s].name <= subs[g].name
<1> DEFINE above(e) == {t \in S : subs[e].name < subs[t].name}
           counts == {Cardinality(above(e)) : e \in S}
<1>1. ASSUME NEW e \in S
      PROVE  IsFiniteSet(above(e)) /\ Cardinality(above(e)) \in Nat
    <2>1. above(e) \in SUBSET S
        OBVIOUS
    <2> QED
        BY <2>1, FS_Subset, FS_CardinalityType DEF Named
<1>2. counts \in SUBSET Nat /\ counts # {}
    BY <1>1
<1>3. PICK g \in S : \A c \in counts : Cardinality(above(g)) <= c
    <2> HIDE DEF counts
    <2>1. PICK l \in counts : \A c \in counts : l <= c
        BY <1>2, Least
    <2> QED
        BY <2>1 DEF counts
<1>4. \A s \in S : subs[s].name \in Nat
    BY DEF Named
<1>5. ASSUME NEW f \in S, subs[g].name < subs[f].name PROVE FALSE
    <2>1. above(f) \in SUBSET above(g) /\ f \in above(g) /\ f \notin above(f)
        BY <1>4, <1>5
    <2>2. /\ Cardinality(above(f)) <= Cardinality(above(g))
          /\ Cardinality(above(f)) # Cardinality(above(g))
        BY <1>1, <2>1, FS_Subset
    <2>3. Cardinality(above(g)) <= Cardinality(above(f))
        BY <1>3
    <2>4. Cardinality(above(g)) \in Nat /\ Cardinality(above(f)) \in Nat
        BY <1>1
    <2> QED
        BY <2>2, <2>3, <2>4
<1> QED
    BY <1>4, <1>5

\* FirstOf takes whatever comes before something it takes, ...
LEMMA FirstIsPrefix ==
    ASSUME NEW S, Named(S), NEW n \in Nat, NEW g \in FirstOf(S, n), NEW s \in S,
           subs[s].name <= subs[g].name
    PROVE  s \in FirstOf(S, n)
<1>1. g \in S /\ Cardinality(Below(S, g)) < n
    BY DEF FirstOf, Below
<1>2. Below(S, s) \in SUBSET Below(S, g)
    BY <1>1 DEF Below, Named
<1>3. Cardinality(Below(S, s)) <= Cardinality(Below(S, g))
    BY <1>2, BelowFinite, FS_Subset
<1>4. Cardinality(Below(S, s)) < n
    BY <1>1, <1>3, BelowFinite
<1> QED
    BY <1>4 DEF FirstOf, Below

\* ... something of everything, ...
LEMMA FirstIsNotEmpty ==
    ASSUME NEW S, Named(S), S # {}, NEW n \in Nat \ {0}
    PROVE  FirstOf(S, n) # {}
<1>1. PICK l \in S : \A s \in S : subs[l].name <= subs[s].name
    BY FirstNamed
<1>2. Below(S, l) = {}
    BY <1>1 DEF Below, Named
<1>3. Cardinality(Below(S, l)) = 0
    BY <1>2, FS_EmptySet
<1> QED
    BY <1>3 DEF FirstOf, Below

\* ... and everything if that is less than it was asked for.
LEMMA FirstIsAll ==
    ASSUME NEW S, Named(S), NEW n \in Nat, Cardinality(FirstOf(S, n)) < n
    PROVE  FirstOf(S, n) = S
<1> DEFINE first == FirstOf(S, n)
<1>1. first \in SUBSET S /\ IsFiniteSet(first) /\ Cardinality(first) \in Nat
    <2>1. first \in SUBSET S
        BY DEF FirstOf
    <2> QED
        BY <2>1, FS_Subset, FS_CardinalityType DEF Named
<1>2. ASSUME S \ first # {} PROVE FALSE
    <2>1. Named(S \ first)
        BY FS_Subset DEF Named
    <2>2. PICK l \in S \ first : \A s \in S \ first : subs[l].name <= subs[s].name
        BY <1>2, <2>1, FirstNamed
    <2>3. Below(S, l) \in SUBSET first
        BY <2>2 DEF Below, Named
    <2>4. Cardinality(Below(S, l)) <= Cardinality(first)
        BY <1>1, <2>3, FS_Subset
    <2>5. Cardinality(Below(S, l)) < n
        BY <1>1, <2>4, BelowFinite
    <2>6. l \in first
        BY <2>2, <2>5 DEF FirstOf, Below
    <2> QED
        BY <2>2, <2>6
<1> QED
    BY <1>1, <1>2

\* If there are no more than asked for, FirstOf takes all.
LEMMA FewAreFirst ==
    ASSUME NEW S, Named(S), NEW n \in Nat, Cardinality(S) <= n
    PROVE  FirstOf(S, n) = S
<1>1. ASSUME NEW s \in S PROVE s \in FirstOf(S, n)
    <2>1. Below(S, s) \in SUBSET S /\ s \notin Below(S, s)
        BY DEF Below, Named
    <2>2. /\ Cardinality(Below(S, s)) <= Cardinality(S)
          /\ Cardinality(Below(S, s)) # Cardinality(S)
        BY <2>1, FS_Subset DEF Named
    <2>3. Cardinality(S) \in Nat
        BY FS_CardinalityType DEF Named
    <2>4. Cardinality(Below(S, s)) < n
        BY <2>2, <2>3, BelowFinite
    <2> QED
        BY <2>4 DEF FirstOf, Below
<1> QED
    BY <1>1 DEF FirstOf

-----------------------------------------------------------------------------
(***************************************************************************)
(* Pages.  What a page shows, and what it leaves for the next.             *)
(***************************************************************************)
LEMMA PageCut ==
    ASSUME NEW L, Named(L), NEW rows, rows = FirstOf(L, Limit + 1),
           NEW items, items = FirstOf(rows, Limit)
    PROVE  /\ items \subseteq L
           /\ NextCursor(rows, items) = NULL => items = L
           /\ NextCursor(rows, items) # NULL =>
                 /\ \E g \in L : NextCursor(rows, items) = subs[g].name
                 /\ \A s \in L : s \in items
                                 <=> subs[s].name <= NextCursor(rows, items)
<1>1. Limit \in Nat /\ Limit # 0 /\ Limit + 1 \in Nat /\ NULL \notin Nat
    BY Limits, NullIsNoNumber
<1>2. rows \in SUBSET L /\ items \in SUBSET rows
    BY DEF FirstOf
<1>3. Named(rows) /\ Named(items)
    BY <1>2, FS_Subset DEF Named
<1>4. Cardinality(rows) \in Nat
    BY <1>3, FS_CardinalityType DEF Named
<1>5. CASE Cardinality(rows) <= Limit
    <2>1. NextCursor(rows, items) = NULL
        BY <1>5 DEF NextCursor
    <2>2. Cardinality(rows) < Limit + 1
        BY <1>1, <1>4, <1>5
    <2>3. rows = L
        BY <1>1, <2>2, FirstIsAll
    <2>4. items = rows
        BY <1>1, <1>3, <1>5, FewAreFirst
    <2> QED
        BY <2>1, <2>3, <2>4
<1>6. CASE ~(Cardinality(rows) <= Limit)
    <2>1. rows # {}
        BY <1>1, <1>6, FS_EmptySet
    <2>2. items # {}
        BY <1>1, <1>3, <2>1, FirstIsNotEmpty
    <2>3. \E g \in items : \A s \in items : subs[s].name <= subs[g].name
        BY <1>3, <2>2, LastNamed
    <2>4. NextCursor(rows, items) = LastName(items)
        BY <1>6 DEF NextCursor
    <2>5. \E n \in {subs[s].name : s \in items} : \A s \in items : subs[s].name <= n
        BY <2>3
    <2>6. PICK g \in items : /\ LastName(items) = subs[g].name
                             /\ \A s \in items : subs[s].name <= subs[g].name
        BY <2>5 DEF LastName
    <2>7. subs[g].name # NULL
        BY <1>1, <1>3 DEF Named
    <2>8. ASSUME NEW s \in L, subs[s].name <= subs[g].name PROVE s \in items
        <3>1. s \in rows
            BY <1>1, <1>2, <2>8, FirstIsPrefix
        <3> QED
            BY <1>1, <1>3, <2>8, <3>1, FirstIsPrefix
    <2> QED
        BY <1>2, <2>4, <2>6, <2>7, <2>8
<1> QED
    BY <1>5, <1>6

\* What a client was shown of the subscriptions that stay.
Reads(r) ==
    /\ r \in [status : {NULL, "active"}, cursor : OrNull(Nat), steady : SUBSET Subs,
              times : [Subs -> Nat]]
    /\ \A s \in r.steady :
          /\ s \in Existing /\ r.status \in {NULL, subs[s].status}
          /\ r.times[s] = IF r.cursor = NULL \/ subs[s].name <= r.cursor
                          THEN 1 ELSE 0

NamesOK == \A s \in Existing : subs[s].name \in Nat

PagesInv == RowsTyped /\ NamesOK /\ (reader # NULL => Reads(reader))

\* One page.
LEMMA PageReads ==
    ASSUME PagesInv, NEW status \in {NULL, "active"}, NEW after,
           NEW steady \in SUBSET Subs, NEW times \in [Subs -> Nat],
           after # NULL => after \in Nat, UNCHANGED subs,
           \A s \in steady : s \in Existing /\ status \in {NULL, subs[s].status},
           \A s \in steady :
              times[s] = IF after # NULL /\ subs[s].name <= after THEN 1 ELSE 0,
           Page(status, after, steady, times)
    PROVE  Reads(reader)'
<1> DEFINE L == Listed(status, after)
<1>1. PICK rows : rows = FirstOf(L, Limit + 1)
    OBVIOUS
<1>2. PICK items : items = FirstOf(rows, Limit)
    OBVIOUS
<1>3. PICK next : next = NextCursor(rows, items)
    OBVIOUS
<1>4. reader' = [status |-> status, cursor |-> next, steady |-> steady,
                 times |-> [s \in Subs |->
                               times[s] + IF s \in items THEN 1 ELSE 0]]
    BY <1>1, <1>2, <1>3 DEF Page
<1>5. Named(L)
    <2>1. L \in SUBSET Subs /\ \A s \in L : subs[s].name \in Nat
        BY DEF Listed, PagesInv, NamesOK, Existing
    <2> QED
        BY <2>1, FiniteSubs, FS_Subset DEF Named
<1>6. /\ \A s \in L : after # NULL => subs[s].name > after
      /\ \A s \in steady : after # NULL => s \in L \/ ~(subs[s].name > after)
      /\ \A s \in steady : after = NULL => s \in L
      /\ \A s \in L : subs[s].name \in Nat
    BY <1>5 DEF Listed, Named
<1> HIDE DEF L
<1>7. /\ items \subseteq L
      /\ next = NULL => items = L
      /\ next # NULL => /\ \E g \in L : next = subs[g].name
                        /\ \A s \in L : s \in items <=> subs[s].name <= next
    BY <1>1, <1>2, <1>3, <1>5, PageCut
<1>8. ASSUME NEW s \in steady
      PROVE  times[s] + (IF s \in items THEN 1 ELSE 0)
                = IF next = NULL \/ subs[s].name <= next THEN 1 ELSE 0
    <2>1. subs[s].name \in Nat /\ s \in Subs
        BY DEF PagesInv, NamesOK, Existing
    <2>2. CASE after # NULL /\ subs[s].name <= after
        <3>1. times[s] = 1
            BY <2>2
        <3>2. s \notin L
            BY <1>6, <2>1, <2>2
        <3>3. next # NULL => subs[s].name <= next
            <4>1. ASSUME NEW g \in L, next = subs[g].name PROVE subs[s].name <= next
                BY <1>6, <2>1, <2>2, <4>1
            <4> QED
                BY <1>7, <4>1
        <3> QED
            BY <1>7, <3>1, <3>2, <3>3
    <2>3. CASE ~(after # NULL /\ subs[s].name <= after)
        <3>1. times[s] = 0
            BY <2>3
        <3>2. s \in L
            BY <1>6, <2>1, <2>3
        <3> QED
            BY <1>7, <3>1, <3>2
    <2> QED
        BY <2>2, <2>3
<1>9. [s \in Subs |-> times[s] + IF s \in items THEN 1 ELSE 0] \in [Subs -> Nat]
    OBVIOUS
<1>10. next # NULL => next \in Nat
    BY <1>6, <1>7
<1>11. /\ reader'.status = status /\ reader'.cursor = next /\ reader'.steady = steady
       /\ reader'.times = [s \in Subs |-> times[s] + IF s \in items THEN 1 ELSE 0]
    BY <1>4
<1>12. \A s \in steady : s \in Subs /\ s \in Existing'
    BY DEF Existing
<1> QED
    BY <1>4, <1>8, <1>9, <1>10, <1>11, <1>12 DEF Reads, OrNull

\* An operation between two pages: what it changes is steady no more.
LEMMA DisturbPages ==
    ASSUME PagesInv, RowsTyped', NamesOK', Disturb,
           \A s \in Existing : subs'[s].name = subs[s].name => s \in Existing'
    PROVE  PagesInv'
<1>1. CASE reader = NULL
    BY <1>1 DEF Disturb, PagesInv
<1>2. CASE reader # NULL
    <2>1. PICK kept : kept = {s \in reader.steady :
                                /\ subs'[s].name = subs[s].name
                                /\ reader.status \in {NULL, subs'[s].status}}
        OBVIOUS
    <2>2. reader' = [reader EXCEPT !.steady = kept] /\ Reads(reader)
        BY <1>2, <2>1 DEF Disturb, PagesInv
    <2>3. /\ reader'.times = reader.times /\ reader'.cursor = reader.cursor
          /\ reader'.status = reader.status /\ reader'.steady = kept
          /\ kept \in SUBSET reader.steady
          /\ reader' \in [status : {NULL, "active"}, cursor : OrNull(Nat),
                          steady : SUBSET Subs, times : [Subs -> Nat]]
        BY <2>1, <2>2 DEF Reads
    <2>4. ASSUME NEW s \in kept
          PROVE  /\ s \in Existing' /\ reader.status \in {NULL, subs'[s].status}
                 /\ subs'[s].name = subs[s].name
        BY <2>1, <2>2, <2>4 DEF Reads
    <2>5. Reads(reader)'
        BY <2>2, <2>3, <2>4 DEF Reads
    <2> QED
        BY <2>5 DEF PagesInv
<1> QED
    BY <1>1, <1>2

LEMMA CreatePages ==
    ASSUME PagesInv, NEW s \in Subs, NEW name \in Names, NEW enabled \in BOOLEAN,
           Create(s, name, enabled)
    PROVE  PagesInv'
<1>1. issued' \in Seq(Generated) /\ Len(issued') \in Nat /\ now' = now
    BY OneMore DEF PagesInv, RowsTyped, Create
<1>2. PICK row : row = NewRow(name, Status(enabled), Len(issued'))
    OBVIOUS
<1>3. row \in Row /\ row.name \in Nat
    <2>1. row \in Row
        BY <1>1, <1>2, NewRowType DEF Status, OrNull
    <2> QED
        BY <1>2, <2>1, NameOrder DEF NewRow
<1>4. subs' = [subs EXCEPT ![s] = row] /\ subs[s].status = "unborn" /\ Disturb
    BY <1>2 DEF Create
<1>5. RowsTyped'
    BY <1>1, <1>3, <1>4 DEF PagesInv, RowsTyped
<1>6. NamesOK'
    BY <1>3, <1>4 DEF PagesInv, RowsTyped, NamesOK, Existing
<1>7. \A t \in Existing : t \in Existing'
    BY <1>4 DEF PagesInv, RowsTyped, Existing
<1> QED
    BY <1>4, <1>5, <1>6, <1>7, DisturbPages

\* A PATCH of the name or of enabled.
LEMMA PatchPages ==
    ASSUME PagesInv, NEW s \in Existing, NEW row \in Row, row.name \in Nat,
           row.status \in {"active", "paused"},
           subs' = [subs EXCEPT ![s] = row], UNCHANGED <<now, issued>>, Disturb
    PROVE  PagesInv'
<1>1. s \in Subs
    BY DEF Existing
<1>2. RowsTyped'
    BY <1>1 DEF PagesInv, RowsTyped
<1>3. NamesOK'
    BY <1>1 DEF PagesInv, RowsTyped, NamesOK, Existing
<1>4. \A t \in Existing : t \in Existing'
    BY <1>1 DEF PagesInv, RowsTyped, Existing
<1> QED
    BY <1>2, <1>3, <1>4, DisturbPages

LEMMA RemovePages ==
    ASSUME PagesInv, NEW s \in Subs, Remove(s)
    PROVE  PagesInv'
<1>1. /\ subs' = [subs EXCEPT ![s] = NoRow("deleted")] /\ Disturb
      /\ UNCHANGED <<now, issued>> /\ s \in Existing
    BY DEF Remove
<1>2. /\ subs'[s].status = "deleted" /\ subs'[s].name = NULL
      /\ \A t \in Subs \ {s} : subs'[t] = subs[t]
    BY <1>1 DEF NoRow, NewRow, PagesInv, RowsTyped
<1>3. RowsTyped'
    BY <1>1, NoRowType DEF PagesInv, RowsTyped
<1>4. NamesOK'
    BY <1>2 DEF PagesInv, NamesOK, Existing
<1>5. ASSUME NEW t \in Existing, subs'[t].name = subs[t].name PROVE t \in Existing'
    <2>1. t \in Subs /\ subs[t].name \in Nat
        BY DEF PagesInv, NamesOK, Existing
    <2>2. t # s
        BY <1>2, <1>5, <2>1, NullIsNoNumber
    <2> QED
        BY <1>2, <2>1, <2>2 DEF Existing
<1> QED
    BY <1>1, <1>3, <1>4, <1>5, DisturbPages

\* A step that leaves the listed columns and the reader alone.
LEMMA KeptPages ==
    ASSUME PagesInv, RowsTyped', UNCHANGED reader,
           \A s \in Subs : /\ subs'[s].name = subs[s].name
                           /\ subs'[s].status = subs[s].status
    PROVE  PagesInv'
<1>1. Existing' = Existing
    BY DEF Existing
<1>2. NamesOK'
    BY <1>1 DEF PagesInv, NamesOK, Existing
<1>3. reader # NULL => Reads(reader)'
    BY <1>1 DEF PagesInv, Reads, Existing
<1> QED
    BY <1>2, <1>3 DEF PagesInv

LEMMA RotatePages ==
    ASSUME PagesInv, NEW s \in Subs, Rotate(s)
    PROVE  PagesInv'
<1>1. RowsTyped /\ s \in Existing /\ UNCHANGED reader
    BY DEF PagesInv, Rotate
<1>2. /\ RowsTyped' /\ subs'[s].name = subs[s].name
      /\ subs'[s].status = subs[s].status
      /\ \A t \in Subs \ {s} : subs'[t] = subs[t]
    BY <1>1, Rotated
<1> QED
    BY <1>1, <1>2, KeptPages

LEMMA OperatePages ==
    ASSUME PagesInv, Operate
    PROVE  PagesInv'
<1>1. ASSUME NEW s \in Subs, NEW name \in Names, Rename(s, name)
      PROVE  PagesInv'
    <2>1. PICK row : row = [subs[s] EXCEPT !.name = name]
        OBVIOUS
    <2>2. row \in Row /\ row.name = name /\ row.status = subs[s].status
        BY <2>1 DEF PagesInv, RowsTyped, Row, OrNull
    <2>3. s \in Existing /\ row.status \in {"active", "paused"}
        BY <1>1, <2>2 DEF Rename, Existing, Row
    <2>4. /\ subs' = [subs EXCEPT ![s] = row] /\ Disturb
          /\ UNCHANGED <<now, issued>>
        BY <1>1, <2>1 DEF Rename
    <2> QED
        BY <2>2, <2>3, <2>4, PatchPages, NameOrder
<1>2. ASSUME NEW s \in Subs, NEW enabled \in BOOLEAN, Enable(s, enabled)
      PROVE  PagesInv'
    <2>1. PICK row : row = [subs[s] EXCEPT !.status = Status(enabled)]
        OBVIOUS
    <2>2. s \in Existing /\ subs[s].name \in Nat
        BY <1>2 DEF Enable, PagesInv, NamesOK
    <2>3. row \in Row /\ row.name \in Nat /\ row.status \in {"active", "paused"}
        BY <2>1, <2>2 DEF PagesInv, RowsTyped, Row, Status
    <2>4. /\ subs' = [subs EXCEPT ![s] = row] /\ Disturb
          /\ UNCHANGED <<now, issued>>
        BY <1>2, <2>1 DEF Enable
    <2> QED
        BY <2>2, <2>3, <2>4, PatchPages
<1> QED
    BY <1>1, <1>2, CreatePages, RemovePages, RotatePages DEF Operate

LEMMA ReadPages ==
    ASSUME PagesInv, Read
    PROVE  PagesInv'
<1>1. UNCHANGED <<now, subs, issued>>
    BY DEF Read, FirstPage, NextPage, CloseReader
<1>2. RowsTyped' /\ NamesOK'
    BY <1>1 DEF PagesInv, RowsTyped, NamesOK, Existing
<1>3. ASSUME NEW status \in {NULL, "active"}, FirstPage(status)
      PROVE  Reads(reader)'
    <2>1. PICK steady, times : /\ steady = Listed(status, NULL)
                               /\ times = [s \in Subs |-> 0]
        OBVIOUS
    <2>2. steady \in SUBSET Subs /\ times \in [Subs -> Nat]
        BY <2>1 DEF Listed, Existing
    <2>3. \A s \in steady : s \in Existing /\ status \in {NULL, subs[s].status}
        BY <2>1 DEF Listed
    <2>4. \A s \in steady : times[s] = 0
        BY <2>1, <2>2
    <2>5. Page(status, NULL, steady, times)
        BY <1>3, <2>1 DEF FirstPage
    <2> QED
        BY <1>1, <2>2, <2>3, <2>4, <2>5, PageReads
<1>4. ASSUME NextPage
      PROVE  Reads(reader)'
    <2>1. PICK status, after, steady, times :
             /\ status = reader.status /\ after = reader.cursor
             /\ steady = reader.steady /\ times = reader.times
        OBVIOUS
    <2>2. Reads(reader) /\ after # NULL /\ Page(status, after, steady, times)
        BY <1>4, <2>1 DEF NextPage, PagesInv
    <2>3. /\ status \in {NULL, "active"} /\ steady \in SUBSET Subs
          /\ times \in [Subs -> Nat] /\ after \in Nat
        BY <2>1, <2>2 DEF Reads, OrNull
    <2>4. /\ \A s \in steady : s \in Existing /\ status \in {NULL, subs[s].status}
          /\ \A s \in steady :
                times[s] = IF after # NULL /\ subs[s].name <= after THEN 1 ELSE 0
        BY <2>1, <2>2 DEF Reads
    <2> QED
        BY <1>1, <2>2, <2>3, <2>4, PageReads
<1> QED
    BY <1>2, <1>3, <1>4 DEF Read, CloseReader, PagesInv

LEMMA StepPages == PagesInv /\ [Next]_vars => PagesInv'
<1> SUFFICES ASSUME PagesInv, [Next]_vars PROVE PagesInv'
    OBVIOUS
<1>1. ASSUME UNCHANGED <<subs, issued, reader>>, now' \in Nat
      PROVE  PagesInv'
    BY <1>1, KeptPages DEF PagesInv, RowsTyped
<1>2. CASE Deliver \/ UNCHANGED vars
    BY <1>1, <1>2 DEF Deliver, Send, Arrive, vars, PagesInv, RowsTyped
<1>3. CASE Tick
    BY <1>1, <1>3 DEF Tick, PagesInv, RowsTyped
<1> QED
    BY <1>2, <1>3, OperatePages, ReadPages DEF Next

-----------------------------------------------------------------------------
(***************************************************************************)
(* The theorems.                                                           *)
(***************************************************************************)
\* Of a subscription's secrets all but the newest have an end, and none but the
\* one the row keeps as the previous has it still to come: whatever is rotated, and
\* however often within one grace period.
THEOREM SecretInvariant == Spec => []SecretInv
BY InitSecrets, StepSecrets, PTL DEF Spec

\* A request carries a signature with every secret its receiver may verify with,
\* but those that had ended when it was signed and those that are younger than it:
\* with any number of rotations and requests under way, however long they take.
THEOREM RotationsAreAccepted == Spec => []SignaturesAccepted
<1>1. SecretInv => SignaturesAccepted
    BY DEF SecretInv, Accepted, SignaturesAccepted
<1> QED
    BY <1>1, SecretInvariant, PTL

\* GET /subscriptions: a client that follows the cursor sees each subscription
\* that stays exactly once, for every limit.
THEOREM PagesAreComplete == Spec => []PagesComplete
<1>1. Init => PagesInv
    <2> SUFFICES ASSUME Init PROVE PagesInv
        OBVIOUS
    <2>1. RowsTyped
        BY NoRowType DEF Init, RowsTyped
    <2>2. \A s \in Subs : s \notin Existing
        BY DEF Init, Existing, NoRow, NewRow
    <2> QED
        BY <2>1, <2>2 DEF Init, PagesInv, NamesOK, Existing
<1>2. PagesInv => PagesComplete
    BY DEF PagesInv, Reads, PagesComplete
<1> QED
    BY <1>1, <1>2, StepPages, PTL DEF Spec
=============================================================================
