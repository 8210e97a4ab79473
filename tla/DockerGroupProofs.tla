------------------------- MODULE DockerGroupProofs -------------------------
(***************************************************************************)
(* What DockerGroup keeps for every number of groups, administrators' acts *)
(* and kills.  The inductive invariant says where the helper's entry and   *)
(* the group it describes can stand to each other: an entry that claims    *)
(* the group was created names a group the helper made, IDs in use or on   *)
(* record were handed out, and a membership the user did not arrange, or   *)
(* arranged too late, is recorded as the helper's.                         *)
(***************************************************************************)
EXTENDS DockerGroup, TLAPS

\* IDs in the group, in the entry or read by the running handler were handed out.
HandedOut ==
  /\ group <= lastGid /\ rec.gid <= lastGid /\ cur.gid <= lastGid
  /\ pc = "savegid" => cur.gid # 0

\* A group an entry calls created, or that is about to be called so, is the helper's.
Made ==
  /\ rec.created /\ rec.gid # 0 /\ group = rec.gid => maker = "helper"
  /\ pc = "savegid" => rec.gid = 0 /\ (group = cur.gid => maker = "helper")
  /\ rec.known /\ rec.gid = 0 => rec.created
  /\ open /\ maker = "helper" /\ group # 0 => rec.created
       /\ (IF pc = "savegid" THEN group = cur.gid ELSE group = rec.gid)
  /\ pc = "dropgroup" => group \in {0, rec.gid} /\ rec.known

\* The entry and the membership.
Settled == (member => wanted) /\ (wanted => member \/ byhand)
Arranged ==
  /\ ~rec.known => rec = NoEntry /\ Settled
  /\ rec.known => open
  /\ rec.known /\ rec.beforeMember => Settled
  /\ rec.known /\ ~rec.beforeMember => (wanted => byhand)
  /\ pc = "record" => ~rec.known /\ (wanted => cur.member \/ byhand)
  /\ pc \in {"decide", "savegid", "member"} => rec.known
  /\ pc \in {"dropgroup", "unlink"} => Settled
  /\ pc # "idle" => open

IInv == TypeOK /\ HandedOut /\ Made /\ Arranged

LEMMA InitInv == Init => IInv
<1> SUFFICES ASSUME Init PROVE IInv
  OBVIOUS
<1>1. TypeOK
  <2>1. group \in Gids /\ lastGid \in Gids
    BY BoundAssumption DEF Init, Gids
  <2>2. member \in BOOLEAN /\ wanted \in BOOLEAN /\ others \in BOOLEAN
    BY DEF Init
  <2>3. rec \in Entry
    BY BoundAssumption DEF Init, NoEntry, Entry, Gids
  <2>4. cur \in Read
    BY <2>1, <2>2 DEF Init, Membership, Read
  <2> QED
    BY <2>1, <2>2, <2>3, <2>4 DEF Init, TypeOK
<1>2. HandedOut
  BY DEF Init, HandedOut, Membership, NoEntry
<1>3. Made
  BY DEF Init, Made, NoEntry
<1>4. Arranged
  BY DEF Init, Arranged, Settled, Settled, NoEntry
<1> QED
  BY <1>1, <1>2, <1>3, <1>4 DEF IInv

LEMMA Inductive == IInv /\ [Next]_vars => IInv'
<1> SUFFICES ASSUME IInv, [Next]_vars PROVE IInv'
  OBVIOUS
<1> USE BoundAssumption DEF IInv, vars, groupVars
<1>1. CASE OpenJournal
  <2>1. TypeOK'
    BY <1>1 DEF OpenJournal, TypeOK, Gids, Read, Entry
  <2>2. HandedOut'
    BY <1>1 DEF OpenJournal, HandedOut, TypeOK, Gids, Read, Entry
  <2>3. Made'
    BY <1>1 DEF NoEntry, OpenJournal, Made, HandedOut, Arranged, Settled, TypeOK, Gids, Read, Entry
  <2>4. Arranged'
    BY <1>1 DEF OpenJournal, Arranged, Settled, Made, TypeOK, NoEntry, Gids, Read, Entry
  <2> QED
    BY <2>1, <2>2, <2>3, <2>4
<1>2. CASE ReadMembership
  <2>1. TypeOK'
    BY <1>2 DEF ReadMembership, Membership, TypeOK, Gids, Read, Entry
  <2>2. HandedOut'
    BY <1>2 DEF ReadMembership, Membership, HandedOut, TypeOK, Gids, Read, Entry
  <2>3. Made'
    BY <1>2 DEF ReadMembership, Membership, Made, HandedOut, Arranged, Settled, TypeOK, Gids, Read, Entry
  <2>4. Arranged'
    BY <1>2 DEF ReadMembership, Membership, Arranged, Settled, Made, TypeOK, NoEntry, Gids, Read, Entry
  <2> QED
    BY <2>1, <2>2, <2>3, <2>4
<1>3. CASE Record
  <2>1. TypeOK'
    BY <1>3 DEF Record, TypeOK, Gids, Read, Entry
  <2>2. HandedOut'
    BY <1>3 DEF Record, HandedOut, TypeOK, Gids, Read, Entry
  <2>3. Made'
    <3>1. ~rec.created /\ open /\ pc' = "decide"
      BY <1>3 DEF Record, Arranged, Settled, NoEntry
    <3>2. ~(maker = "helper" /\ group # 0)
      BY <3>1 DEF Made
    <3>3. rec'.known /\ (rec'.created <=> rec'.gid = 0)
      BY <1>3 DEF Record
    <3>4. UNCHANGED <<group, maker, open>>
      BY <1>3 DEF Record
    <3> QED
      BY <3>1, <3>2, <3>3, <3>4 DEF Made
  <2>4. Arranged'
    BY <1>3 DEF Record, Arranged, Settled, Made, TypeOK, NoEntry, Gids, Read, Entry
  <2> QED
    BY <2>1, <2>2, <2>3, <2>4
<1>4. CASE IdentityChanged
  <2>1. TypeOK'
    BY <1>4 DEF IdentityChanged, TypeOK, Gids, Read, Entry
  <2>2. HandedOut'
    BY <1>4 DEF IdentityChanged, HandedOut, TypeOK, Gids, Read, Entry
  <2>3. Made'
    BY <1>4 DEF IdentityChanged, Made, HandedOut, Arranged, Settled, TypeOK, Gids, Read, Entry
  <2>4. Arranged'
    BY <1>4 DEF IdentityChanged, Arranged, Settled, Made, TypeOK, NoEntry, Gids, Read, Entry
  <2> QED
    BY <2>1, <2>2, <2>3, <2>4
<1>5. CASE Adopt
  <2>1. TypeOK'
    BY <1>5 DEF Adopt, TypeOK, Gids, Read, Entry
  <2>2. HandedOut'
    BY <1>5 DEF Adopt, HandedOut, TypeOK, Gids, Read, Entry
  <2>3. Made'
    BY <1>5 DEF Adopt, Made, HandedOut, Arranged, Settled, TypeOK, Gids, Read, Entry
  <2>4. Arranged'
    BY <1>5 DEF Adopt, Arranged, Settled, Made, TypeOK, NoEntry, Gids, Read, Entry
  <2> QED
    BY <2>1, <2>2, <2>3, <2>4
<1>6. CASE Recorded
  <2>1. TypeOK'
    BY <1>6 DEF Recorded, TypeOK, Gids, Read, Entry
  <2>2. HandedOut'
    BY <1>6 DEF Recorded, HandedOut, TypeOK, Gids, Read, Entry
  <2>3. Made'
    BY <1>6 DEF Recorded, Made, HandedOut, Arranged, Settled, TypeOK, Gids, Read, Entry
  <2>4. Arranged'
    BY <1>6 DEF Recorded, Arranged, Settled, Made, TypeOK, NoEntry, Gids, Read, Entry
  <2> QED
    BY <2>1, <2>2, <2>3, <2>4
<1>7. CASE GroupAdd
  <2>1. TypeOK'
    <3>1. lastGid' \in Gids /\ group' \in Gids /\ cur'.gid \in Gids
      BY <1>7 DEF GroupAdd, TypeOK, Gids, Read
    <3>2. cur' \in Read
      <4>1. CASE group = 0 /\ lastGid < MaxGid
        <5>1. cur' = [gid |-> lastGid + 1, member |-> FALSE]
          BY <1>7, <4>1 DEF GroupAdd
        <5>2. lastGid + 1 \in Gids
          BY <3>1, <5>1
        <5> QED
          BY <5>1, <5>2 DEF Read
      <4>2. CASE ~(group = 0 /\ lastGid < MaxGid)
        BY <1>7, <4>2 DEF GroupAdd, TypeOK
      <4> QED
        BY <4>1, <4>2
    <3>3. maker' \in {"user", "helper", "lost"} /\ pc' \in {"idle", "savegid"}
      BY <1>7 DEF GroupAdd, TypeOK
    <3> QED
      BY <1>7, <3>1, <3>2, <3>3 DEF GroupAdd, TypeOK
  <2>2. HandedOut'
    BY <1>7 DEF GroupAdd, HandedOut, TypeOK, Gids, Read, Entry
  <2>3. Made'
    BY <1>7 DEF GroupAdd, Made, HandedOut, Arranged, Settled, TypeOK, Gids, Read, Entry
  <2>4. Arranged'
    BY <1>7 DEF GroupAdd, Arranged, Settled, Made, TypeOK, NoEntry, Gids, Read, Entry
  <2> QED
    BY <2>1, <2>2, <2>3, <2>4
<1>8. CASE SaveGid
  <2>1. TypeOK'
    BY <1>8 DEF SaveGid, TypeOK, Gids, Read, Entry
  <2>2. HandedOut'
    BY <1>8 DEF SaveGid, HandedOut, TypeOK, Gids, Read, Entry
  <2>3. Made'
    BY <1>8 DEF SaveGid, Made, HandedOut, Arranged, Settled, TypeOK, Gids, Read, Entry
  <2>4. Arranged'
    BY <1>8 DEF SaveGid, Arranged, Settled, Made, TypeOK, NoEntry, Gids, Read, Entry
  <2> QED
    BY <2>1, <2>2, <2>3, <2>4
<1>9. CASE AddMember
  <2>1. TypeOK'
    BY <1>9 DEF AddMember, TypeOK, Gids, Read, Entry
  <2>2. HandedOut'
    BY <1>9 DEF AddMember, HandedOut, TypeOK, Gids, Read, Entry
  <2>3. Made'
    BY <1>9 DEF AddMember, Made, HandedOut, Arranged, Settled, TypeOK, Gids, Read, Entry
  <2>4. Arranged'
    <3>1. rec.known /\ open /\ pc' = "idle" /\ UNCHANGED <<rec, open>>
      BY <1>9 DEF AddMember, Arranged
    <3>2. rec.beforeMember => Settled'
      <4>1. rec.beforeMember => Settled
        BY <3>1 DEF Arranged
      <4>2. CASE ~cur.member /\ group # 0
        <5>1. member' = TRUE /\ wanted' = (wanted \/ rec.beforeMember)
          BY <1>9, <4>2 DEF AddMember
        <5> QED
          BY <5>1, Zenon DEF Settled
      <4>3. CASE ~(~cur.member /\ group # 0)
        BY <1>9, <4>1, <4>3 DEF AddMember, Settled
      <4> QED
        BY <4>2, <4>3
    <3>3. ~rec.beforeMember => (wanted' => byhand')
      <4>1. ~rec.beforeMember => (wanted => byhand)
        BY <3>1 DEF Arranged
      <4> QED
        BY <1>9, <4>1 DEF AddMember
    <3> QED
      BY <3>1, <3>2, <3>3 DEF Arranged
  <2> QED
    BY <2>1, <2>2, <2>3, <2>4
<1>10. CASE RestoreStart
  <2>1. TypeOK'
    BY <1>10 DEF RestoreStart, CheckDockerRestore, TypeOK, Gids, Read, Entry
  <2>2. HandedOut'
    BY <1>10 DEF RestoreStart, CheckDockerRestore, HandedOut, TypeOK, Gids, Read, Entry
  <2>3. Made'
    BY <1>10 DEF RestoreStart, CheckDockerRestore, Made, HandedOut, Arranged, Settled, TypeOK, Gids, Read, Entry
  <2>4. Arranged'
    BY <1>10 DEF RestoreStart, CheckDockerRestore, Arranged, Settled, Made, TypeOK, NoEntry, Gids, Read, Entry
  <2> QED
    BY <2>1, <2>2, <2>3, <2>4
<1>11. CASE RestoreRefused
  <2>1. TypeOK'
    BY <1>11 DEF RestoreRefused, CheckDockerRestore, TypeOK, Gids, Read, Entry
  <2>2. HandedOut'
    BY <1>11 DEF RestoreRefused, CheckDockerRestore, HandedOut, TypeOK, Gids, Read, Entry
  <2>3. Made'
    BY <1>11 DEF RestoreRefused, CheckDockerRestore, Made, HandedOut, Arranged, Settled, TypeOK, Gids, Read, Entry
  <2>4. Arranged'
    BY <1>11 DEF RestoreRefused, CheckDockerRestore, Arranged, Settled, Made, TypeOK, NoEntry, Gids, Read, Entry
  <2> QED
    BY <2>1, <2>2, <2>3, <2>4
<1>12. CASE LeaveGroup
  <2>1. TypeOK'
    BY <1>12 DEF LeaveGroup, CheckDockerRestore, TypeOK, Gids, Read, Entry
  <2>2. HandedOut'
    BY <1>12 DEF LeaveGroup, CheckDockerRestore, HandedOut, TypeOK, Gids, Read, Entry
  <2>3. Made'
    BY <1>12 DEF LeaveGroup, CheckDockerRestore, Made, HandedOut, Arranged, Settled, TypeOK, Gids, Read, Entry
  <2>4. Arranged'
    BY <1>12 DEF LeaveGroup, CheckDockerRestore, Arranged, Settled, Made, TypeOK, NoEntry, Gids, Read, Entry
  <2> QED
    BY <2>1, <2>2, <2>3, <2>4
<1>13. CASE DropGroup
  <2>1. TypeOK'
    BY <1>13 DEF DropGroup, TypeOK, Gids, Read, Entry
  <2>2. HandedOut'
    BY <1>13 DEF DropGroup, HandedOut, TypeOK, Gids, Read, Entry
  <2>3. Made'
    BY <1>13 DEF DropGroup, Made, HandedOut, Arranged, Settled, TypeOK, Gids, Read, Entry
  <2>4. Arranged'
    BY <1>13 DEF DropGroup, Arranged, Settled, Made, TypeOK, NoEntry, Gids, Read, Entry
  <2> QED
    BY <2>1, <2>2, <2>3, <2>4
<1>14. CASE RemoveJournal
  <2>1. TypeOK'
    <3>1. NoEntry \in Entry
      BY DEF NoEntry, Entry, Gids
    <3> QED
      BY <1>14, <3>1 DEF RemoveJournal, TypeOK
  <2>2. HandedOut'
    BY <1>14 DEF RemoveJournal, NoEntry, HandedOut, TypeOK, Gids, Read, Entry
  <2>3. Made'
    BY <1>14 DEF RemoveJournal, NoEntry, Made, HandedOut, Arranged, Settled, TypeOK, Gids, Read, Entry
  <2>4. Arranged'
    BY <1>14 DEF RemoveJournal, NoEntry, Arranged, Settled, Made, TypeOK, NoEntry, Gids, Read, Entry
  <2> QED
    BY <2>1, <2>2, <2>3, <2>4
<1>15. CASE Killed
  <2>1. TypeOK'
    BY <1>15 DEF Killed, TypeOK, Gids, Read, Entry
  <2>2. HandedOut'
    BY <1>15 DEF Killed, HandedOut, TypeOK, Gids, Read, Entry
  <2>3. Made'
    BY <1>15 DEF Killed, Made, HandedOut, Arranged, Settled, TypeOK, Gids, Read, Entry
  <2>4. Arranged'
    BY <1>15 DEF Killed, Arranged, Settled, Made, TypeOK, NoEntry, Gids, Read, Entry
  <2> QED
    BY <2>1, <2>2, <2>3, <2>4
<1>16. CASE AdminMakesGroup
  <2>1. TypeOK'
    BY <1>16 DEF AdminMakesGroup, Administer, TypeOK, Gids, Read, Entry
  <2>2. HandedOut'
    BY <1>16 DEF AdminMakesGroup, Administer, HandedOut, TypeOK, Gids, Read, Entry
  <2>3. Made'
    BY <1>16 DEF AdminMakesGroup, Administer, Made, HandedOut, Arranged, Settled, TypeOK, Gids, Read, Entry
  <2>4. Arranged'
    BY <1>16 DEF AdminMakesGroup, Administer, Arranged, Settled, Made, TypeOK, NoEntry, Gids, Read, Entry
  <2> QED
    BY <2>1, <2>2, <2>3, <2>4
<1>17. CASE AdminRemovesGroup
  <2>1. TypeOK'
    <3>1. 0 \in Gids
      BY DEF Gids
    <3>2. admins' \in Nat /\ UNCHANGED <<open, rec, pc, cur, kills>>
      BY <1>17 DEF AdminRemovesGroup, Administer, TypeOK
    <3> QED
      BY <1>17, <3>1, <3>2 DEF AdminRemovesGroup, TypeOK
  <2>2. HandedOut'
    BY <1>17 DEF AdminRemovesGroup, Administer, HandedOut, TypeOK, Gids, Read, Entry
  <2>3. Made'
    BY <1>17 DEF AdminRemovesGroup, Administer, Made, HandedOut, Arranged, Settled, TypeOK, Gids, Read, Entry
  <2>4. Arranged'
    BY <1>17 DEF AdminRemovesGroup, Administer, Arranged, Settled, Made, TypeOK, NoEntry, Gids, Read, Entry
  <2> QED
    BY <2>1, <2>2, <2>3, <2>4
<1>18. CASE AdminMovesUser
  <2>1. TypeOK'
    BY <1>18 DEF AdminMovesUser, Administer, TypeOK, Gids, Read, Entry
  <2>2. HandedOut'
    BY <1>18 DEF AdminMovesUser, Administer, HandedOut, TypeOK, Gids, Read, Entry
  <2>3. Made'
    BY <1>18 DEF AdminMovesUser, Administer, Made, HandedOut, Arranged, Settled, TypeOK, Gids, Read, Entry
  <2>4. Arranged'
    <3>1. UNCHANGED <<open, rec, pc, cur>> /\ Settled'
      BY <1>18 DEF AdminMovesUser, Administer, Settled
    <3>2. rec.known /\ ~rec.beforeMember => (wanted' => byhand')
      BY <1>18 DEF AdminMovesUser, FoundNoMember
    <3>3. pc = "record" => (wanted' => cur.member \/ byhand')
      BY <1>18 DEF AdminMovesUser, FoundNoMember, Arranged
    <3> QED
      BY <3>1, <3>2, <3>3 DEF Arranged
  <2> QED
    BY <2>1, <2>2, <2>3, <2>4
<1>19. CASE AdminMovesOthers
  <2>1. TypeOK'
    BY <1>19 DEF AdminMovesOthers, Administer, TypeOK, Gids, Read, Entry
  <2>2. HandedOut'
    BY <1>19 DEF AdminMovesOthers, Administer, HandedOut, TypeOK, Gids, Read, Entry
  <2>3. Made'
    BY <1>19 DEF AdminMovesOthers, Administer, Made, HandedOut, Arranged, Settled, TypeOK, Gids, Read, Entry
  <2>4. Arranged'
    BY <1>19 DEF AdminMovesOthers, Administer, Arranged, Settled, Made, TypeOK, NoEntry, Gids, Read, Entry
  <2> QED
    BY <2>1, <2>2, <2>3, <2>4
<1>20. CASE UNCHANGED vars
  <2>1. TypeOK'
    BY <1>20 DEF TypeOK, Gids, Read, Entry
  <2>2. HandedOut'
    BY <1>20 DEF HandedOut, TypeOK, Gids, Read, Entry
  <2>3. Made'
    BY <1>20 DEF Made, HandedOut, Arranged, Settled, TypeOK, Gids, Read, Entry
  <2>4. Arranged'
    BY <1>20 DEF Arranged, Settled, Made, TypeOK, NoEntry, Gids, Read, Entry
  <2> QED
    BY <2>1, <2>2, <2>3, <2>4
<1>21. CASE EnsureStart
  <2>1. TypeOK'
    BY <1>21 DEF EnsureStart, TypeOK
  <2>2. HandedOut'
    BY <1>21 DEF EnsureStart, HandedOut
  <2>3. Made'
    BY <1>21 DEF EnsureStart, Made
  <2>4. Arranged'
    BY <1>21 DEF EnsureStart, Arranged, Settled
  <2> QED
    BY <2>1, <2>2, <2>3, <2>4
<1> QED
  BY <1>1, <1>2, <1>3, <1>4, <1>5, <1>6, <1>7, <1>8, <1>9, <1>10, <1>11, <1>12, <1>13, <1>14, <1>15, <1>16, <1>17, <1>18, <1>19, <1>20, <1>21 DEF Next

\* Every variable keeps its type.
THEOREM TypeCorrect == Spec => []TypeOK
<1>1. IInv => TypeOK
  BY DEF IInv
<1> QED
  BY <1>1, InitInv, Inductive, PTL DEF Spec

\* After restore a user is a member only if they arranged it, and is one if they arranged
\* it before setup looked: MembershipBack is what Arranged says while there is no entry.
THEOREM MembershipSafe == Spec => []MembershipBack
<1>1. IInv => MembershipBack
  BY DEF IInv, Arranged, Settled, MembershipBack
<1> QED
  BY <1>1, InitInv, Inductive, PTL DEF Spec

\* groupdel is only ever run on a group the helper made and nobody uses.
THEOREM OwnGroupOnly == Spec => OnlyOwnGroupDeleted
<1> DEFINE Guarded ==
      pc = "dropgroup" /\ group # 0 /\ group' = 0 /\ admins' = admins
        => maker = "helper" /\ ~others /\ ~member
<1>1. IInv /\ [Next]_vars => [Guarded]_vars
  <2> SUFFICES ASSUME IInv, Next, pc = "dropgroup", group # 0, group' = 0, admins' = admins
               PROVE  maker = "helper" /\ ~others /\ ~member
    BY DEF Guarded
  <2>1. ~AdminRemovesGroup
    BY DEF AdminRemovesGroup, Administer, IInv, TypeOK
  <2>2. DropGroup
    BY <2>1 DEF Next, groupVars, OpenJournal, EnsureStart, ReadMembership, Record, IdentityChanged, Adopt, Recorded,
         GroupAdd, SaveGid, AddMember, RestoreStart, RestoreRefused, LeaveGroup, RemoveJournal, Killed,
         AdminMakesGroup, AdminMovesUser, AdminMovesOthers
  <2>3. rec.created /\ ~others /\ ~member
    BY <2>2 DEF DropGroup
  <2>4. rec.gid # 0 /\ group = rec.gid
    BY DEF IInv, Made
  <2> QED
    BY <2>3, <2>4 DEF IInv, Made
<1> QED
  BY <1>1, InitInv, Inductive, PTL DEF Spec, OnlyOwnGroupDeleted

\* Restore passes by no group of this setup that nobody uses: the last part of Made.
THEOREM GroupGiven == Spec => GroupBack
<1> DEFINE Given ==
      pc = "dropgroup" /\ pc' = "unlink" /\ maker = "helper" => group' = 0 \/ others \/ member
<1>1. IInv /\ [Next]_vars => [Given]_vars
  <2> SUFFICES ASSUME IInv, Next, pc = "dropgroup", pc' = "unlink", maker = "helper"
               PROVE  group' = 0 \/ others \/ member
    BY DEF Given
  <2>1. DropGroup
    BY DEF Next, groupVars, OpenJournal, EnsureStart, ReadMembership, Record, IdentityChanged, Adopt, Recorded,
       GroupAdd, SaveGid, AddMember, RestoreStart, RestoreRefused, LeaveGroup, RemoveJournal, Killed,
       Administer, AdminMakesGroup, AdminRemovesGroup, AdminMovesUser, AdminMovesOthers
  <2>2. open
    BY DEF IInv, Arranged
  <2>3. group # 0 => rec.created
    BY <2>2 DEF IInv, Made
  <2> QED
    BY <2>1, <2>3 DEF DropGroup
<1> QED
  BY <1>1, InitInv, Inductive, PTL DEF Spec, GroupBack
=============================================================================
