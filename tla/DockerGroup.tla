---------------------------- MODULE DockerGroup ----------------------------
(***************************************************************************)
(* The docker group on one node under the cluster helper's journal:        *)
(* ensure_docker, which creates the group and adds the login user,         *)
(* restore_docker, which takes both back, handlers killed between any two  *)
(* steps, and an administrator who works on the group meanwhile.           *)
(***************************************************************************)
EXTENDS Integers

CONSTANTS
  MaxGid,    \* bound on group IDs, which are never used twice
  MaxAdmin,  \* bound on what the administrator does
  MaxKills   \* bound on handlers killed half way

ASSUME BoundAssumption == MaxGid \in Nat \ {0} /\ MaxAdmin \in Nat /\ MaxKills \in Nat

VARIABLES
  group,     \* the docker group's ID, 0 if there is no such group
  maker,     \* who made it: the user, before this journal or by hand, the helper, or the
             \* helper in a handler killed before it said so (history)
  member,    \* the login user is a member
  wanted,    \* ... as the user or the administrator last arranged it (history)
  byhand,    \* they added the user after setup had found no membership (history)
  others,    \* somebody else uses the group
  replaced,  \* the administrator made or removed the group since setup (history)
  open,      \* journal.json exists
  rec,       \* its "docker" entry
  pc,        \* where the handler that holds the node's lock is
  cur,       \* what ensure_docker read when it started
  lastGid, admins, kills   \* IDs handed out, and what the bounds count

groupVars == <<group, maker, member, wanted, byhand, others, replaced, lastGid>>
vars == <<groupVars, open, rec, pc, cur, admins, kills>>

NoEntry == [known |-> FALSE, beforeMember |-> FALSE, gid |-> 0, created |-> FALSE]
Membership == [gid |-> group, member |-> member]

Init ==
  /\ group \in {0, 1}
  /\ maker = "user"
  /\ member \in BOOLEAN /\ (member => group # 0)
  /\ wanted = member /\ byhand = FALSE
  /\ others \in BOOLEAN /\ (others => group # 0)
  /\ replaced = FALSE
  /\ open = FALSE
  /\ rec = NoEntry
  /\ pc = "idle"
  /\ cur = Membership
  /\ lastGid = 1
  /\ admins = 0 /\ kills = 0

OpenJournal ==
  /\ ~open
  /\ open' = TRUE
  /\ maker' = "user" /\ replaced' = FALSE
  /\ wanted' = member /\ byhand' = FALSE
  /\ UNCHANGED <<group, member, others, lastGid, rec, pc, cur, admins, kills>>

-----------------------------------------------------------------------------
(***************************************************************************)
(* ensure_docker, which works from what it reads first.                    *)
(***************************************************************************)
\* Faulty variant: any docker group will do.
CheckAnyGroup == rec.known => group = 0 \/ rec.gid # 0

CheckDockerRestore == rec.known => group \in {0, rec.gid}

\* setup's call; or doctor's repair of a missing membership, the group checked before.
EnsureStart ==
  /\ open /\ pc = "idle"
  /\ rec.known => CheckDockerRestore /\ ~member
  /\ pc' = "ensure"
  /\ UNCHANGED <<groupVars, open, rec, cur, admins, kills>>

ReadMembership ==
  /\ pc = "ensure"
  /\ cur' = Membership
  /\ pc' = IF rec.known THEN "decide" ELSE "record"
  /\ UNCHANGED <<groupVars, open, rec, admins, kills>>

\* Intent is saved before the group or the membership is touched.
Record ==
  /\ pc = "record"
  /\ rec' = [known |-> TRUE, beforeMember |-> cur.member, gid |-> cur.gid, created |-> cur.gid = 0]
  /\ pc' = "decide"
  /\ UNCHANGED <<groupVars, open, cur, admins, kills>>

\* Another group than the recorded one, or the recorded one gone: an error.
IdentityChanged ==
  /\ pc = "decide"
  /\ rec.gid # 0 /\ cur.gid # rec.gid
  /\ pc' = "idle"
  /\ UNCHANGED <<groupVars, open, rec, cur, admins, kills>>

\* Faulty variant: a group of unknown origin counts as created by the helper.
AdoptAsCreated ==
  /\ pc = "decide"
  /\ rec.gid = 0 /\ cur.gid # 0
  /\ rec' = [rec EXCEPT !.gid = cur.gid]
  /\ pc' = "member"
  /\ UNCHANGED <<groupVars, open, cur, admins, kills>>

\* A group of unknown origin: never to be deleted.
Adopt ==
  /\ pc = "decide"
  /\ rec.gid = 0 /\ cur.gid # 0
  /\ rec' = [rec EXCEPT !.gid = cur.gid, !.created = FALSE]
  /\ pc' = "member"
  /\ UNCHANGED <<groupVars, open, cur, admins, kills>>

Recorded ==
  /\ pc = "decide"
  /\ rec.gid # 0 /\ cur.gid = rec.gid
  /\ pc' = "member"
  /\ UNCHANGED <<groupVars, open, rec, cur, admins, kills>>

\* groupadd fails if somebody made the group since, or no ID is left.
GroupAdd ==
  /\ pc = "decide"
  /\ rec.gid = 0 /\ cur.gid = 0
  /\ IF group = 0 /\ lastGid < MaxGid
     THEN /\ lastGid' = lastGid + 1
          /\ group' = lastGid + 1
          /\ maker' = "helper"
          /\ cur' = [gid |-> lastGid + 1, member |-> FALSE]
          /\ pc' = "savegid"
     ELSE /\ pc' = "idle"
          /\ UNCHANGED <<group, maker, lastGid, cur>>
  /\ UNCHANGED <<member, wanted, byhand, others, replaced, open, rec, admins, kills>>

SaveGid ==
  /\ pc = "savegid"
  /\ rec' = [rec EXCEPT !.gid = cur.gid]
  /\ pc' = "member"
  /\ UNCHANGED <<groupVars, open, cur, admins, kills>>

\* usermod fails without the group.  A user who was a member before is one again
\* because the operator asked for it.
AddMember ==
  /\ pc = "member"
  /\ IF ~cur.member /\ group # 0
     THEN /\ member' = TRUE
          /\ wanted' = (wanted \/ rec.beforeMember)
     ELSE UNCHANGED <<member, wanted>>
  /\ pc' = "idle"
  /\ UNCHANGED <<group, maker, byhand, others, replaced, lastGid, open, rec, cur, admins, kills>>

-----------------------------------------------------------------------------
(***************************************************************************)
(* restore: the group is checked with the files, and again when its turn   *)
(* comes after them.                                                       *)
(***************************************************************************)
RestoreStart ==
  /\ open /\ pc = "idle"
  /\ CheckDockerRestore
  /\ pc' = "undo"
  /\ UNCHANGED <<groupVars, open, rec, cur, admins, kills>>

RestoreRefused ==
  /\ pc = "undo" /\ ~CheckDockerRestore
  /\ pc' = "idle"
  /\ UNCHANGED <<groupVars, open, rec, cur, admins, kills>>

\* Faulty variant: the user is taken out whoever put them in.
LeaveGroupAlways ==
  /\ pc = "undo" /\ CheckDockerRestore
  /\ member' = FALSE
  /\ pc' = IF rec.known /\ group # 0 THEN "dropgroup" ELSE "unlink"
  /\ UNCHANGED <<group, maker, wanted, byhand, others, replaced, lastGid, open, rec, cur, admins, kills>>

LeaveGroup ==
  /\ pc = "undo" /\ CheckDockerRestore
  /\ member' = (member /\ (rec.known => rec.beforeMember))
  /\ pc' = IF rec.known /\ group # 0 THEN "dropgroup" ELSE "unlink"
  /\ UNCHANGED <<group, maker, wanted, byhand, others, replaced, lastGid, open, rec, cur, admins, kills>>

\* Faulty variant: a group is never deleted.
DropGroupNever ==
  /\ pc = "dropgroup"
  /\ pc' = "unlink"
  /\ UNCHANGED <<groupVars, open, rec, cur, admins, kills>>

\* A created group goes if nobody uses it; getgrnam fails if it is gone already.
DropGroup ==
  /\ pc = "dropgroup"
  /\ pc' = IF rec.created /\ group = 0 THEN "idle" ELSE "unlink"
  /\ group' = IF rec.created /\ ~others /\ ~member THEN 0 ELSE group
  /\ UNCHANGED <<maker, member, wanted, byhand, others, replaced, lastGid, open, rec, cur, admins, kills>>

RemoveJournal ==
  /\ pc = "unlink"
  /\ open' = FALSE
  /\ rec' = NoEntry
  /\ pc' = "idle"
  /\ UNCHANGED <<groupVars, cur, admins, kills>>

-----------------------------------------------------------------------------
(***************************************************************************)
(* The world around.                                                       *)
(***************************************************************************)
Killed ==
  /\ pc # "idle"
  /\ kills < MaxKills /\ kills' = kills + 1
  /\ pc' = "idle"
  /\ maker' = IF pc = "savegid" /\ group = cur.gid THEN "lost" ELSE maker
  /\ UNCHANGED <<group, member, wanted, byhand, others, replaced, lastGid, open, rec, cur, admins>>

Administer ==
  /\ admins < MaxAdmin /\ admins' = admins + 1
  /\ UNCHANGED <<open, rec, pc, cur, kills>>

\* Nobody remakes the group in the moment between restore's last look and groupdel.
AdminMakesGroup ==
  /\ Administer
  /\ pc # "dropgroup"
  /\ group = 0 /\ lastGid < MaxGid
  /\ lastGid' = lastGid + 1
  /\ group' = lastGid + 1
  /\ maker' = "user"
  /\ replaced' = TRUE
  /\ UNCHANGED <<member, wanted, byhand, others>>

AdminRemovesGroup ==
  /\ Administer
  /\ group # 0
  /\ group' = 0 /\ member' = FALSE /\ wanted' = FALSE /\ byhand' = FALSE /\ others' = FALSE
  /\ replaced' = TRUE
  /\ UNCHANGED <<maker, lastGid>>

\* Setup knows of a membership only what ensure_docker read and recorded first.
FoundNoMember == IF rec.known THEN ~rec.beforeMember ELSE pc = "record" /\ ~cur.member

AdminMovesUser ==
  /\ Administer
  /\ group # 0
  /\ member' = ~member /\ wanted' = ~member
  /\ byhand' = (~member /\ FoundNoMember)
  /\ UNCHANGED <<group, maker, others, replaced, lastGid>>

AdminMovesOthers ==
  /\ Administer
  /\ group # 0
  /\ others' = ~others
  /\ UNCHANGED <<group, maker, member, wanted, byhand, replaced, lastGid>>

Next ==
  \/ OpenJournal
  \/ EnsureStart \/ ReadMembership \/ Record \/ IdentityChanged \/ Adopt \/ Recorded \/ GroupAdd \/ SaveGid \/ AddMember
  \/ RestoreStart \/ RestoreRefused \/ LeaveGroup \/ DropGroup \/ RemoveJournal
  \/ Killed
  \/ AdminMakesGroup \/ AdminRemovesGroup \/ AdminMovesUser \/ AdminMovesOthers

Spec == Init /\ [][Next]_vars

-----------------------------------------------------------------------------
(***************************************************************************)
(* Properties.                                                             *)
(***************************************************************************)
Gids == 0..MaxGid
Read == [gid : Gids, member : BOOLEAN]
Entry == [known : BOOLEAN, beforeMember : BOOLEAN, gid : Gids, created : BOOLEAN]

\* Every variable has its type.
TypeOK ==
  /\ group \in Gids
  /\ maker \in {"user", "helper", "lost"}
  /\ member \in BOOLEAN /\ wanted \in BOOLEAN /\ byhand \in BOOLEAN /\ others \in BOOLEAN /\ replaced \in BOOLEAN
  /\ open \in BOOLEAN
  /\ rec \in Entry
  /\ pc \in {"idle", "ensure", "record", "decide", "savegid", "member", "undo", "dropgroup", "unlink"}
  /\ cur \in Read
  /\ lastGid \in Gids /\ admins \in Nat /\ kills \in Nat

\* Restore deletes only a group this setup is known to have made, and only when nobody
\* uses it, whatever handlers were killed and whoever replaced the group meanwhile.
OnlyOwnGroupDeleted ==
  [][pc = "dropgroup" /\ group # 0 /\ group' = 0 /\ admins' = admins
       => maker = "helper" /\ ~others /\ ~member]_vars

\* With the journal gone the user is a member if they, not the helper, arranged to be, and
\* only then.  The one membership they may miss is one they got by hand after setup had
\* found none: restore_docker goes by that, and takes it for the helper's.
MembershipBack == ~open => (member => wanted) /\ (wanted => member \/ byhand)

\* Restore never passes by a group this setup made, unless somebody uses it or a kill
\* came between groupadd and saving its ID: the journal remembers what it made.
GroupBack ==
  [][pc = "dropgroup" /\ pc' = "unlink" /\ maker = "helper"
       => group' = 0 \/ others \/ member]_vars

\* As long as the administrator leaves the group itself alone, restore does not
\* refuse because of it.
RestoreNotRefused == open /\ pc = "idle" /\ ~replaced => CheckDockerRestore
=============================================================================
