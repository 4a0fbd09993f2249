-------------------------- MODULE Administration --------------------------
(***************************************************************************)
(* The console of the administrators (admin/admin.service.ts,              *)
(* admin/admin-permissions.ts): who may do what, the profiles of the       *)
(* administrators, the audit log, and the two kinds of operation it        *)
(* records: those done first and recorded after, and the look at a user's  *)
(* own words, recorded before it is answered.                              *)
(*                                                                         *)
(* An operation checks its permission, reads, checks, writes and records   *)
(* in statements of their own; other operations run in between, a process  *)
(* may die there, and an administrator may delete the account.             *)
(*                                                                         *)
(* Composed with the reward board: the membership an administrator sets    *)
(* moves the quota of its cards.                                           *)
(***************************************************************************)
EXTENDS Rewards, Sequences

CONSTANTS
  Users, Desks,   \* Desks: operations under way
  Founders        \* the profiles at the start: [Users -> Profile]

SUPER == "SUPER_ADMIN"
ADMIN_ROLES == {"OPERATOR", "SYSTEM_ADMIN", SUPER}
Works == {"config", "cleanup", "reconcile", "scheduler", "retry", "refund"}
Kinds == {"profile", "raw", "membership"} \cup Works
Member == "member"   \* the user of the reward board

VARIABLES
  profile,  \* [Users -> [role, status]]: admin_users
  left,     \* users who deleted their account
  log,      \* audit_logs: [actor, action, target, from, to]; NoRow for one that is deleted
  book,     \* membership_audits: [from, to]
  effects,  \* [Works -> Nat]: what was done in other components
  desk,     \* [Desks -> Operation]
  views,    \* history: [actor, target] of the raw contents that were shown
  torn,     \* history: targets whose records cannot tell the whole story (see Tears)
  loose,    \* history: two changes of profiles overlapped, or a super administrator has left
  done      \* operations begun

adminVars == <<profile, left, log, book, effects, desk, views, torn, loose, done>>
-----------------------------------------------------------------------------
NoProfile == [role |-> "none", status |-> "none"]
Profiles == [role : ADMIN_ROLES, status : {"ACTIVE", "DISABLED"}]

Operators == {"membership", "scheduler", "retry"}
SystemAdmins == Operators \cup {"config", "cleanup", "reconcile"}
getAdminPermissions(role) ==
  CASE role = "OPERATOR" -> Operators
    [] role = "SYSTEM_ADMIN" -> SystemAdmins
    [] role = SUPER -> SystemAdmins \cup {"raw", "refund", "profile"}
    [] OTHER -> {}
hasAdminPermission(p, kind) == p.status = "ACTIVE" /\ kind \in getAdminPermissions(p.role)
IsSuper(p) == p = [role |-> SUPER, status |-> "ACTIVE"]

\* What an operation is about and what it is to become; from is what it found.
Operation(kind, actor, target, to) ==
  [kind |-> kind, at |-> "asked", actor |-> actor, target |-> target, to |-> to, from |-> to]
NoOperation == [Operation("none", "none", "none", NoProfile) EXCEPT !.at = "idle"]
NoRow == [actor |-> "none", action |-> "none", target |-> "none", from |-> NoProfile, to |-> NoProfile]
Row(o) == [actor |-> o.actor, action |-> o.kind, target |-> o.target, from |-> o.from, to |-> o.to]

Sets(k, o) == desk' = [desk EXCEPT ![k] = o]
Reaches(k, at) == Sets(k, [desk[k] EXCEPT !.at = at])
Closes(k) == Sets(k, NoOperation)
Keeps == UNCHANGED <<left, views, torn, loose, done>> /\ UNCHANGED <<store, stone, key, run, crossed, scripted, asked, scene>>
\* A step that neither fails nor touches the member's plan or the profiles.
Quiet == Keeps /\ UNCHANGED <<profile, effects, plan, entitled, faults>>
-----------------------------------------------------------------------------
assertAdminPermission(k) ==
  /\ desk[k].at = "asked"
  /\ Reaches(k, IF hasAdminPermission(profile[desk[k].actor], desk[k].kind) THEN "allowed" ELSE "denied")
  /\ Quiet /\ UNCHANGED <<log, book>>

\* The refusal is recorded; a record that cannot be written changes nothing for the caller.
createPermissionDeniedAudit(k) ==
  /\ desk[k].at = "denied"
  /\ log' = IF desk[k].actor \in left THEN log
            ELSE Append(log, [Row(desk[k]) EXCEPT !.action = "denied"])
  /\ Closes(k)
  /\ Quiet /\ UNCHANGED book

Previous(o) ==
  CASE o.kind = "profile" -> profile[o.target]
    [] o.kind = "membership" -> plan
    [] OTHER -> o.to

\* What the operation finds before it begins: the profile, the membership, the user.
ReadPrevious(k) ==
  /\ desk[k].at = "allowed" /\ desk[k].kind \notin Works
  /\ LET o == desk[k]
     IN IF o.target \in left THEN Closes(k)
        ELSE Sets(k, [o EXCEPT !.at = IF o.kind = "raw" THEN "wrote" ELSE "read",
                               !.from = Previous(o)])
  /\ Quiet /\ UNCHANGED <<log, book>>

\* The last super administrator that is active stays so: the profile is read once more, then the
\* others are counted.
NeedsAnother(o) == IsSuper(profile[o.target]) /\ ~IsSuper(o.to)
assertCanChangeActiveSuperAdmin(k) ==
  /\ desk[k].kind = "profile" /\ desk[k].at = "read"
  /\ Reaches(k, IF NeedsAnother(desk[k]) THEN "counting" ELSE "cleared")
  /\ Quiet /\ UNCHANGED <<log, book>>

\* Mutant of OtherSupers: the target is counted too.
AllSupers(target) == {u \in Users : IsSuper(profile[u])}

OtherSupers(target) == {u \in Users \ {target} : IsSuper(profile[u])}

CountSuperAdmins(k) ==
  /\ desk[k].at = "counting"
  /\ IF OtherSupers(desk[k].target) = {} THEN Closes(k) ELSE Reaches(k, "cleared")
  /\ Quiet /\ UNCHANGED <<log, book>>

updateAdminProfile(k) ==
  /\ desk[k].kind = "profile" /\ desk[k].at = "cleared"
  /\ LET o == desk[k]
     IN IF o.target \in left THEN Closes(k) /\ UNCHANGED profile
        ELSE profile' = [profile EXCEPT ![o.target] = o.to] /\ Reaches(k, "wrote")
  /\ Keeps /\ UNCHANGED <<effects, plan, entitled, faults, log, book>>

\* The membership is written, and the entitlements that go with it after that.
updateMembership(k) ==
  /\ desk[k].kind = "membership" /\ desk[k].at = "read"
  /\ plan' = desk[k].to
  /\ Reaches(k, "granting")
  /\ Keeps /\ UNCHANGED <<profile, effects, entitled, faults, log, book>>
GrantEntitlements(k) ==
  /\ desk[k].kind = "membership" /\ desk[k].at = "granting"
  /\ entitled' = (desk[k].to = "PRO")
  /\ Reaches(k, "wrote")
  /\ Keeps /\ UNCHANGED <<profile, effects, plan, faults, log, book>>

\* Work on other components: done, then recorded; with nothing to retry or to refund it is refused.
Performs(k, kind) ==
  /\ desk[k].kind = kind /\ desk[k].at = "allowed"
  /\ effects' = [effects EXCEPT ![kind] = @ + 1]
  /\ Reaches(k, "wrote")
  /\ Keeps /\ UNCHANGED <<profile, plan, entitled, faults, log, book>>
Refuses(k, kind) ==
  /\ desk[k].kind = kind /\ desk[k].at = "allowed"
  /\ Closes(k)
  /\ Quiet /\ UNCHANGED <<log, book>>
upsertSystemConfig(k) == Performs(k, "config")
cleanupUploads(k) == Performs(k, "cleanup")
reconcileQueues(k) == Performs(k, "reconcile")
runNotificationScheduler(k) == Performs(k, "scheduler")
retryEmailLog(k) == Performs(k, "retry") \/ Refuses(k, "retry")
refundPaymentOrder(k) == Performs(k, "refund") \/ Refuses(k, "refund")

\* Mutant of Recorded: the record forgets what was before.
RecordedAfter(o) == [Row(o) EXCEPT !.from = o.to]

Recorded(o) == Row(o)

\* The record names an actor that must exist; without it the operation fails, its effect stays.
createAuditLog(k) ==
  /\ desk[k].at = "wrote"
  /\ LET o == desk[k]
     IN IF o.actor \in left THEN Closes(k) /\ UNCHANGED log
        ELSE /\ log' = Append(log, Recorded(o))
             /\ IF o.kind \in {"raw", "membership"} THEN Reaches(k, "recorded") ELSE Closes(k)
  /\ Quiet /\ UNCHANGED book

\* A membership has a book of its own, from what it was to what it is.
RecordMembership(k) ==
  /\ desk[k].kind = "membership" /\ desk[k].at = "recorded"
  /\ book' = IF desk[k].actor \in left THEN book ELSE Append(book, [from |-> desk[k].from, to |-> desk[k].to])
  /\ Closes(k)
  /\ Quiet /\ UNCHANGED log

\* The user's words are shown once the record is there.
getRawUserContent(k) ==
  /\ desk[k].kind = "raw" /\ desk[k].at = "recorded"
  /\ views' = views \cup {[actor |-> desk[k].actor, target |-> desk[k].target]}
  /\ Closes(k)
  /\ UNCHANGED <<left, torn, loose, done, store, stone, key, run, crossed, scripted, asked, scene>>
  /\ UNCHANGED <<profile, effects, plan, entitled, faults, log, book>>
-----------------------------------------------------------------------------
\* Operations on one thing at once tear its records, and so does one that ends without its record.
Busy(target, kind) == \E k \in Desks : desk[k].target = target /\ desk[k].kind = kind
BeginsOver(o) ==
  /\ torn' = IF o.kind \notin Works /\ Busy(o.target, o.kind) THEN torn \cup {o.target} ELSE torn
  /\ loose' = (loose \/ (o.kind = "profile" /\ \E k \in Desks : desk[k].kind = "profile"))

Begin(k, o) ==
  /\ done < scene.ops /\ desk[k] = NoOperation /\ o.actor \notin left
  /\ Sets(k, o)
  /\ done' = done + 1
  /\ BeginsOver(o)
  /\ UNCHANGED <<profile, left, log, book, effects, views>> /\ UNCHANGED rewardVars

\* DELETE /auth/me: the profile and the log's rows of this actor go with the account; nobody asks
\* whether another super administrator is there.
deleteCurrentUser(u) ==
  /\ done < scene.ops /\ "leave" \in scene.kinds /\ u \notin left
  /\ left' = left \cup {u}
  /\ profile' = [profile EXCEPT ![u] = NoProfile]
  /\ log' = [i \in DOMAIN log |-> IF log[i].actor = u THEN NoRow ELSE log[i]]
  /\ torn' = torn \cup {u} \cup {log[i].target : i \in {i \in DOMAIN log : log[i].actor = u}}
                  \cup {desk[k].target : k \in {k \in Desks : desk[k].actor = u}}
  /\ loose' = (loose \/ IsSuper(profile[u]))
  /\ done' = done + 1
  /\ UNCHANGED <<book, effects, desk, views>> /\ UNCHANGED rewardVars

OperationDies(k) ==
  /\ faults < scene.faults /\ desk[k] # NoOperation
  /\ torn' = IF desk[k].at \in {"granting", "wrote", "recorded"} THEN torn \cup {desk[k].target} ELSE torn
  /\ Closes(k)
  /\ faults' = faults + 1
  /\ UNCHANGED <<profile, left, log, book, effects, views, loose, done>>
  /\ UNCHANGED <<scene, store, stone, plan, entitled, key, run, crossed, scripted, asked>>

Operates(k) ==
  \/ assertAdminPermission(k) \/ createPermissionDeniedAudit(k) \/ ReadPrevious(k)
  \/ assertCanChangeActiveSuperAdmin(k) \/ CountSuperAdmins(k) \/ updateAdminProfile(k)
  \/ updateMembership(k) \/ GrantEntitlements(k) \/ createAuditLog(k) \/ RecordMembership(k)
  \/ getRawUserContent(k)
  \/ upsertSystemConfig(k) \/ cleanupUploads(k) \/ reconcileQueues(k)
  \/ runNotificationScheduler(k) \/ retryEmailLog(k) \/ refundPaymentOrder(k)
Asks(k) ==
  \E u \in Users :
    \/ "profile" \in scene.kinds /\ \E t \in Users, p \in scene.profiles : Begin(k, Operation("profile", u, t, p))
    \/ "raw" \in scene.kinds /\ Begin(k, Operation("raw", u, Member, NoProfile))
    \/ "membership" \in scene.kinds /\ \E p \in {"FREE", "PRO"} : Begin(k, Operation("membership", u, Member, p))
    \/ \E kind \in Works \cap scene.kinds : Begin(k, Operation(kind, u, kind, NoProfile))

\* A super administrator is there at the start.
ASSUME DesksAssumption == IsFiniteSet(Desks)
ASSUME FoundersAssumption == Founders \in [Users -> Profiles \cup {NoProfile}] /\ \E u \in Users : IsSuper(Founders[u])
ASSUME ProfilesAssumption == \A s \in Scenes : s.profiles \subseteq Profiles

AdminInit ==
  /\ profile = Founders /\ left = {} /\ log = <<>> /\ book = <<>> /\ effects = [w \in Works |-> 0]
  /\ desk = [k \in Desks |-> NoOperation] /\ views = {} /\ torn = {} /\ loose = FALSE /\ done = 0

Init == RewardsInit /\ AdminInit
Next ==
  \/ RewardsNext /\ UNCHANGED adminVars
  \/ \E u \in Users : deleteCurrentUser(u)
  \/ \E k \in Desks : Asks(k) \/ Operates(k) \/ OperationDies(k)

Spec == Init /\ [][Next]_<<rewardVars, adminVars>>
-----------------------------------------------------------------------------
\* The types of the profiles and the records.
AdminTypeOK ==
  /\ profile \in [Users -> Profiles \cup {NoProfile}] /\ left \subseteq Users
  /\ \A i \in DOMAIN log :
       log[i] = NoRow \/ (log[i].action \in Kinds \cup {"denied"} /\ log[i].actor \in Users \ left)
  /\ effects \in [Works -> Nat] /\ torn \subseteq Users \cup Works \cup {Member}

\* An active super administrator is always there (the message of admin.service.ts:1125), unless
\* changes of profiles overlap or one deletes the account.
SomeSuperAdmin == loose \/ \E u \in Users : IsSuper(profile[u])

\* The rows at some places lead from first to last: each begins where the one before it ended.
Story(rows, places, first, last) ==
  /\ \A j \in places : (\A i \in places : j <= i) => rows[j].from = first
  /\ \A i, j \in places : i < j /\ (\A k \in places : k <= i \/ j <= k) => rows[j].from = rows[i].to
  /\ \A i \in places : (\A k \in places : k <= i) => rows[i].to = last
  /\ places = {} => first = last
ProfileRows(u) == {i \in DOMAIN log : log[i].action = "profile" /\ log[i].target = u}
\* The records tell how each profile and the membership came to be what they are, step by step,
\* but for an operation that has not recorded its step yet.  Not of what is torn: two operations
\* on it overlapped, one died with its effect and without its record, or an administrator who was
\* changing it or whose rows told of it deleted the account (admin.service.ts:1031).
AuditReplays ==
  /\ \A u \in Users \ torn :
       (\A k \in Desks : desk[k].kind = "profile" /\ desk[k].target = u => desk[k].at # "wrote") =>
         Story(log, ProfileRows(u), Founders[u], profile[u])
  /\ Member \notin torn /\ (\A k \in Desks : desk[k].kind = "membership" => desk[k].at \notin {"granting", "wrote", "recorded"}) =>
       Story(book, DOMAIN book, "FREE", plan)

\* What was done elsewhere is in the log as often as it was done (SPEC.md:745), but for an
\* operation that has not recorded it yet; not of a kind of work that is torn: a process died
\* between the two, or an administrator left who was doing it or had done it.
WorkRecorded ==
  \A w \in Works \ torn :
    effects[w] = Cardinality({i \in DOMAIN log : log[i].action = w})
               + Cardinality({k \in Desks : desk[k].kind = w /\ desk[k].at = "wrote"})

\* The entitlement that comes with a membership is there when the membership is that of a
\* PRO, but while an operation is between the two, and unless one died there or two
\* overlapped (admin.service.ts:668-717 is no transaction).
EntitlementFollows ==
  Member \notin torn /\ (\A k \in Desks : desk[k].kind = "membership" => desk[k].at # "granting") =>
    entitled = (plan = "PRO")

\* Whoever was shown a user's words stands in the log for it, until the account is deleted
\* (SPEC.md:705).
ViewsAudited ==
  \A v \in views : v.actor \in left \/ \E i \in DOMAIN log :
    log[i].action = "raw" /\ log[i].actor = v.actor /\ log[i].target = v.target

\* Together: there is someone to administer, unless the changes of profiles are loose; the log can
\* be relied on for what is not torn, and so can the membership.
AdministrationHolds ==
  AdminTypeOK /\ SomeSuperAdmin /\ AuditReplays /\ WorkRecorded /\ ViewsAudited /\ EntitlementFollows
=============================================================================
