------------------------------ MODULE Rewards ------------------------------
(***************************************************************************)
(* The reward board of a goal (rewards/rewards.service.ts), as the web     *)
(* client's page uses it, the encryption of its texts                      *)
(* (security/field-encryption.service.ts) and the script that encrypts     *)
(* the rows written before there was any                                   *)
(* (security/encrypt-sensitive-fields.script.ts).                          *)
(*                                                                         *)
(* A board has a card for the goal's final reward and for each milestone's *)
(* reward, made and brought up to date whenever the board is read, and the *)
(* user's own cards, which count against a quota.  Every request reads a   *)
(* row first and writes it later; none holds a lock.                       *)
(*                                                                         *)
(* One milestone of each plan has a reward; titles, images and the order   *)
(* of the cards are left out.                                              *)
(***************************************************************************)
EXTENDS Integers, FiniteSets

CONSTANTS
  MaxCards, Slots,
  MaxKey,         \* versions of the encryption key, configured everywhere; 0 is a plain text
  MaxPlans, Texts,
  Take,           \* rows the script reads of a table; 10,000 in the code
  FreeCards, ProCards,
  Scenes          \* what a behaviour begins with and its bounds: [cards, kinds, asks, ops, faults, profiles]

ASSUME SizesAssumption == MaxCards \in Nat /\ MaxKey \in Nat \ {0} /\ MaxPlans \in Nat

CardIds == 1..MaxCards
FINAL == "FINAL_REWARD"
MILESTONE == "MILESTONE_REWARD"
CUSTOM == "CUSTOM"
BoardKinds == {"board", "create", "edit", "move", "delete", "script"}

VARIABLES
  scene,
  card,     \* [CardIds -> Card]: the rows of reward_cards, at most one row ever with each id
  made,     \* ids given out
  held,     \* cards with a charged REWARD_CARD record
  final,    \* the goal's final reward as stored
  stone,    \* the milestone of the present plan and its reward
  plan,     \* the user's membership
  entitled, \* an entitlement that came with a membership is valid
  key,      \* the active version of the key
  run,      \* [Slots -> Request]: requests, and runs of the script, under way
  crossed,  \* two boards were synchronised at once
  scripted, \* a run of the script that saw every row has ended
  asked, faults

store == <<card, made, held, final>>
rewardVars == <<scene, store, stone, plan, entitled, key, run, crossed, scripted, asked, faults>>
-----------------------------------------------------------------------------
(* Encryption.  A stored text is [text, key].                               *)

Plain(text) == [text |-> text, key |-> 0]
Legible(stored) == stored.key = 0 /\ stored.text # ""
\* What is encrypted already, under any version, and what is empty stays.
encrypt(stored, version) ==
  IF Legible(stored) THEN [text |-> stored.text, key |-> version] ELSE stored
decrypt(stored) == stored.text
-----------------------------------------------------------------------------
NoCard == [source |-> "none", ref |-> 0, type |-> "TEXT", body |-> Plain("")]
Card(source, ref, type, body) == [source |-> source, ref |-> ref, type |-> type, body |-> body]
NoRows == [c \in CardIds |-> NoCard]

\* kind, how far it is, the card it is about, what it asks for; a board: the anchors it read, those
\* still to be synchronised [source, ref, text, card] and the cards others wrote; a script: its rows.
Request(kind, c, type, text) ==
  [kind |-> kind, at |-> "sent", card |-> c, type |-> type, text |-> text, version |-> key,
   anchors |-> {}, todo |-> {}, touched |-> {}, rows |-> NoRows]
Idle ==
  [kind |-> "none", at |-> "idle", card |-> 0, type |-> "TEXT", text |-> "", version |-> 0,
   anchors |-> {}, todo |-> {}, touched |-> {}, rows |-> NoRows]

Anchors ==
  {a \in {[source |-> FINAL, ref |-> 0, text |-> decrypt(final)],
          [source |-> MILESTONE, ref |-> stone.id, text |-> stone.text]} : a.text # ""}
CardsOf(source, ref) == {c \in CardIds : card[c].source = source /\ card[c].ref = ref}
\* A valid entitlement goes before the membership.
CustomLimit == IF entitled \/ plan = "PRO" THEN ProCards ELSE FreeCards

Moves(r, q) == run' = [run EXCEPT ![r] = q]
Goes(r, at) == Moves(r, [run[r] EXCEPT !.at = at])
Ends(r) == Moves(r, Idle)
\* A card is written while a board may be under way that has dealt with it.
Touches(r, c, q) ==
  run' = [s \in Slots |-> IF s = r THEN q
                          ELSE IF run[s].kind = "board" THEN [run[s] EXCEPT !.touched = @ \cup {c}] ELSE run[s]]
Fresh == made + 1
Others == UNCHANGED <<scene, stone, plan, entitled, key, asked, faults>>

\* The page loads the board again after each of its operations that succeeded.
Reloads(q) == IF q.kind \in {"create", "move", "delete"} THEN Request("board", 0, "TEXT", "") ELSE Idle
-----------------------------------------------------------------------------
(* The board.                                                               *)

getRewardBoard(r) ==
  /\ run[r].kind = "board" /\ run[r].at = "sent"
  /\ Moves(r, [run[r] EXCEPT !.at = "syncing", !.anchors = Anchors,
                             !.todo = {[source |-> a.source, ref |-> a.ref, text |-> a.text, card |-> -1] : a \in Anchors}])
  /\ crossed' = (crossed \/ \E s \in Slots \ {r} : run[s].kind = "board" /\ run[s].at = "syncing")
  /\ UNCHANGED <<store, scripted>> /\ Others

\* syncAnchorCards: the anchors side by side, each looked up first.
UpsertFind(r, a) ==
  /\ run[r].kind = "board" /\ a.card = -1
  /\ LET found == CardsOf(a.source, a.ref)
     IN \E c \in IF found = {} THEN {0} ELSE found :
          Moves(r, [run[r] EXCEPT !.todo = (@ \ {a}) \cup {[a EXCEPT !.card = c]}])
  /\ UNCHANGED <<store, crossed, scripted>> /\ Others

\* Mutant of Synchronised: an anchor's card that exists keeps its text.
SynchronisedTitle(a, c, version) == IF card[c].source = "none" THEN Card(a.source, a.ref, "TEXT", encrypt(Plain(a.text), version))
                                    ELSE card[c]

\* The card of an anchor: a new one, or the one found with its text replaced.
Synchronised(a, c, version) ==
  Card(a.source, a.ref, card[c].type, encrypt(Plain(a.text), version))

upsertAnchorCard(r, a) ==
  /\ run[r].kind = "board" /\ a.card >= 0
  /\ LET c == IF a.card = 0 THEN Fresh ELSE a.card
     IN /\ c \in CardIds
        /\ card' = [card EXCEPT ![c] = Synchronised(a, c, run[r].version)]
        /\ made' = IF a.card = 0 THEN c ELSE made
        /\ Moves(r, [run[r] EXCEPT !.todo = @ \ {a}])
  /\ UNCHANGED <<held, final, crossed, scripted>> /\ Others

\* The goal is read once more and shown.
BoardShown(r) ==
  /\ run[r].kind = "board" /\ run[r].at = "syncing" /\ run[r].todo = {}
  /\ Ends(r)
  /\ UNCHANGED <<store, crossed, scripted>> /\ Others

Board(r) == getRewardBoard(r) \/ BoardShown(r) \/ \E a \in run[r].todo : UpsertFind(r, a) \/ upsertAnchorCard(r, a)
-----------------------------------------------------------------------------
(* The user's cards.                                                        *)

\* The charge and the row are one transaction.
createRewardCard(r) ==
  /\ run[r].kind = "create" /\ run[r].at = "sent"
  /\ IF Cardinality(held) >= CustomLimit THEN Ends(r) /\ UNCHANGED store
     ELSE /\ Fresh \in CardIds
          /\ card' = [card EXCEPT ![Fresh] =
                        Card(CUSTOM, 0, run[r].type, encrypt(Plain(run[r].text), run[r].version))]
          /\ made' = Fresh /\ held' = held \cup {Fresh}
          /\ UNCHANGED final
          /\ Moves(r, Reloads(run[r]))
  /\ UNCHANGED <<crossed, scripted>> /\ Others

FindCard(r) ==
  /\ run[r].kind \in {"edit", "move", "delete"} /\ run[r].at = "sent"
  /\ LET found == card[run[r].card].source
     IN IF found = "none" \/ (run[r].kind = "delete" /\ found # CUSTOM) THEN Ends(r) ELSE Goes(r, "found")
  /\ UNCHANGED <<store, crossed, scripted>> /\ Others

\* A payload that names no type, as the page sends it to move a card, means a text.
Edited(d, q) ==
  Card(d.source, d.ref, q.type, IF q.kind = "move" THEN d.body ELSE encrypt(Plain(q.text), q.version))

\* Any card can be edited, those of anchors too.
updateRewardCard(r) ==
  /\ run[r].kind \in {"edit", "move"} /\ run[r].at = "found"
  /\ LET c == run[r].card
     IN IF card[c].source = "none" THEN Ends(r) /\ UNCHANGED card
        ELSE /\ card' = [card EXCEPT ![c] = Edited(card[c], run[r])]
             /\ Touches(r, c, Reloads(run[r]))
  /\ UNCHANGED <<made, held, final, crossed, scripted>> /\ Others

\* Mutant of Released: the charge stays.
ReleasedNot(c) == held

Released(c) == held \ {c}

\* The row and its charge go in one transaction; a second deletion finds no row and changes nothing.
deleteRewardCard(r) ==
  /\ run[r].kind = "delete" /\ run[r].at = "found"
  /\ LET c == run[r].card
     IN IF card[c].source = "none" THEN Ends(r) /\ UNCHANGED <<card, held>>
        ELSE /\ card' = [card EXCEPT ![c] = NoCard]
             /\ held' = Released(c)
             /\ Moves(r, Reloads(run[r]))
  /\ UNCHANGED <<made, final, crossed, scripted>> /\ Others
-----------------------------------------------------------------------------
(* The script.                                                              *)

Rows == {c \in CardIds : card[c].source # "none"}

\* Goals first: their texts never change after creation.
migrateGoals(r) ==
  /\ run[r].kind = "script" /\ run[r].at = "sent"
  /\ final' = encrypt(final, run[r].version)
  /\ Goes(r, "goals")
  /\ UNCHANGED <<card, made, held, crossed, scripted>> /\ Others

\* The first rows the database gives, all read before one is written.
migrateRewardCards(r) ==
  /\ run[r].kind = "script" /\ run[r].at = "goals"
  /\ \E first \in SUBSET Rows :
       /\ Cardinality(first) = IF Cardinality(Rows) < Take THEN Cardinality(Rows) ELSE Take
       /\ Moves(r, [run[r] EXCEPT !.at = IF first = Rows THEN "all" ELSE "some",
                                  !.rows = [c \in CardIds |-> IF c \in first THEN card[c] ELSE NoCard]])
  /\ UNCHANGED <<store, crossed, scripted>> /\ Others

\* What encryption changes.
Left(r) == {c \in CardIds : Legible(run[r].rows[c].body)}
\* Each text that changes is written over the row's, whatever that is by now; a row that is gone
\* ends the script.
EncryptCard(r, c) ==
  /\ run[r].kind = "script" /\ c \in Left(r)
  /\ IF card[c].source = "none" THEN Ends(r) /\ UNCHANGED card
     ELSE /\ card' = [card EXCEPT ![c] = Card(card[c].source, card[c].ref, card[c].type,
                                              encrypt(run[r].rows[c].body, run[r].version))]
          /\ Touches(r, c, [run[r] EXCEPT !.rows = [@ EXCEPT ![c] = NoCard]])
  /\ UNCHANGED <<made, held, final, crossed, scripted>> /\ Others

ScriptEnds(r) ==
  /\ run[r].kind = "script" /\ run[r].at \in {"all", "some"} /\ Left(r) = {}
  /\ scripted' = (scripted \/ run[r].at = "all")
  /\ Ends(r)
  /\ UNCHANGED <<store, crossed>> /\ Others

Script(r) == migrateGoals(r) \/ migrateRewardCards(r) \/ ScriptEnds(r) \/ \E c \in CardIds : EncryptCard(r, c)
-----------------------------------------------------------------------------
\* The card an operation is about, 0 for none, and what it sends.
Wanted(kind, c, type, text) ==
  \/ kind = "create" /\ c = 0 /\ text \in Texts
  \/ kind = "edit" /\ c # 0 /\ type = "IMAGE" /\ text \in Texts
  \/ kind = "move" /\ c # 0 /\ card[c].source = CUSTOM /\ type = "TEXT" /\ text = ""
  \/ kind = "delete" /\ c # 0 /\ type = "TEXT" /\ text = ""
  \/ kind = "board" /\ c = 0 /\ type = "TEXT" /\ text = ""
  \/ kind = "script" /\ c = 0 /\ type = "TEXT" /\ text = "" /\ \A s \in Slots : run[s].kind # "script"

AskBoard(r) ==
  /\ asked < scene.asks /\ run[r] = Idle
  /\ \E kind \in scene.kinds \cap BoardKinds, c \in 0..made, type \in {"TEXT", "IMAGE"}, text \in Texts \cup {""} :
       Wanted(kind, c, type, text) /\ Moves(r, Request(kind, c, type, text))
  /\ asked' = asked + 1
  /\ UNCHANGED <<scene, store, stone, plan, entitled, key, crossed, scripted, faults>>

\* A plan made anew has milestones of its own; the cards of the old ones stay.
persistGeneratedPlan ==
  /\ "replan" \in scene.kinds /\ asked < scene.asks /\ stone.id < MaxPlans
  /\ \E text \in Texts : stone' = [id |-> stone.id + 1, text |-> text]
  /\ asked' = asked + 1
  /\ UNCHANGED <<scene, store, plan, entitled, key, run, crossed, scripted, faults>>

\* A deployment activates the next version; requests under way end with the one they have.
Rotate ==
  /\ "rotate" \in scene.kinds /\ asked < scene.asks /\ key < MaxKey
  /\ key' = key + 1
  /\ asked' = asked + 1
  /\ UNCHANGED <<scene, store, stone, plan, entitled, run, crossed, scripted, faults>>

\* The process dies on a request, or the script does.
RequestDies(r) ==
  /\ faults < scene.faults /\ run[r] # Idle
  /\ Ends(r)
  /\ faults' = faults + 1
  /\ UNCHANGED <<scene, store, stone, plan, entitled, key, crossed, scripted, asked>>

Serves(r) == Board(r) \/ createRewardCard(r) \/ FindCard(r) \/ updateRewardCard(r) \/ deleteRewardCard(r) \/ Script(r)

Stored == [text : Texts \cup {"trip", ""}, key : 0..MaxKey]
Sources == {"none", CUSTOM, FINAL, MILESTONE}
CardRow == [source : Sources, ref : 0..MaxPlans, type : {"TEXT", "IMAGE"}, body : Stored]
\* A behaviour begins with the user's cards and those of anchors, one of each.
Beginning(s) ==
  /\ s.asks \in Nat /\ s.ops \in Nat /\ s.faults \in Nat
  /\ \E n \in 0..MaxCards : s.cards \in [1..n -> CardRow]
  /\ \A c, d \in DOMAIN s.cards :
       s.cards[c].source # "none" /\
         (c # d /\ s.cards[c].source # CUSTOM =>
            s.cards[c].source # s.cards[d].source \/ s.cards[c].ref # s.cards[d].ref)
ASSUME ScenesAssumption == \A s \in Scenes : Beginning(s)

RewardsInit ==
  /\ scene \in Scenes
  /\ card = [c \in CardIds |-> IF c \in DOMAIN scene.cards THEN scene.cards[c] ELSE NoCard]
  /\ made = Cardinality(DOMAIN scene.cards)
  /\ held = {c \in DOMAIN scene.cards : scene.cards[c].source = CUSTOM}
  /\ final = Plain("trip") /\ stone = [id |-> 0, text |-> ""]
  /\ plan = "FREE" /\ entitled = FALSE /\ key = 1 /\ run = [r \in Slots |-> Idle]
  /\ crossed = FALSE /\ scripted = FALSE /\ asked = 0 /\ faults = 0

RewardsNext == persistGeneratedPlan \/ Rotate \/ \E r \in Slots : AskBoard(r) \/ RequestDies(r) \/ Serves(r)
-----------------------------------------------------------------------------
\* The types of the rows.
RewardsTypeOK ==
  /\ card \in [CardIds -> CardRow]
  /\ made \in 0..MaxCards /\ held \subseteq 1..made /\ final \in Stored
  /\ plan \in {"FREE", "PRO"} /\ entitled \in BOOLEAN
  /\ stone.id \in 0..MaxPlans /\ key \in 1..MaxKey

\* The user's cards are those charged; an anchor has one card unless two boards were read at once;
\* and once the script has ended that read every row, no text is left plain, whatever was written
\* while it ran.
CardsAgree ==
  /\ RewardsTypeOK
  /\ {c \in CardIds : card[c].source = CUSTOM} = held
  /\ \A c, d \in CardIds :
       c # d /\ card[c].source \in {FINAL, MILESTONE} /\ ~crossed =>
         <<card[c].source, card[c].ref>> # <<card[d].source, card[d].ref>>
  /\ scripted => final.key # 0 /\ \A c \in CardIds : ~Legible(card[c].body)

\* A card of the user's keeps its text but for an edit; only the script may bring back one that
\* was edited after it read the rows.
CustomKept ==
  [][\A c \in held : c \in held' /\ decrypt(card'[c].body) # decrypt(card[c].body) =>
       \E r \in Slots : \/ run[r].kind = "edit" /\ run[r].card = c /\ run[r].at = "found" /\ run'[r] = Idle
                        \/ run[r].kind = "script" /\ run[r].rows[c].source # "none"
                           /\ run[r].rows[c].body # card[c].body]_card

\* A board that is shown has each reward of the goal once and in the goal's words, whatever was
\* written on its card before, if no other board, edit or plan crossed it.
BoardIsCurrent ==
  [][\A r \in Slots :
       run[r].kind = "board" /\ run[r].at = "syncing" /\ run'[r] = Idle /\ faults' = faults
       /\ ~crossed /\ run[r].anchors = Anchors =>
         \A a \in Anchors : \E c \in CardIds :
           CardsOf(a.source, a.ref) = {c} /\ (c \in run[r].touched \/ decrypt(card[c].body) = a.text)]_run

\* Both.
TextsKept == CustomKept /\ BoardIsCurrent
=============================================================================
