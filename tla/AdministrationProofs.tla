------------------------ MODULE AdministrationProofs ------------------------
(***************************************************************************)
(* Proofs about the reward board and the console of the administrators,    *)
(* for any number of cards, requests, keys, plans, administrators and      *)
(* operations under way.                                                   *)
(***************************************************************************)
EXTENDS Administration, FiniteSetTheorems, TLAPS

-----------------------------------------------------------------------------
(* The board.                                                               *)

Types == {"TEXT", "IMAGE"}
Refs == 0..MaxPlans
StoredTexts == Texts \cup {"trip", ""}
Anchor == [source : {FINAL, MILESTONE}, ref : Refs, text : StoredTexts]
Todo == [source : {FINAL, MILESTONE}, ref : Refs, text : StoredTexts, card : -1..MaxCards]
Places == {"idle", "sent", "syncing", "found", "goals", "all", "some"}
RequestKinds == BoardKinds \cup {"none"}
Ids == 0..MaxCards
Words == Texts \cup {""}
Versions == 0..MaxKey
AnchorSets == SUBSET Anchor
TodoSets == SUBSET Todo
CardSets == SUBSET CardIds
RowsRead == [CardIds -> CardRow]
RequestRow ==
  [kind : RequestKinds, at : Places, card : Ids, type : Types, text : Words, version : Versions,
   anchors : AnchorSets, todo : TodoSets, touched : CardSets, rows : RowsRead]

BoardTypes ==
  /\ RewardsTypeOK
  /\ scene \in Scenes /\ run \in [Slots -> RequestRow]
  /\ crossed \in BOOLEAN /\ scripted \in BOOLEAN /\ asked \in Nat /\ faults \in Nat
  /\ stone \in [id : Refs, text : Texts \cup {""}] /\ final.text = "trip"

\* No id is used twice.
NeverReused == \A c \in CardIds :
  /\ c > made => card[c] = NoCard
  /\ card[c].source = "none" => card[c] = NoCard

\* The user's cards are those charged.
HeldAreCustom == {c \in CardIds : card[c].source = CUSTOM} = held

\* What a request carries, by its kind and how far it is.
Carries(q) ==
  /\ q.kind # "none" => q.version # 0
  /\ q.todo # {} \/ q.at = "syncing" => q.kind = "board"
  /\ q.todo # {} => q.at = "syncing"
  /\ \A a, b \in q.anchors : a.source = b.source => a = b
  /\ \A t, v \in q.todo : t.source = v.source => t = v
  /\ \A t \in q.todo : [source |-> t.source, ref |-> t.ref, text |-> t.text] \in q.anchors
  /\ \A c \in CardIds : q.rows[c].source = "none" => q.rows[c] = NoCard

\* What it found is there: ids are given, and the card of an anchor stays its card.
Finds(q) ==
  /\ q.kind \in {"edit", "move", "delete"} => q.card \in 1..made
  /\ q.kind = "delete" /\ q.at = "found" => card[q.card].source \in {CUSTOM, "none"}
  /\ \A t \in q.todo : t.card > 0 => card[t.card].source = t.source /\ card[t.card].ref = t.ref

\* The script that read every row has read every text that is still to be encrypted.
Encrypts(q) ==
  q.kind = "script" =>
    /\ q.at \in {"goals", "all", "some"} => final.key # 0
    /\ q.at = "all" => \A c \in CardIds : Legible(card[c].body) => Legible(q.rows[c].body)
NoneLegible == scripted => final.key # 0 /\ \A c \in CardIds : ~Legible(card[c].body)

\* One board at a time, each anchor has one card, and an anchor that a board has dealt with
\* has its words, unless somebody has written on its card.
Syncing(r) == run[r].at = "syncing"
Waits(r, a) == \E t \in run[r].todo : t.source = a.source /\ t.ref = a.ref
Settled(r, a) == \E c \in CardIds :
  CardsOf(a.source, a.ref) = {c} /\ (c \in run[r].touched \/ card[c].body.text = a.text)
OneBoard == ~crossed => \A r, s \in Slots : Syncing(r) /\ Syncing(s) => r = s
OneCard == ~crossed => \A c, d \in CardIds :
  c # d /\ card[c].source \in {FINAL, MILESTONE} => card[c].source # card[d].source \/ card[c].ref # card[d].ref
NewIsNew == ~crossed => \A r \in Slots : \A t \in run[r].todo : t.card = 0 => CardsOf(t.source, t.ref) = {}
Shows == ~crossed => \A r \in Slots : Syncing(r) => \A a \in run[r].anchors : Waits(r, a) \/ Settled(r, a)

CardsOK == BoardTypes /\ NeverReused /\ HeldAreCustom
RequestsOK == \A r \in Slots : Carries(run[r]) /\ Finds(run[r]) /\ Encrypts(run[r])
BoardInv == CardsOK /\ RequestsOK /\ NoneLegible /\ OneBoard /\ OneCard /\ NewIsNew /\ Shows
-----------------------------------------------------------------------------
(* The console.                                                             *)

Things == Users \cup Works \cup {Member, "none"}
Values == Profiles \cup {NoProfile, "FREE", "PRO"}
Stages == {"idle", "asked", "allowed", "denied", "read", "counting", "cleared", "granting", "wrote", "recorded"}
OperationRow ==
  [kind : Kinds \cup {"none"}, at : Stages, actor : Users \cup {"none"}, target : Things, to : Values, from : Values]
LogRow == [actor : Users \cup {"none"}, action : Kinds \cup {"denied", "none"}, target : Things, from : Values, to : Values]
BookRow == [from : Values, to : Values]

ConsoleTypes ==
  /\ AdminTypeOK
  /\ log \in Seq(LogRow) /\ book \in Seq(BookRow)
  /\ desk \in [Desks -> OperationRow]
  /\ views \in SUBSET [actor : Users, target : Things]
  /\ loose \in BOOLEAN /\ done \in Nat

\* What an operation carries, by its kind and how far it is.
OperationIs(o) ==
  /\ o.kind = "none" => o = NoOperation
  /\ o.kind # "none" => o.actor \in Users /\ o.target \in Users \cup Works \cup {Member}
  /\ o.kind \in Works => o.target = o.kind /\ o.at \in {"asked", "allowed", "denied", "wrote"}
  /\ o.kind = "profile" => o.target \in Users /\ o.to \in Profiles /\ o.at \notin {"granting", "recorded"}
  /\ o.kind = "membership" => o.target = Member /\ o.to \in {"FREE", "PRO"} /\ o.at \notin {"counting", "cleared"}
  /\ o.kind = "raw" => o.at \in {"asked", "allowed", "denied", "wrote", "recorded"}
\* The records of an operation whose actor has left are given up.
LeftIsTorn == \A k \in Desks : desk[k].kind # "none" /\ desk[k].actor \in left => desk[k].target \in torn
\* Two operations on one thing have torn its records.
Alone == \A k, l \in Desks :
  k # l /\ desk[k].kind \in {"profile", "membership", "raw"} /\ desk[l].kind = desk[k].kind
  /\ desk[l].target = desk[k].target => desk[k].target \in torn
WorkIsNamed == \A i \in DOMAIN log :
  /\ log[i] = NoRow \/ log[i].target \in Users \cup Works \cup {Member}
  /\ log[i].action \in Works => log[i].target = log[i].action
OperationsOK == (\A k \in Desks : OperationIs(desk[k])) /\ LeftIsTorn /\ Alone /\ WorkIsNamed

\* Who may cease to be a super administrator has another one beside.
OneProfile == ~loose => \A k, l \in Desks : desk[k].kind = "profile" /\ desk[l].kind = "profile" => k = l
AnotherIsThere == ~loose => \A k \in Desks :
  desk[k].kind = "profile" /\ desk[k].at = "cleared" /\ NeedsAnother(desk[k]) => OtherSupers(desk[k].target) # {}
Supers == OneProfile /\ AnotherIsThere /\ SomeSuperAdmin

\* The records tell the story up to an operation that has written and not recorded yet, and the
\* operation knows the rest.
Writes(k, u) == desk[k].kind = "profile" /\ desk[k].target = u /\ desk[k].at = "wrote"
ProfileStory == \A u \in Users \ torn :
  /\ \A k \in Desks :
       desk[k].kind = "profile" /\ desk[k].target = u /\ desk[k].at \in {"read", "counting", "cleared"}
         => desk[k].from = profile[u]
  /\ \A k \in Desks : Writes(k, u) =>
       desk[k].to = profile[u] /\ Story(log, ProfileRows(u), Founders[u], desk[k].from)
  /\ (\A k \in Desks : ~Writes(k, u)) => Story(log, ProfileRows(u), Founders[u], profile[u])

Books(k) == desk[k].kind = "membership" /\ desk[k].at \in {"granting", "wrote", "recorded"}
MemberStory == Member \notin torn =>
  /\ \A k \in Desks : desk[k].kind = "membership" /\ desk[k].at = "read" => desk[k].from = plan
  /\ \A k \in Desks : Books(k) => desk[k].to = plan /\ Story(book, DOMAIN book, "FREE", desk[k].from)
  /\ (\A k \in Desks : ~Books(k)) => Story(book, DOMAIN book, "FREE", plan)

InLog(actor, target) == \E i \in DOMAIN log : log[i].action = "raw" /\ log[i].actor = actor /\ log[i].target = target
RawRecorded == \A k \in Desks :
  desk[k].kind = "raw" /\ desk[k].at = "recorded" => desk[k].actor \in left \/ InLog(desk[k].actor, desk[k].target)
Records ==
  ProfileStory /\ MemberStory /\ EntitlementFollows /\ WorkRecorded /\ RawRecorded /\ ViewsAudited

ConsoleInv == ConsoleTypes /\ OperationsOK /\ Supers /\ Records
AdministrationInv == BoardInv /\ ConsoleInv

-----------------------------------------------------------------------------
(* Data.                                                                    *)

\* What the proofs use of the assumption on the constants of the board.
LEMMA Sizes == MaxCards \in Nat /\ MaxKey \in Nat /\ MaxKey # 0 /\ MaxPlans \in Nat
BY SizesAssumption

\* An empty row, and the rows of a request that has read none.
LEMMA NoCardIs ==
  /\ NoCard = [source |-> "none", ref |-> 0, type |-> "TEXT", body |-> [text |-> "", key |-> 0]]
  /\ NoCard \in CardRow /\ NoRows \in [CardIds -> CardRow] /\ \A c \in CardIds : NoRows[c] = NoCard
<1>1. NoCard = [source |-> "none", ref |-> 0, type |-> "TEXT", body |-> [text |-> "", key |-> 0]]
  BY DEF NoCard, Plain
<1>2. 0 \in Refs /\ 0 \in 0..MaxKey
  BY Sizes DEF Refs
<1>3. [text |-> "", key |-> 0] \in Stored
  BY <1>2 DEF Stored
<1>4. NoCard \in CardRow
  BY <1>1, <1>2, <1>3 DEF CardRow, Sources, Refs
<1> QED BY <1>1, <1>4 DEF NoRows

\* It is no card, and nothing is to be read in it.
LEMMA NoCardHas == NoCard.source = "none" /\ ~Legible(NoCard.body) /\ NoCard.body.text = ""
BY DEF NoCard, Plain, Legible

\* A slot without a request.
LEMMA IdleIs == Idle \in RequestRow /\ Carries(Idle) /\ Finds(Idle) /\ Encrypts(Idle)
<1>1. 0 \in 0..MaxCards /\ 0 \in 0..MaxKey
  BY Sizes
<1>2. Idle \in RequestRow
  BY <1>1, NoCardIs DEF Idle, RequestRow, RequestKinds, Places, Types, Ids, Words, Versions, AnchorSets, TodoSets,
     CardSets, RowsRead
<1>3. Carries(Idle)
  BY NoCardIs DEF Idle, Carries
<1> QED BY <1>2, <1>3 DEF Idle, Finds, Encrypts

\* Encryption keeps the text and leaves nothing plain but the empty text.
LEMMA EncryptIs ==
  ASSUME NEW stored \in Stored, NEW version \in 0..MaxKey, version # 0
  PROVE  encrypt(stored, version) \in Stored /\ encrypt(stored, version).text = stored.text
         /\ ~Legible(encrypt(stored, version))
BY DEF Stored, encrypt, Legible

\* A plain text is one that is stored.
LEMMA PlainIs == ASSUME NEW text \in StoredTexts PROVE Plain(text) \in Stored /\ Plain(text).text = text
<1>1. 0 \in 0..MaxKey
  BY Sizes
<1> QED BY <1>1 DEF Plain, Stored, StoredTexts

\* A row of the table of cards.
LEMMA CardIs ==
  ASSUME NEW source \in Sources, NEW ref \in Refs, NEW type \in Types, NEW body \in Stored
  PROVE  /\ Card(source, ref, type, body) \in CardRow
         /\ Card(source, ref, type, body) = [source |-> source, ref |-> ref, type |-> type, body |-> body]
BY DEF Card, CardRow, Refs, Types

\* The active version of the key is one.
LEMMA KeyIs == ASSUME BoardTypes PROVE key \in 0..MaxKey /\ key # 0
<1>1. key \in 1..MaxKey
  BY DEF BoardTypes, RewardsTypeOK
<1> QED BY <1>1, Sizes

\* A request that is sent, whatever it is about.
LEMMA RequestIs ==
  ASSUME BoardTypes
  PROVE  \A kind \in BoardKinds, c \in 0..MaxCards, type \in Types, text \in Words :
           (kind \in {"edit", "move", "delete"} => c \in 1..made) =>
              /\ Request(kind, c, type, text) \in RequestRow /\ Carries(Request(kind, c, type, text))
              /\ Finds(Request(kind, c, type, text)) /\ Encrypts(Request(kind, c, type, text))
              /\ Request(kind, c, type, text).at = "sent" /\ Request(kind, c, type, text).kind = kind
<1> SUFFICES ASSUME NEW kind \in BoardKinds, NEW c \in 0..MaxCards, NEW type \in Types, NEW text \in Words,
                    kind \in {"edit", "move", "delete"} => c \in 1..made
             PROVE  /\ Request(kind, c, type, text) \in RequestRow /\ Carries(Request(kind, c, type, text))
                    /\ Finds(Request(kind, c, type, text)) /\ Encrypts(Request(kind, c, type, text))
                    /\ Request(kind, c, type, text).at = "sent" /\ Request(kind, c, type, text).kind = kind
  OBVIOUS
<1>0. key \in 0..MaxKey /\ key # 0
  BY KeyIs
<1> DEFINE q == Request(kind, c, type, text)
<1> SUFFICES q \in RequestRow /\ Carries(q) /\ Finds(q) /\ Encrypts(q) /\ q.at = "sent" /\ q.kind = kind
  OBVIOUS
<1>1. q = [kind |-> kind, at |-> "sent", card |-> c, type |-> type, text |-> text, version |-> key,
           anchors |-> {}, todo |-> {}, touched |-> {}, rows |-> NoRows]
  BY DEF Request
<1> HIDE DEF q
<1>2. q \in RequestRow
  BY <1>0, <1>1, NoCardIs DEF RequestRow, RequestKinds, Places, Ids, Words, Versions, AnchorSets, TodoSets,
     CardSets, RowsRead
<1>3. Carries(q)
  BY <1>0, <1>1, NoCardIs DEF Carries
<1>4. Finds(q) /\ Encrypts(q)
  BY <1>1 DEF Finds, Encrypts
<1> QED BY <1>1, <1>2, <1>3, <1>4

-----------------------------------------------------------------------------
(* What a step of the board does.                                           *)

\* What the console does to the board: nothing but to the membership and what it entitles to.
ConsoleStep ==
  /\ UNCHANGED <<store, stone, key, run, crossed, scripted, asked, scene>>
  /\ plan' \in {"FREE", "PRO"} /\ entitled' \in BOOLEAN /\ faults' \in Nat
BoardStep == RewardsNext \/ ConsoleStep

\* p is what became of the request q of a slot that another slot's step has left alone.
Alike(p, q) ==
  /\ p.kind = q.kind /\ p.at = q.at /\ p.card = q.card /\ p.version = q.version
  /\ p.anchors = q.anchors /\ p.todo = q.todo /\ p.rows = q.rows /\ q.touched \subseteq p.touched
OnlySlot(r) == run' \in [Slots -> RequestRow] /\ \A s \in Slots \ {r} : Alike(run'[s], run[s])

\* A request alone moves on.
LEMMA MovesIs ==
  ASSUME BoardTypes, NEW r \in Slots, NEW q \in RequestRow, Moves(r, q)
  PROVE  OnlySlot(r) /\ run'[r] = q /\ \A s \in Slots \ {r} : run'[s] = run[s]
<1>1. run \in [Slots -> RequestRow]
  BY DEF BoardTypes
<1> QED BY <1>1 DEF Moves, OnlySlot, Alike

LEMMA EndsIs ==
  ASSUME BoardTypes, NEW r \in Slots, Ends(r)
  PROVE  OnlySlot(r) /\ run'[r] = Idle /\ \A s \in Slots \ {r} : run'[s] = run[s]
BY MovesIs, IdleIs DEF Ends

\* A board that is under way learns that a card is written.
LEMMA Learns ==
  ASSUME NEW q \in RequestRow, NEW c \in CardIds
  PROVE  LET p == [q EXCEPT !.touched = @ \cup {c}]
         IN p \in RequestRow /\ Alike(p, q) /\ c \in p.touched
<1> DEFINE p == [q EXCEPT !.touched = @ \cup {c}]
<1>1. p = [kind |-> q.kind, at |-> q.at, card |-> q.card, type |-> q.type, text |-> q.text, version |-> q.version,
           anchors |-> q.anchors, todo |-> q.todo, touched |-> q.touched \cup {c}, rows |-> q.rows]
  BY DEF RequestRow
<1>2. q.touched \cup {c} \in CardSets
  BY DEF RequestRow, CardSets
<1> HIDE DEF p
<1>3. p \in RequestRow
  BY <1>1, <1>2 DEF RequestRow
<1>4. Alike(p, q) /\ c \in p.touched
  BY <1>1 DEF Alike
<1> QED BY <1>3, <1>4 DEF p

LEMMA TouchesIs ==
  ASSUME BoardTypes, NEW r \in Slots, NEW q \in RequestRow, NEW c \in CardIds, Touches(r, c, q)
  PROVE  /\ OnlySlot(r) /\ run'[r] = q
         /\ \A s \in Slots \ {r} : run[s].kind = "board" => c \in run'[s].touched
<1>1. run \in [Slots -> RequestRow]
  BY DEF BoardTypes
<1>2. run'[r] = q
  BY DEF Touches
<1>3. ASSUME NEW s \in Slots, s # r
      PROVE  run'[s] \in RequestRow /\ Alike(run'[s], run[s]) /\ (run[s].kind = "board" => c \in run'[s].touched)
  <2>1. CASE run[s].kind = "board"
    <3>1. run'[s] = [run[s] EXCEPT !.touched = @ \cup {c}]
      BY <1>3, <2>1 DEF Touches
    <3> QED BY <1>1, <3>1, Learns
  <2>2. CASE run[s].kind # "board"
    <3>1. run'[s] = run[s]
      BY <1>3, <2>2 DEF Touches
    <3> QED BY <1>1, <2>2, <3>1 DEF Alike
  <2> QED BY <2>1, <2>2
<1>4. run' = [s \in Slots |-> run'[s]]
  BY DEF Touches
<1>5. \A s \in Slots : run'[s] \in RequestRow
  BY <1>2, <1>3
<1>6. run' \in [Slots -> RequestRow]
  BY <1>4, <1>5
<1> QED BY <1>2, <1>3, <1>6 DEF OnlySlot

\* What a request that goes on keeps.
LEMMA GoesIs ==
  ASSUME NEW q \in RequestRow, NEW at \in Places
  PROVE  LET p == [q EXCEPT !.at = at]
         IN p \in RequestRow /\ p.at = at /\ p.kind = q.kind /\ p.card = q.card /\ p.version = q.version
            /\ p.anchors = q.anchors /\ p.todo = q.todo /\ p.rows = q.rows
<1> DEFINE p == [q EXCEPT !.at = at]
<1>1. p = [kind |-> q.kind, at |-> at, card |-> q.card, type |-> q.type, text |-> q.text, version |-> q.version,
           anchors |-> q.anchors, todo |-> q.todo, touched |-> q.touched, rows |-> q.rows]
  BY DEF RequestRow
<1> HIDE DEF p
<1>2. p \in RequestRow
  BY <1>1 DEF RequestRow
<1> QED BY <1>1, <1>2 DEF p

\* A row is written.
LEMMA CardWritten ==
  ASSUME BoardTypes, NEW c \in CardIds, NEW d \in CardRow, card' = [card EXCEPT ![c] = d]
  PROVE  card' \in [CardIds -> CardRow] /\ card'[c] = d /\ \A e \in CardIds \ {c} : card'[e] = card[e]
<1>1. card \in [CardIds -> CardRow]
  BY DEF BoardTypes, RewardsTypeOK
<1> QED BY <1>1

\* The types of what a step reads.
LEMMA StoreIs ==
  ASSUME BoardTypes
  PROVE  /\ card \in [CardIds -> CardRow] /\ made \in 0..MaxCards /\ held \subseteq 1..made /\ final \in Stored
         /\ run \in [Slots -> RequestRow] /\ stone.id \in Refs /\ stone.text \in Words
BY DEF BoardTypes, RewardsTypeOK, Words

StoreTypes ==
  card \in [CardIds -> CardRow] /\ made \in 0..MaxCards /\ held \subseteq 1..made /\ final \in Stored /\ final.text = "trip"
LEMMA StoreTypesNow == ASSUME BoardTypes PROVE StoreTypes /\ made \in Nat
<1>1. StoreTypes
  BY DEF BoardTypes, RewardsTypeOK, StoreTypes
<1>2. made \in 0..MaxCards
  BY <1>1 DEF StoreTypes
<1> QED BY <1>1, <1>2

\* The next id is one that no row has.
LEMMA FreshIs ==
  ASSUME BoardTypes, NeverReused, Fresh \in CardIds
  PROVE  card[Fresh] = NoCard /\ Fresh \in 0..MaxCards /\ Fresh > made /\ made \in Nat /\ Fresh \notin held
         /\ 1..Fresh = 1..made \cup {Fresh}
<1>1. made \in 0..MaxCards /\ held \subseteq 1..made
  BY DEF BoardTypes, RewardsTypeOK
<1> QED BY <1>1, Sizes DEF Fresh, CardIds, NeverReused

\* What is written on an anchor's card.
LEMMA UpsertIs ==
  ASSUME BoardTypes, NeverReused, NEW r \in Slots, NEW t \in run[r].todo, Carries(run[r]), Finds(run[r]),
         upsertAnchorCard(r, t)
  PROVE  \E c \in CardIds :
           /\ card' \in [CardIds -> CardRow] /\ \A e \in CardIds \ {c} : card'[e] = card[e]
           /\ card'[c].source = t.source /\ card'[c].ref = t.ref /\ card'[c].body.text = t.text
           /\ ~Legible(card'[c].body)
           /\ \/ t.card = 0 /\ c = Fresh /\ made' = Fresh /\ card[c] = NoCard
              \/ t.card = c /\ made' = made /\ card[c].source = t.source /\ card[c].ref = t.ref
<1>0. card \in [CardIds -> CardRow] /\ run[r] \in RequestRow
  BY StoreIs
<1>1. t \in Todo
  BY <1>0 DEF RequestRow, TodoSets
<1>2. run[r].kind = "board" /\ run[r].version \in 0..MaxKey /\ run[r].version # 0
  BY <1>0 DEF Carries, RequestRow, Versions
<1> DEFINE c == IF t.card = 0 THEN Fresh ELSE t.card
<1>3. /\ c \in CardIds /\ card' = [card EXCEPT ![c] = Synchronised(t, c, run[r].version)]
      /\ made' = (IF t.card = 0 THEN c ELSE made) /\ t.card >= 0 /\ c = (IF t.card = 0 THEN Fresh ELSE t.card)
  BY DEF upsertAnchorCard
<1> HIDE DEF c
<1> DEFINE body == encrypt(Plain(t.text), run[r].version)
           d == Card(t.source, t.ref, card[c].type, body)
<1>4. t.source \in Sources /\ t.ref \in Refs /\ card[c].type \in Types /\ t.text \in StoredTexts
  BY <1>0, <1>1, <1>3 DEF Todo, Sources, CardRow, Types
<1>5. body \in Stored /\ body.text = t.text /\ ~Legible(body)
  <2>1. Plain(t.text) \in Stored /\ Plain(t.text).text = t.text
    BY <1>4, PlainIs
  <2> QED BY <1>2, <2>1, EncryptIs
<1>6. card' = [card EXCEPT ![c] = d]
  BY <1>3 DEF Synchronised
<1> HIDE DEF body
<1>7. d \in CardRow /\ d = [source |-> t.source, ref |-> t.ref, type |-> card[c].type, body |-> body]
  BY <1>4, <1>5, CardIs
<1> HIDE DEF d
<1>8. card' \in [CardIds -> CardRow] /\ card'[c] = d /\ \A e \in CardIds \ {c} : card'[e] = card[e]
  BY <1>3, <1>6, <1>7, CardWritten
<1>9. CASE t.card = 0
  <2>1. c = Fresh /\ made' = Fresh
    BY <1>3, <1>9
  <2>2. card[c] = NoCard
    BY <1>3, <2>1, FreshIs
  <2> QED BY <1>3, <1>5, <1>7, <1>8, <1>9, <2>1, <2>2
<1>10. CASE t.card # 0
  <2>1. t.card \in Int
    BY <1>1, Sizes DEF Todo
  <2>2. c = t.card /\ made' = made /\ t.card > 0
    BY <1>3, <1>10, <2>1
  <2>3. card[t.card].source = t.source /\ card[t.card].ref = t.ref
    BY <2>2 DEF Finds
  <2> QED BY <1>3, <1>5, <1>7, <1>8, <2>2, <2>3
<1> QED BY <1>9, <1>10

\* What creating a card writes; with the quota used up nothing.
LEMMA CreateIs ==
  ASSUME BoardTypes, NeverReused, NEW r \in Slots, Carries(run[r]), createRewardCard(r)
  PROVE  \/ UNCHANGED store /\ Ends(r)
         \/ /\ Fresh \in CardIds /\ made' = Fresh /\ held' = held \cup {Fresh} /\ UNCHANGED final
            /\ card' \in [CardIds -> CardRow] /\ \A e \in CardIds \ {Fresh} : card'[e] = card[e]
            /\ card'[Fresh].source = CUSTOM /\ ~Legible(card'[Fresh].body)
            /\ Moves(r, Reloads(run[r]))
<1>0. run[r] \in RequestRow
  BY StoreIs
<1>1. run[r].kind = "create" /\ run[r].version \in 0..MaxKey /\ run[r].version # 0 /\ run[r].text \in StoredTexts
      /\ run[r].type \in Types
  BY <1>0 DEF Carries, RequestRow, Versions, Words, StoredTexts, createRewardCard
<1>2. CASE UNCHANGED store /\ Ends(r)
  BY <1>2
<1>3. CASE ~(UNCHANGED store /\ Ends(r))
  <2> DEFINE body == encrypt(Plain(run[r].text), run[r].version)
             d == Card(CUSTOM, 0, run[r].type, body)
  <2>1. /\ Fresh \in CardIds /\ card' = [card EXCEPT ![Fresh] = d] /\ made' = Fresh
        /\ held' = held \cup {Fresh} /\ UNCHANGED final /\ Moves(r, Reloads(run[r]))
    BY <1>3 DEF createRewardCard
  <2>2. body \in Stored /\ ~Legible(body)
    <3>1. Plain(run[r].text) \in Stored
      BY <1>1, PlainIs
    <3> QED BY <1>1, <3>1, EncryptIs
  <2>3. CUSTOM \in Sources /\ 0 \in Refs
    BY Sizes DEF Sources, Refs
  <2> HIDE DEF body
  <2>4. d \in CardRow /\ d = [source |-> CUSTOM, ref |-> 0, type |-> run[r].type, body |-> body]
    BY <1>1, <2>2, <2>3, CardIs
  <2> HIDE DEF d
  <2>5. card' \in [CardIds -> CardRow] /\ card'[Fresh] = d /\ \A e \in CardIds \ {Fresh} : card'[e] = card[e]
    BY <2>1, <2>4, CardWritten
  <2> QED BY <2>1, <2>2, <2>4, <2>5
<1> QED BY <1>2, <1>3

\* A card that is written keeps what it is the card of; nothing plain is written.
Written(c) ==
  /\ card' \in [CardIds -> CardRow] /\ \A e \in CardIds \ {c} : card'[e] = card[e]
  /\ card[c].source # "none" /\ card'[c].source = card[c].source /\ card'[c].ref = card[c].ref
  /\ Legible(card'[c].body) => Legible(card[c].body)

\* What an edit writes.
LEMMA UpdateIs ==
  ASSUME BoardTypes, NEW r \in Slots, Carries(run[r]), Finds(run[r]), updateRewardCard(r)
  PROVE  /\ UNCHANGED <<made, held, final>>
         /\ \/ UNCHANGED card /\ Ends(r)
            \/ /\ run[r].card \in CardIds /\ Written(run[r].card)
               /\ run[r].kind = "move" => card'[run[r].card].body = card[run[r].card].body
               /\ Touches(r, run[r].card, Reloads(run[r]))
<1>0. run[r] \in RequestRow /\ card \in [CardIds -> CardRow] /\ made \in 0..MaxCards
  BY StoreIs
<1> DEFINE c == run[r].card
<1>1. run[r].kind \in {"edit", "move"} /\ UNCHANGED <<made, held, final>>
  BY DEF updateRewardCard
<1>2. c \in CardIds
  <2>1. c \in 1..made
    BY <1>1 DEF Finds
  <2> QED BY <1>0, <2>1, Sizes DEF CardIds
<1>3. run[r].version \in 0..MaxKey /\ run[r].version # 0 /\ run[r].text \in StoredTexts /\ run[r].type \in Types
  BY <1>0, <1>1 DEF Carries, RequestRow, Versions, Words, StoredTexts
<1>4. CASE card[c].source = "none"
  BY <1>1, <1>4 DEF updateRewardCard
<1>5. CASE card[c].source # "none"
  <2> DEFINE body == IF run[r].kind = "move" THEN card[c].body ELSE encrypt(Plain(run[r].text), run[r].version)
             d == Card(card[c].source, card[c].ref, run[r].type, body)
  <2>1. card' = [card EXCEPT ![c] = d] /\ Touches(r, c, Reloads(run[r]))
    BY <1>1, <1>5 DEF updateRewardCard, Edited
  <2>2. card[c].source \in Sources /\ card[c].ref \in Refs /\ card[c].body \in Stored
    BY <1>0, <1>2 DEF CardRow, Refs
  <2>3. body \in Stored /\ (Legible(body) => Legible(card[c].body)) /\ (run[r].kind = "move" => body = card[c].body)
    <3>1. Plain(run[r].text) \in Stored
      BY <1>3, PlainIs
    <3>2. encrypt(Plain(run[r].text), run[r].version) \in Stored /\ ~Legible(encrypt(Plain(run[r].text), run[r].version))
      BY <1>3, <3>1, EncryptIs
    <3> QED BY <2>2, <3>2
  <2> HIDE DEF body
  <2>4. d \in CardRow /\ d = [source |-> card[c].source, ref |-> card[c].ref, type |-> run[r].type, body |-> body]
    BY <1>3, <2>2, <2>3, CardIs
  <2> HIDE DEF d
  <2>5. card' \in [CardIds -> CardRow] /\ card'[c] = d /\ \A e \in CardIds \ {c} : card'[e] = card[e]
    BY <1>2, <2>1, <2>4, CardWritten
  <2> QED BY <1>1, <1>2, <1>5, <2>1, <2>3, <2>4, <2>5 DEF Written
<1> QED BY <1>4, <1>5

\* What the script writes over a row: the text it read, encrypted; or it ends.
LEMMA EncryptCardIs ==
  ASSUME BoardTypes, NEW r \in Slots, NEW c \in CardIds, Carries(run[r]), EncryptCard(r, c)
  PROVE  /\ run[r].kind = "script" /\ Legible(run[r].rows[c].body) /\ UNCHANGED <<made, held, final>>
         /\ \/ UNCHANGED card /\ Ends(r) /\ card[c].source = "none"
            \/ /\ Written(c) /\ ~Legible(card'[c].body) /\ card'[c].body.text = run[r].rows[c].body.text
               /\ Touches(r, c, [run[r] EXCEPT !.rows = [@ EXCEPT ![c] = NoCard]])
<1>0. run[r] \in RequestRow /\ card \in [CardIds -> CardRow]
  BY StoreIs
<1>1. run[r].kind = "script" /\ Legible(run[r].rows[c].body) /\ UNCHANGED <<made, held, final>>
  BY DEF EncryptCard, Left
<1>2. run[r].version \in 0..MaxKey /\ run[r].version # 0 /\ run[r].rows[c].body \in Stored
  <2>1. run[r].rows \in [CardIds -> CardRow]
    BY <1>0 DEF RequestRow, RowsRead
  <2> QED BY <1>0, <1>1, <2>1 DEF Carries, RequestRow, Versions, CardRow
<1>3. CASE card[c].source = "none"
  BY <1>1, <1>3 DEF EncryptCard
<1>4. CASE card[c].source # "none"
  <2> DEFINE body == encrypt(run[r].rows[c].body, run[r].version)
             d == Card(card[c].source, card[c].ref, card[c].type, body)
  <2>1. card' = [card EXCEPT ![c] = d] /\ Touches(r, c, [run[r] EXCEPT !.rows = [@ EXCEPT ![c] = NoCard]])
    BY <1>1, <1>4 DEF EncryptCard
  <2>2. card[c].source \in Sources /\ card[c].ref \in Refs /\ card[c].type \in Types
    BY <1>0 DEF CardRow, Refs, Types
  <2>3. body \in Stored /\ body.text = run[r].rows[c].body.text /\ ~Legible(body)
    BY <1>2, EncryptIs
  <2> HIDE DEF body
  <2>4. d \in CardRow /\ d = [source |-> card[c].source, ref |-> card[c].ref, type |-> card[c].type, body |-> body]
    BY <2>2, <2>3, CardIs
  <2> HIDE DEF d
  <2>5. card' \in [CardIds -> CardRow] /\ card'[c] = d /\ \A e \in CardIds \ {c} : card'[e] = card[e]
    BY <2>1, <2>4, CardWritten
  <2> QED BY <1>1, <1>4, <2>1, <2>3, <2>4, <2>5 DEF Written
<1> QED BY <1>3, <1>4

\* What a deletion takes: a card of the user's and its charge.
LEMMA DeleteIs ==
  ASSUME BoardTypes, NEW r \in Slots, Finds(run[r]), deleteRewardCard(r)
  PROVE  /\ UNCHANGED <<made, final>>
         /\ \/ UNCHANGED <<card, held>> /\ Ends(r)
            \/ /\ run[r].card \in CardIds /\ card[run[r].card].source = CUSTOM /\ Moves(r, Reloads(run[r]))
               /\ card' \in [CardIds -> CardRow] /\ \A e \in CardIds \ {run[r].card} : card'[e] = card[e]
               /\ card'[run[r].card] = NoCard /\ held' = held \ {run[r].card}
<1>0. run[r] \in RequestRow /\ card \in [CardIds -> CardRow] /\ made \in 0..MaxCards
  BY StoreIs
<1> DEFINE c == run[r].card
<1>1. run[r].kind = "delete" /\ run[r].at = "found" /\ UNCHANGED <<made, final>>
  BY DEF deleteRewardCard
<1>2. c \in CardIds /\ card[c].source \in {CUSTOM, "none"}
  <2>1. c \in 1..made
    BY <1>1 DEF Finds
  <2> QED BY <1>0, <1>1, <2>1, Sizes DEF CardIds, Finds
<1>3. CASE card[c].source = "none"
  BY <1>1, <1>3 DEF deleteRewardCard
<1>4. CASE card[c].source # "none"
  <2>1. card' = [card EXCEPT ![c] = NoCard] /\ held' = held \ {c} /\ Moves(r, Reloads(run[r]))
    BY <1>1, <1>4 DEF deleteRewardCard, Released
  <2>2. card' \in [CardIds -> CardRow] /\ card'[c] = NoCard /\ \A e \in CardIds \ {c} : card'[e] = card[e]
    BY <1>2, <2>1, NoCardIs, CardWritten
  <2> QED BY <1>1, <1>2, <1>4, <2>1, <2>2
<1> QED BY <1>3, <1>4

\* The steps that write: the others leave the rows and the charges as they are.
LEMMA Writers ==
  ASSUME BoardStep
  PROVE  \/ UNCHANGED store
         \/ \E r \in Slots : \/ \E t \in run[r].todo : upsertAnchorCard(r, t)
                             \/ createRewardCard(r) \/ updateRewardCard(r) \/ deleteRewardCard(r)
                             \/ migrateGoals(r) \/ \E c \in CardIds : EncryptCard(r, c)
<1>1. CASE ConsoleStep \/ persistGeneratedPlan \/ Rotate
  BY <1>1 DEF ConsoleStep, persistGeneratedPlan, Rotate
<1>2. CASE \E r \in Slots : AskBoard(r) \/ RequestDies(r)
  BY <1>2 DEF AskBoard, RequestDies
<1>3. CASE \E r \in Slots : Board(r)
  BY <1>3 DEF Board, getRewardBoard, BoardShown, UpsertFind
<1>4. CASE \E r \in Slots : FindCard(r)
  BY <1>4 DEF FindCard
<1>5. CASE \E r \in Slots : Script(r)
  BY <1>5 DEF Script, migrateRewardCards, ScriptEnds
<1>6. CASE \E r \in Slots : createRewardCard(r) \/ updateRewardCard(r) \/ deleteRewardCard(r)
  BY <1>6
<1> QED BY <1>1, <1>2, <1>3, <1>4, <1>5, <1>6 DEF BoardStep, RewardsNext, Serves

\* How the rows change: a card stays the card of what it is, or is deleted if it is the user's;
\* ids are given out in order; and what is encrypted stays so.
Grows ==
  /\ made <= made'
  /\ \A c \in CardIds : c <= made =>
       \/ card'[c].source = card[c].source /\ card'[c].ref = card[c].ref
       \/ card[c].source \in {CUSTOM, "none"} /\ card'[c].source = "none"
  /\ \A c \in CardIds : Legible(card'[c].body) => Legible(card[c].body)
  /\ final.key # 0 => final'.key # 0
StoreKept == Grows /\ StoreTypes' /\ NeverReused' /\ HeldAreCustom'

LEMMA StillKeeps ==
  ASSUME CardsOK, UNCHANGED store PROVE StoreKept
<1>1. made \in Nat /\ StoreTypes
  BY StoreTypesNow DEF CardsOK
<1>2. card' = card /\ made' = made /\ held' = held /\ final' = final
  BY DEF store
<1>3. Grows
  BY <1>1, <1>2 DEF Grows
<1>4. StoreTypes' /\ NeverReused' /\ HeldAreCustom'
  BY <1>1, <1>2 DEF StoreTypes, NeverReused, HeldAreCustom, CardsOK
<1> QED BY <1>3, <1>4 DEF StoreKept

\* A row that is written on keeps all of it.
LEMMA WrittenKeeps ==
  ASSUME CardsOK, NEW c \in CardIds, Written(c), UNCHANGED <<made, held, final>>
  PROVE  StoreKept
<1>1. made \in Nat /\ StoreTypes
  BY StoreTypesNow DEF CardsOK
<1>2. made' = made /\ held' = held /\ final' = final
  OBVIOUS
<1>3. card' \in [CardIds -> CardRow]
  BY DEF Written
<1>4. \A e \in CardIds : card'[e].source = card[e].source /\ card'[e].ref = card[e].ref
                         /\ (Legible(card'[e].body) => Legible(card[e].body))
  BY DEF Written
<1>5. Grows
  BY <1>1, <1>2, <1>4 DEF Grows
<1>6. StoreTypes'
  BY <1>1, <1>2, <1>3 DEF StoreTypes
<1>7. NeverReused'
  <2> SUFFICES ASSUME NEW e \in CardIds
               PROVE  (e > made => card'[e] = NoCard) /\ (card'[e].source = "none" => card'[e] = NoCard)
    BY <1>2 DEF NeverReused
  <2>1. CASE e = c
    <3>1. c \in Int /\ made \in Int /\ (c > made => card[c] = NoCard)
      BY <1>1 DEF CardsOK, NeverReused, CardIds
    <3>2. ~(c > made)
      BY <3>1, NoCardHas DEF Written
    <3> QED BY <2>1, <3>1, <3>2 DEF Written
  <2>2. CASE e # c
    BY <2>2 DEF Written, CardsOK, NeverReused
  <2> QED BY <2>1, <2>2
<1>8. HeldAreCustom'
  BY <1>2, <1>4 DEF HeldAreCustom, CardsOK
<1> QED BY <1>5, <1>6, <1>7, <1>8 DEF StoreKept

\* A row with a new id.
LEMMA FreshKeeps ==
  ASSUME CardsOK, Fresh \in CardIds, made' = Fresh, UNCHANGED final,
         card' \in [CardIds -> CardRow], \A e \in CardIds \ {Fresh} : card'[e] = card[e],
         card'[Fresh].source # "none", ~Legible(card'[Fresh].body),
         held' = IF card'[Fresh].source = CUSTOM THEN held \cup {Fresh} ELSE held
  PROVE  StoreKept
<1>1. made \in Nat /\ StoreTypes
  BY StoreTypesNow DEF CardsOK
<1>2. card[Fresh] = NoCard /\ Fresh \in 0..MaxCards /\ Fresh > made /\ Fresh \notin held /\ Fresh = made + 1
      /\ 1..Fresh = 1..made \cup {Fresh}
  BY FreshIs DEF CardsOK, Fresh
<1>3. Grows
  <2>1. \A c \in CardIds : c <= made => card'[c] = card[c]
    BY <1>1, <1>2 DEF CardIds
  <2>2. \A c \in CardIds : Legible(card'[c].body) => Legible(card[c].body)
    OBVIOUS
  <2>3. made <= made' /\ final' = final
    BY <1>1, <1>2
  <2> QED BY <2>1, <2>2, <2>3 DEF Grows
<1>4. StoreTypes'
  <2>1. held' \subseteq 1..made'
    BY <1>1, <1>2 DEF StoreTypes
  <2> QED BY <1>1, <1>2, <2>1 DEF StoreTypes
<1>5. NeverReused'
  BY <1>1, <1>2, Sizes DEF NeverReused, CardsOK, CardIds
<1>6. HeldAreCustom'
  <2>1. card[Fresh].source # CUSTOM
    BY <1>2, NoCardHas DEF CUSTOM
  <2> QED BY <2>1 DEF HeldAreCustom, CardsOK
<1> QED BY <1>3, <1>4, <1>5, <1>6 DEF StoreKept

\* Every step keeps ids, charges and types, and cards change as they may.
LEMMA StoreStep ==
  ASSUME CardsOK, RequestsOK, BoardStep PROVE StoreKept
<1>0. BoardTypes /\ NeverReused
  BY DEF CardsOK
<1>1. CASE UNCHANGED store
  BY <1>1, StillKeeps
<1>2. ASSUME NEW r \in Slots, NEW t \in run[r].todo, upsertAnchorCard(r, t) PROVE StoreKept
  <2>1. held' = held /\ final' = final
    BY <1>2 DEF upsertAnchorCard
  <2>2. PICK c \in CardIds :
           /\ card' \in [CardIds -> CardRow] /\ \A e \in CardIds \ {c} : card'[e] = card[e]
           /\ card'[c].source = t.source /\ card'[c].ref = t.ref
           /\ ~Legible(card'[c].body)
           /\ \/ t.card = 0 /\ c = Fresh /\ made' = Fresh /\ card[c] = NoCard
              \/ t.card = c /\ made' = made /\ card[c].source = t.source /\ card[c].ref = t.ref
    BY <1>0, <1>2, UpsertIs DEF RequestsOK
  <2>3. t.source \in {FINAL, MILESTONE}
    BY <1>0, <1>2, StoreIs DEF RequestRow, TodoSets, Todo
  <2>4. CASE c = Fresh /\ made' = Fresh
    BY <2>1, <2>2, <2>3, <2>4, FreshKeeps DEF FINAL, MILESTONE, CUSTOM
  <2>5. CASE made' = made /\ card[c].source = t.source /\ card[c].ref = t.ref
    <3>1. Written(c)
      BY <2>2, <2>3, <2>5 DEF Written, FINAL, MILESTONE
    <3> QED BY <2>1, <2>5, <3>1, WrittenKeeps
  <2> QED BY <2>2, <2>4, <2>5
<1>3. ASSUME NEW r \in Slots, createRewardCard(r) PROVE StoreKept
  <2>1. CASE UNCHANGED store
    BY <2>1, StillKeeps
  <2>2. CASE ~UNCHANGED store
    BY <1>0, <1>3, <2>2, CreateIs, FreshKeeps DEF RequestsOK, CUSTOM
  <2> QED BY <2>1, <2>2
<1>4. ASSUME NEW r \in Slots, updateRewardCard(r) PROVE StoreKept
  <2>1. UNCHANGED <<made, held, final>> /\ (UNCHANGED card \/ (run[r].card \in CardIds /\ Written(run[r].card)))
    BY <1>0, <1>4, UpdateIs DEF RequestsOK
  <2> QED BY <2>1, StillKeeps, WrittenKeeps DEF store
<1>5. ASSUME NEW r \in Slots, NEW c \in CardIds, EncryptCard(r, c) PROVE StoreKept
  <2>1. UNCHANGED <<made, held, final>> /\ (UNCHANGED card \/ Written(c))
    BY <1>0, <1>5, EncryptCardIs DEF RequestsOK
  <2> QED BY <2>1, StillKeeps, WrittenKeeps DEF store
<1>6. ASSUME NEW r \in Slots, deleteRewardCard(r) PROVE StoreKept
  <2> DEFINE c == run[r].card
  <2>1. /\ UNCHANGED <<made, final>>
        /\ \/ UNCHANGED <<card, held>>
           \/ /\ c \in CardIds /\ card[c].source = CUSTOM
              /\ card' \in [CardIds -> CardRow] /\ \A e \in CardIds \ {c} : card'[e] = card[e]
              /\ card'[c] = NoCard /\ held' = held \ {c}
    BY <1>0, <1>6, DeleteIs DEF RequestsOK
  <2> HIDE DEF c
  <2>2. CASE UNCHANGED <<card, held>>
    BY <2>1, <2>2, StillKeeps DEF store
  <2>3. CASE ~UNCHANGED <<card, held>>
    <3>1. made \in Nat /\ StoreTypes
      BY <1>0, StoreTypesNow
    <3>2. ~Legible(card'[c].body) /\ card'[c].source = "none"
      BY <2>1, <2>3, NoCardHas
    <3>3. Grows
      BY <2>1, <2>3, <3>1, <3>2 DEF Grows
    <3>4. StoreTypes'
      BY <2>1, <2>3, <3>1 DEF StoreTypes
    <3>5. NeverReused'
      BY <1>0, <2>1, <2>3 DEF NeverReused
    <3>6. HeldAreCustom'
      BY <2>1, <2>3, <3>2 DEF HeldAreCustom, CardsOK, CUSTOM
    <3> QED BY <3>3, <3>4, <3>5, <3>6 DEF StoreKept
  <2> QED BY <2>2, <2>3
<1>7. ASSUME NEW r \in Slots, migrateGoals(r) PROVE StoreKept
  <2>1. final' = encrypt(final, run[r].version) /\ UNCHANGED <<card, made, held>> /\ run[r].kind = "script"
    BY <1>7 DEF migrateGoals
  <2>2. run[r].version \in 0..MaxKey /\ run[r].version # 0
    BY <1>0, <2>1, StoreIs DEF RequestsOK, Carries, RequestRow, Versions
  <2>3. final \in Stored /\ final.text = "trip" /\ final' \in Stored /\ final'.text = "trip" /\ ~Legible(final')
    BY <1>0, <2>1, <2>2, EncryptIs DEF BoardTypes, RewardsTypeOK
  <2>4. made \in Nat /\ StoreTypes
    BY <1>0, StoreTypesNow
  <2>5. Grows
    <3>1. final'.key # 0
      BY <2>3 DEF Legible
    <3>2. card' = card /\ made' = made
      BY <2>1
    <3> QED BY <2>4, <3>1, <3>2 DEF Grows
  <2>6. StoreTypes'
    BY <2>1, <2>3, <2>4 DEF StoreTypes
  <2>7. NeverReused' /\ HeldAreCustom'
    BY <2>1 DEF CardsOK, NeverReused, HeldAreCustom
  <2> QED BY <2>5, <2>6, <2>7 DEF StoreKept
<1> QED BY <1>1, <1>2, <1>3, <1>4, <1>5, <1>6, <1>7, Writers

-----------------------------------------------------------------------------
(* Requests.                                                                *)

\* What a request finds and encrypts, after the step.
FindsAfter(q) ==
  /\ q.kind \in {"edit", "move", "delete"} => q.card \in 1..made'
  /\ q.kind = "delete" /\ q.at = "found" => card'[q.card].source \in {CUSTOM, "none"}
  /\ \A t \in q.todo : t.card > 0 => card'[t.card].source = t.source /\ card'[t.card].ref = t.ref
EncryptsAfter(q) ==
  q.kind = "script" =>
    /\ q.at \in {"goals", "all", "some"} => final'.key # 0
    /\ q.at = "all" => \A c \in CardIds : Legible(card'[c].body) => Legible(q.rows[c].body)
GoodAfter(q) == Carries(q) /\ FindsAfter(q) /\ EncryptsAfter(q)
Good(q) == Carries(q) /\ Finds(q) /\ Encrypts(q)
Advances(r) == OnlySlot(r) /\ GoodAfter(run'[r])

LEMMA AllGood == ASSUME \A s \in Slots : GoodAfter(run'[s]) PROVE RequestsOK'
BY DEF GoodAfter, RequestsOK, FindsAfter, EncryptsAfter, Finds, Encrypts, Carries

\* A card of a request or of an anchor is still what it was.
LEMMA FindsKept ==
  ASSUME BoardTypes, NeverReused, StoreKept, NEW q \in RequestRow, NEW p \in RequestRow, Finds(q),
         p.kind = q.kind, p.card = q.card, p.todo \subseteq q.todo, p.at = "found" => q.at = "found"
  PROVE  FindsAfter(p)
<1>0. /\ made \in 0..MaxCards /\ made' \in 0..MaxCards /\ made <= made' /\ made \in Nat /\ made' \in Nat
      /\ card \in [CardIds -> CardRow] /\ card' \in [CardIds -> CardRow]
  BY StoreTypesNow, Sizes DEF StoreKept, StoreTypes, Grows
<1>1. p.kind \in {"edit", "move", "delete"} => p.card \in 1..made'
  BY <1>0 DEF Finds
<1>2. p.kind = "delete" /\ p.at = "found" => card'[p.card].source \in {CUSTOM, "none"}
  <2> SUFFICES ASSUME p.kind = "delete", p.at = "found" PROVE card'[p.card].source \in {CUSTOM, "none"}
    OBVIOUS
  <2>1. q.card \in 1..made /\ card[q.card].source \in {CUSTOM, "none"}
    BY DEF Finds
  <2>2. q.card \in CardIds /\ q.card <= made
    BY <1>0, <2>1, Sizes DEF CardIds
  <2> QED BY <2>1, <2>2 DEF StoreKept, Grows
<1>3. ASSUME NEW t \in p.todo, t.card > 0 PROVE card'[t.card].source = t.source /\ card'[t.card].ref = t.ref
  <2>1. card[t.card].source = t.source /\ card[t.card].ref = t.ref
    BY <1>3 DEF Finds
  <2>2. t.source \in {FINAL, MILESTONE} /\ t.card \in -1..MaxCards
    BY <1>3 DEF RequestRow, TodoSets, Todo
  <2>3. t.card \in CardIds
    BY <1>3, <2>2, Sizes DEF CardIds
  <2>4. ~(t.card > made)
    BY <2>1, <2>2, <2>3, NoCardHas DEF NeverReused, FINAL, MILESTONE
  <2>5. t.card <= made
    BY <1>0, <2>3, <2>4, Sizes DEF CardIds
  <2> QED BY <2>1, <2>2, <2>3, <2>5 DEF StoreKept, Grows, FINAL, MILESTONE, CUSTOM
<1> QED BY <1>1, <1>2, <1>3 DEF FindsAfter

\* So the script, which has nothing more to encrypt.
LEMMA EncryptsKept ==
  ASSUME StoreKept, NEW q, NEW p, Encrypts(q), p.kind = q.kind, p.at = q.at, p.rows = q.rows
  PROVE  EncryptsAfter(p)
BY DEF StoreKept, Grows, Encrypts, EncryptsAfter

LEMMA AlikeKept ==
  ASSUME BoardTypes, NeverReused, StoreKept, NEW q \in RequestRow, NEW p \in RequestRow, Good(q), Alike(p, q)
  PROVE  GoodAfter(p)
<1>1. FindsAfter(p)
  BY FindsKept DEF Good, Alike
<1>2. EncryptsAfter(p)
  BY EncryptsKept DEF Good, Alike
<1>3. Carries(p)
  BY DEF Good, Alike, Carries
<1> QED BY <1>1, <1>2, <1>3 DEF GoodAfter

LEMMA OthersKept ==
  ASSUME CardsOK, RequestsOK, StoreKept, NEW r \in Slots, Advances(r)
  PROVE  RequestsOK'
<1>1. ASSUME NEW s \in Slots PROVE GoodAfter(run'[s])
  <2>1. CASE s = r
    BY <2>1 DEF Advances
  <2>2. CASE s # r
    <3>1. run'[s] \in RequestRow /\ Alike(run'[s], run[s]) /\ run[s] \in RequestRow
      BY <2>2, StoreIs DEF Advances, OnlySlot, CardsOK
    <3> QED BY <3>1, AlikeKept DEF CardsOK, RequestsOK, Good
  <2> QED BY <2>1, <2>2
<1> QED BY <1>1, AllGood

\* A request that ends, or is followed by the next reading of the board, has found nothing.
LEMMA EndsGood ==
  ASSUME BoardTypes, NEW r \in Slots, Ends(r) PROVE Advances(r) /\ run'[r].at # "syncing"
<1>1. OnlySlot(r) /\ run'[r] = Idle
  BY EndsIs
<1>2. GoodAfter(Idle)
  BY IdleIs DEF Idle, GoodAfter, FindsAfter, EncryptsAfter
<1>3. Idle.at # "syncing"
  BY DEF Idle
<1> QED BY <1>1, <1>2, <1>3 DEF Advances

LEMMA ReloadsIs ==
  ASSUME BoardTypes, NEW q
  PROVE  /\ Reloads(q) \in RequestRow /\ GoodAfter(Reloads(q)) /\ Reloads(q).at # "syncing"
         /\ q.kind = "edit" => Reloads(q) = Idle
<1> DEFINE b == Request("board", 0, "TEXT", "")
<1>1. Reloads(q) \in {Idle, b} /\ (q.kind = "edit" => Reloads(q) = Idle)
  BY DEF Reloads
<1>2. b \in RequestRow /\ Carries(b) /\ b.at = "sent" /\ b.kind = "board"
  <2>1. 0 \in 0..MaxCards /\ "board" \in BoardKinds /\ "TEXT" \in Types /\ "" \in Words
    BY Sizes DEF BoardKinds, Types, Words
  <2>2. "board" \notin {"edit", "move", "delete"}
    OBVIOUS
  <2> HIDE DEF b
  <2>3. Request("board", 0, "TEXT", "") \in RequestRow
    BY <2>1, <2>2, RequestIs
  <2>4. Carries(Request("board", 0, "TEXT", ""))
    BY <2>1, <2>2, RequestIs
  <2>5. Request("board", 0, "TEXT", "").at = "sent"
    BY <2>1, <2>2, RequestIs, ZenonT(40)
  <2>6. Request("board", 0, "TEXT", "").kind = "board"
    BY DEF Request
  <2> QED BY <2>3, <2>4, <2>5, <2>6 DEF b
<1>3. b.todo = {}
  BY DEF Request
<1> HIDE DEF b
<1>4. GoodAfter(b)
  BY <1>2, <1>3 DEF GoodAfter, FindsAfter, EncryptsAfter
<1>5. GoodAfter(Idle)
  BY IdleIs DEF Idle, GoodAfter, FindsAfter, EncryptsAfter
<1>6. Idle.at # "syncing"
  BY DEF Idle
<1> QED BY <1>1, <1>2, <1>4, <1>5, <1>6, IdleIs

LEMMA ReloadsGood ==
  ASSUME BoardTypes, NEW r \in Slots, NEW c \in CardIds,
         Moves(r, Reloads(run[r])) \/ Touches(r, c, Reloads(run[r]))
  PROVE  Advances(r) /\ run'[r].at # "syncing"
<1>1. Reloads(run[r]) \in RequestRow /\ GoodAfter(Reloads(run[r])) /\ Reloads(run[r]).at # "syncing"
  BY ReloadsIs
<1> QED BY <1>1, MovesIs, TouchesIs DEF Advances


\* A board that begins carries its anchors, each still to be looked up.
LEMMA BoardGood ==
  ASSUME CardsOK, RequestsOK, NEW r \in Slots, getRewardBoard(r)
  PROVE  /\ Advances(r) /\ run'[r].at = "syncing" /\ run'[r].anchors = Anchors
         /\ \A a \in Anchors : \E t \in run'[r].todo : t.source = a.source /\ t.ref = a.ref
         /\ \A t \in run'[r].todo : t.card = -1
<1> DEFINE todo == {[source |-> a.source, ref |-> a.ref, text |-> a.text, card |-> -1] : a \in Anchors}
           q == [run[r] EXCEPT !.at = "syncing", !.anchors = Anchors, !.todo = todo]
<1>0. BoardTypes /\ run[r] \in RequestRow /\ stone.id \in Refs /\ stone.text \in Words /\ final.text = "trip"
  BY StoreIs, StoreTypesNow DEF CardsOK, StoreTypes
<1>1. run[r].kind = "board" /\ Moves(r, q) /\ run[r].version # 0
  BY DEF getRewardBoard, RequestsOK, Carries
<1>2. \A a \in Anchors : /\ a \in Anchor /\ a = [source |-> a.source, ref |-> a.ref, text |-> a.text]
                         /\ (a.source = FINAL => a = [source |-> FINAL, ref |-> 0, text |-> final.text])
                         /\ (a.source = MILESTONE => a = [source |-> MILESTONE, ref |-> stone.id, text |-> stone.text])
  <2> SUFFICES ASSUME NEW a \in Anchors
               PROVE  /\ a \in Anchor /\ a = [source |-> a.source, ref |-> a.ref, text |-> a.text]
                      /\ (a.source = FINAL => a = [source |-> FINAL, ref |-> 0, text |-> final.text])
                      /\ (a.source = MILESTONE => a = [source |-> MILESTONE, ref |-> stone.id, text |-> stone.text])
    OBVIOUS
  <2>1. \/ a = [source |-> FINAL, ref |-> 0, text |-> final.text]
        \/ a = [source |-> MILESTONE, ref |-> stone.id, text |-> stone.text]
    BY DEF Anchors, decrypt
  <2>0. 0 \in Refs
    BY Sizes DEF Refs
  <2>2. 0 \in Refs /\ final.text \in StoredTexts /\ stone.text \in StoredTexts
    BY <1>0, <2>0 DEF StoredTexts, Words
  <2>3. a \in Anchor
    BY <1>0, <2>1, <2>2 DEF Anchor
  <2> QED BY <2>1, <2>3 DEF FINAL, MILESTONE
<1>3. \A a, b \in Anchors : a.source = b.source => a = b
  BY <1>2 DEF Anchor
<1> HIDE DEF todo
<1>5. \A t \in todo : \E a \in Anchors : t = [source |-> a.source, ref |-> a.ref, text |-> a.text, card |-> -1]
  BY DEF todo
<1>6. \A a \in Anchors : [source |-> a.source, ref |-> a.ref, text |-> a.text, card |-> -1] \in todo
  BY DEF todo
<1>7. -1 \in -1..MaxCards
  BY Sizes
<1>8. todo \in TodoSets /\ Anchors \in AnchorSets
  <2>1. \A a \in Anchors : [source |-> a.source, ref |-> a.ref, text |-> a.text, card |-> -1] \in Todo
    BY <1>2, <1>7 DEF Anchor, Todo
  <2> QED BY <1>2, <1>5, <2>1 DEF TodoSets, AnchorSets
<1>9. /\ q \in RequestRow /\ q.at = "syncing" /\ q.anchors = Anchors /\ q.todo = todo /\ q.kind = run[r].kind
      /\ q.card = run[r].card /\ q.version = run[r].version /\ q.touched = run[r].touched /\ q.rows = run[r].rows
  <2>1. "syncing" \in Places
    BY DEF Places
  <2> QED BY <1>0, <1>8, <2>1 DEF RequestRow
<1> HIDE DEF q
<1>11. Carries(q)
  <2>1. \A t, v \in todo : t.source = v.source => t = v
    BY <1>3, <1>5
  <2>2. \A t \in todo : [source |-> t.source, ref |-> t.ref, text |-> t.text] \in Anchors
    <3> SUFFICES ASSUME NEW t \in todo PROVE [source |-> t.source, ref |-> t.ref, text |-> t.text] \in Anchors
      OBVIOUS
    <3>1. PICK a \in Anchors : t = [source |-> a.source, ref |-> a.ref, text |-> a.text, card |-> -1]
      BY <1>5
    <3>2. t.source = a.source /\ t.ref = a.ref /\ t.text = a.text
      BY <3>1
    <3> QED BY <1>2, <3>2
  <2>3. Carries(run[r])
    BY DEF RequestsOK
  <2> QED BY <1>1, <1>3, <1>9, <2>1, <2>2, <2>3 DEF Carries
<1>12. FindsAfter(q) /\ EncryptsAfter(q)
  <2>1. \A t \in q.todo : ~(t.card > 0)
    BY <1>9, <1>5
  <2> QED BY <1>1, <1>9, <2>1 DEF FindsAfter, EncryptsAfter
<1>13. OnlySlot(r) /\ run'[r] = q
  BY <1>0, <1>1, <1>9, MovesIs
<1>14. \A a \in Anchors : \E t \in todo : t.source = a.source /\ t.ref = a.ref
  BY <1>6
<1>15. \A t \in todo : t.card = -1
  BY <1>5
<1> QED BY <1>9, <1>11, <1>12, <1>13, <1>14, <1>15 DEF Advances, GoodAfter

\* An anchor is looked up: its card is found, or there is none.
LEMMA FindGood ==
  ASSUME CardsOK, RequestsOK, NEW r \in Slots, NEW t \in run[r].todo, UpsertFind(r, t)
  PROVE  /\ Advances(r) /\ run'[r].at = run[r].at /\ run'[r].anchors = run[r].anchors /\ run'[r].touched = run[r].touched
         /\ \E c \in CardIds \cup {0} :
              LET v == [source |-> t.source, ref |-> t.ref, text |-> t.text, card |-> c]
              IN run'[r].todo = (run[r].todo \ {t}) \cup {v} /\ (c = 0 => CardsOf(t.source, t.ref) = {})
<1>0. BoardTypes /\ run[r] \in RequestRow /\ t \in Todo /\ Good(run[r])
  BY StoreIs DEF CardsOK, RequestRow, TodoSets, RequestsOK, Good
<1>1. PICK c \in (IF CardsOf(t.source, t.ref) = {} THEN {0} ELSE CardsOf(t.source, t.ref)) :
        Moves(r, [run[r] EXCEPT !.todo = (run[r].todo \ {t}) \cup {[t EXCEPT !.card = c]}])
  BY DEF UpsertFind
<1>2. run[r].kind = "board" /\ UNCHANGED store
  BY DEF UpsertFind
<1>3. c \in CardIds \cup {0} /\ (c = 0 => CardsOf(t.source, t.ref) = {})
      /\ (c # 0 => card[c].source = t.source /\ card[c].ref = t.ref)
  <2>1. \A e \in CardsOf(t.source, t.ref) : e \in CardIds /\ card[e].source = t.source /\ card[e].ref = t.ref
    BY DEF CardsOf
  <2>2. 0 \notin CardIds
    BY Sizes DEF CardIds
  <2> QED BY <1>1, <2>1, <2>2
<1> DEFINE v == [source |-> t.source, ref |-> t.ref, text |-> t.text, card |-> c]
           todo == (run[r].todo \ {t}) \cup {v}
           q == [run[r] EXCEPT !.todo = todo]
<1>4. v = [t EXCEPT !.card = c]
  BY <1>0 DEF Todo
<1>5. Moves(r, q)
  BY <1>1, <1>4
<1>6. v \in Todo
  <2>1. c \in -1..MaxCards
    BY <1>3, Sizes DEF CardIds
  <2> QED BY <1>0, <2>1 DEF Todo
<1>7. todo \in TodoSets
  BY <1>0, <1>6 DEF RequestRow, TodoSets
<1>8. v.source = t.source /\ v.ref = t.ref /\ v.text = t.text /\ v.card = c
  OBVIOUS
<1>v. \A w \in todo : w = v \/ (w \in run[r].todo /\ w # t)
  OBVIOUS
<1> HIDE DEF v, todo
<1>9. q = [kind |-> run[r].kind, at |-> run[r].at, card |-> run[r].card, type |-> run[r].type, text |-> run[r].text,
           version |-> run[r].version, anchors |-> run[r].anchors, todo |-> todo, touched |-> run[r].touched,
           rows |-> run[r].rows]
  BY <1>0 DEF RequestRow
<1> HIDE DEF q
<1>10. q \in RequestRow
  BY <1>0, <1>7, <1>9 DEF RequestRow
<1>11. Carries(q)
  <2>1. \A x, y \in todo : x.source = y.source => x = y
    BY <1>0, <1>8, <1>v DEF Good, Carries
  <2>2. \A x \in todo : [source |-> x.source, ref |-> x.ref, text |-> x.text] \in run[r].anchors
    BY <1>0, <1>8, <1>v DEF Good, Carries
  <2>3. run[r].at = "syncing"
    BY <1>0 DEF Good, Carries
  <2> QED BY <1>0, <1>2, <1>9, <2>1, <2>2, <2>3 DEF Good, Carries
<1>12. FindsAfter(q) /\ EncryptsAfter(q)
  <2>1. card' = card
    BY <1>2 DEF store
  <2>2. \A w \in q.todo : w.card > 0 => card[w.card].source = w.source /\ card[w.card].ref = w.ref
    <3>1. \A w \in run[r].todo : w.card > 0 => card[w.card].source = w.source /\ card[w.card].ref = w.ref
      BY <1>0 DEF Good, Finds
    <3>2. v.card > 0 => card[v.card].source = v.source /\ card[v.card].ref = v.ref
      BY <1>3, <1>8
    <3> QED BY <1>9, <1>v, <3>1, <3>2
  <2> QED BY <1>2, <1>9, <2>1, <2>2 DEF FindsAfter, EncryptsAfter
<1>13. OnlySlot(r) /\ run'[r] = q
  BY <1>0, <1>5, <1>10, MovesIs
<1>14. Advances(r)
  BY <1>11, <1>12, <1>13 DEF Advances, GoodAfter
<1>15. todo = (run[r].todo \ {t}) \cup {[source |-> t.source, ref |-> t.ref, text |-> t.text, card |-> c]}
  BY DEF todo, v
<1> QED BY <1>3, <1>9, <1>13, <1>14, <1>15


\* An anchor is dealt with.
LEMMA UpsertGood ==
  ASSUME CardsOK, RequestsOK, StoreKept, NEW r \in Slots, NEW t \in run[r].todo, upsertAnchorCard(r, t)
  PROVE  /\ Advances(r) /\ run'[r].at = run[r].at /\ run'[r].anchors = run[r].anchors /\ run'[r].touched = run[r].touched
         /\ run'[r].todo = run[r].todo \ {t} /\ \A s \in Slots \ {r} : run'[s] = run[s]
<1>0. BoardTypes /\ NeverReused /\ run[r] \in RequestRow /\ Good(run[r])
  BY StoreIs DEF CardsOK, RequestsOK, Good
<1> DEFINE todo == run[r].todo \ {t}
           q == [run[r] EXCEPT !.todo = todo]
<1>1. Moves(r, q) /\ run[r].kind = "board"
  BY DEF upsertAnchorCard
<1>2. todo \in TodoSets /\ todo \subseteq run[r].todo
  BY <1>0 DEF RequestRow, TodoSets
<1> HIDE DEF todo
<1>3. /\ q \in RequestRow /\ q.at = run[r].at /\ q.anchors = run[r].anchors /\ q.todo = todo /\ q.kind = run[r].kind
      /\ q.card = run[r].card /\ q.version = run[r].version /\ q.touched = run[r].touched /\ q.rows = run[r].rows
  BY <1>0, <1>2 DEF RequestRow
<1> HIDE DEF q
<1>4. FindsAfter(q)
  BY <1>0, <1>2, <1>3, FindsKept DEF Good
<1>5. EncryptsAfter(q)
  BY <1>0, <1>3, EncryptsKept DEF Good
<1>6. Carries(q)
  BY <1>0, <1>2, <1>3 DEF Good, Carries
<1>7. OnlySlot(r) /\ run'[r] = q /\ \A s \in Slots \ {r} : run'[s] = run[s]
  BY <1>0, <1>1, <1>3, MovesIs
<1>8. q.todo = run[r].todo \ {t}
  BY <1>3 DEF todo
<1> QED BY <1>3, <1>4, <1>5, <1>6, <1>7, <1>8 DEF Advances, GoodAfter

\* A request that finds its card goes on, a deletion only with a card of the user's.
LEMMA FindCardGood ==
  ASSUME CardsOK, RequestsOK, StoreKept, NEW r \in Slots, FindCard(r)
  PROVE  Advances(r) /\ run'[r].at # "syncing"
<1>0. BoardTypes /\ NeverReused /\ run[r] \in RequestRow /\ Good(run[r])
  BY StoreIs DEF CardsOK, RequestsOK, Good
<1>1. CASE Ends(r)
  BY <1>0, <1>1, EndsGood
<1>2. CASE Goes(r, "found") /\ ~(card[run[r].card].source = "none") /\ ~(run[r].kind = "delete" /\ card[run[r].card].source # CUSTOM)
  <2> DEFINE q == [run[r] EXCEPT !.at = "found"]
  <2>1. Moves(r, q)
    BY <1>2 DEF Goes
  <2>2. "found" \in Places
    BY DEF Places
  <2>3. q \in RequestRow /\ q.at = "found" /\ q.kind = run[r].kind /\ q.card = run[r].card /\ q.version = run[r].version
        /\ q.anchors = run[r].anchors /\ q.todo = run[r].todo /\ q.rows = run[r].rows
    BY <1>0, <2>2, GoesIs
  <2> HIDE DEF q
  <2>4. run[r].kind \in {"edit", "move", "delete"} /\ run[r].at = "sent" /\ UNCHANGED store
    BY DEF FindCard
  <2>5. run[r].todo = {}
    BY <1>0, <2>4 DEF Good, Carries
  <2>6. Carries(q)
    BY <1>0, <2>3, <2>4, <2>5 DEF Good, Carries
  <2>7. FindsAfter(q)
    BY <1>0, <1>2, <2>3, <2>4, <2>5 DEF Good, Finds, FindsAfter, store
  <2>8. EncryptsAfter(q)
    BY <2>3, <2>4 DEF EncryptsAfter
  <2>9. OnlySlot(r) /\ run'[r] = q
    BY <1>0, <2>1, <2>3, MovesIs
  <2> QED BY <2>3, <2>6, <2>7, <2>8, <2>9 DEF Advances, GoodAfter
<1> QED BY <1>1, <1>2 DEF FindCard

\* The script.
LEMMA MigrateGoalsGood ==
  ASSUME CardsOK, RequestsOK, StoreKept, NEW r \in Slots, migrateGoals(r)
  PROVE  Advances(r) /\ run'[r].at # "syncing"
<1>0. BoardTypes /\ run[r] \in RequestRow /\ Good(run[r]) /\ final \in Stored /\ final.text = "trip"
  BY StoreIs, StoreTypesNow DEF CardsOK, RequestsOK, Good, StoreTypes
<1> DEFINE q == [run[r] EXCEPT !.at = "goals"]
<1>1. run[r].kind = "script" /\ run[r].at = "sent" /\ final' = encrypt(final, run[r].version) /\ Moves(r, q)
  BY DEF migrateGoals, Goes
<1>2. "goals" \in Places
  BY DEF Places
<1>3. q \in RequestRow /\ q.at = "goals" /\ q.kind = run[r].kind /\ q.card = run[r].card /\ q.version = run[r].version
      /\ q.anchors = run[r].anchors /\ q.todo = run[r].todo /\ q.rows = run[r].rows
  BY <1>0, <1>2, GoesIs
<1> HIDE DEF q
<1>4. run[r].todo = {} /\ run[r].version \in 0..MaxKey /\ run[r].version # 0
  BY <1>0, <1>1 DEF Good, Carries, RequestRow, Versions
<1>5. final'.key # 0
  <2>1. ~Legible(final') /\ final'.text = "trip"
    BY <1>0, <1>1, <1>4, EncryptIs
  <2> QED BY <2>1 DEF Legible
<1>6. Carries(q)
  BY <1>0, <1>1, <1>3, <1>4 DEF Good, Carries
<1>7. FindsAfter(q) /\ EncryptsAfter(q)
  BY <1>1, <1>3, <1>4, <1>5 DEF FindsAfter, EncryptsAfter
<1>8. OnlySlot(r) /\ run'[r] = q
  BY <1>0, <1>1, <1>3, MovesIs
<1> QED BY <1>3, <1>6, <1>7, <1>8 DEF Advances, GoodAfter

LEMMA MigrateCardsGood ==
  ASSUME CardsOK, RequestsOK, StoreKept, NEW r \in Slots, migrateRewardCards(r)
  PROVE  Advances(r) /\ run'[r].at # "syncing"
<1>0. BoardTypes /\ NeverReused /\ run[r] \in RequestRow /\ Good(run[r]) /\ card \in [CardIds -> CardRow]
  BY StoreIs DEF CardsOK, RequestsOK, Good
<1>1. PICK first \in SUBSET Rows :
        Moves(r, [run[r] EXCEPT !.at = IF first = Rows THEN "all" ELSE "some",
                                !.rows = [c \in CardIds |-> IF c \in first THEN card[c] ELSE NoCard]])
  BY DEF migrateRewardCards
<1>2. run[r].kind = "script" /\ run[r].at = "goals" /\ UNCHANGED store
  BY DEF migrateRewardCards
<1> DEFINE at == IF first = Rows THEN "all" ELSE "some"
           rows == [c \in CardIds |-> IF c \in first THEN card[c] ELSE NoCard]
           q == [run[r] EXCEPT !.at = at, !.rows = rows]
<1>3. Moves(r, q)
  BY <1>1
<1>4. at \in Places /\ at \in {"all", "some"} /\ (at = "all" => first = Rows)
  BY DEF Places
<1>5. rows \in RowsRead
  BY <1>0, NoCardIs DEF RowsRead
<1>6. \A c \in CardIds : rows[c] = IF c \in first THEN card[c] ELSE NoCard
  OBVIOUS
<1> HIDE DEF at, rows
<1>7. q \in RequestRow /\ q.at = at /\ q.kind = run[r].kind /\ q.card = run[r].card /\ q.version = run[r].version
      /\ q.anchors = run[r].anchors /\ q.todo = run[r].todo /\ q.rows = rows
  BY <1>0, <1>4, <1>5 DEF RequestRow
<1> HIDE DEF q
<1>8. run[r].todo = {}
  BY <1>0, <1>2 DEF Good, Carries
<1>9. Carries(q)
  <2>1. \A c \in CardIds : rows[c].source = "none" => rows[c] = NoCard
    BY <1>0, <1>6 DEF NeverReused
  <2>2. at # "syncing"
    BY <1>4
  <2> QED BY <1>0, <1>7, <1>8, <2>1, <2>2 DEF Good, Carries
<1>10. FindsAfter(q)
  BY <1>2, <1>7, <1>8 DEF FindsAfter
<1>11. EncryptsAfter(q)
  <2>1. final'.key # 0 /\ card' = card
    BY <1>0, <1>2 DEF Good, Encrypts, store
  <2>2. ASSUME at = "all", NEW c \in CardIds, Legible(card[c].body) PROVE Legible(rows[c].body)
    <3>1. c \in Rows
      BY <1>0, <2>2, NoCardHas DEF NeverReused, Rows
    <3> QED BY <1>4, <1>6, <2>2, <3>1
  <2> QED BY <1>7, <2>1, <2>2 DEF EncryptsAfter
<1>12. OnlySlot(r) /\ run'[r] = q
  BY <1>0, <1>3, <1>7, MovesIs
<1>13. q.at # "syncing"
  BY <1>4, <1>7
<1> QED BY <1>9, <1>10, <1>11, <1>12, <1>13 DEF Advances, GoodAfter

LEMMA EncryptCardGood ==
  ASSUME CardsOK, RequestsOK, StoreKept, NEW r \in Slots, NEW c \in CardIds, EncryptCard(r, c)
  PROVE  Advances(r) /\ run'[r].at # "syncing"
<1>0. BoardTypes /\ NeverReused /\ run[r] \in RequestRow /\ Good(run[r])
  BY StoreIs DEF CardsOK, RequestsOK, Good
<1>1. run[r].kind = "script"
  BY DEF EncryptCard
<1>2. CASE Ends(r)
  BY <1>0, <1>2, EndsGood
<1>3. CASE ~Ends(r)
  <2> DEFINE rows == [run[r].rows EXCEPT ![c] = NoCard]
             q == [run[r] EXCEPT !.rows = rows]
  <2>1. Touches(r, c, q) /\ ~Legible(card'[c].body) /\ Written(c)
    BY <1>0, <1>3, EncryptCardIs DEF Good
  <2>2. run[r].rows \in [CardIds -> CardRow]
    BY <1>0 DEF RequestRow, RowsRead
  <2>3. rows \in RowsRead /\ rows[c] = NoCard /\ \A e \in CardIds \ {c} : rows[e] = run[r].rows[e]
    BY <2>2, NoCardIs DEF RowsRead
  <2> HIDE DEF rows
  <2>4. q \in RequestRow /\ q.at = run[r].at /\ q.kind = run[r].kind /\ q.card = run[r].card /\ q.version = run[r].version
        /\ q.anchors = run[r].anchors /\ q.todo = run[r].todo /\ q.rows = rows
    BY <1>0, <2>3 DEF RequestRow
  <2> HIDE DEF q
  <2>5. run[r].todo = {} /\ run[r].at # "syncing"
    BY <1>0, <1>1 DEF Good, Carries
  <2>6. Carries(q)
    <3>1. \A e \in CardIds : rows[e].source = "none" => rows[e] = NoCard
      BY <1>0, <2>3 DEF Good, Carries
    <3> QED BY <1>0, <2>4, <2>5, <3>1 DEF Good, Carries
  <2>7. FindsAfter(q)
    BY <1>1, <2>4, <2>5 DEF FindsAfter
  <2>8. EncryptsAfter(q)
    <3>1. q.at \in {"goals", "all", "some"} => final'.key # 0
      BY <1>0, <1>1, <2>4 DEF Good, Encrypts, StoreKept, Grows
    <3>2. ASSUME q.at = "all", NEW e \in CardIds, Legible(card'[e].body) PROVE Legible(rows[e].body)
      <4>1. e # c
        BY <2>1, <3>2
      <4>2. Legible(card[e].body)
        BY <2>1, <3>2, <4>1 DEF Written
      <4>3. Legible(run[r].rows[e].body)
        BY <1>0, <1>1, <2>4, <3>2, <4>2 DEF Good, Encrypts
      <4> QED BY <2>3, <4>1, <4>3
    <3> QED BY <2>4, <3>1, <3>2 DEF EncryptsAfter
  <2>9. OnlySlot(r) /\ run'[r] = q
    BY <1>0, <2>1, <2>4, TouchesIs
  <2> QED BY <2>4, <2>5, <2>6, <2>7, <2>8, <2>9 DEF Advances, GoodAfter
<1> QED BY <1>2, <1>3

\* The ids that are given are among those there are.
LEMMA Between ==
  ASSUME NEW n \in 0..MaxCards, NEW c \in 0..n PROVE c \in 0..MaxCards /\ (c # 0 => c \in 1..n)
BY Sizes

\* A request is sent.
LEMMA AskGood ==
  ASSUME CardsOK, RequestsOK, StoreKept, NEW r \in Slots, AskBoard(r)
  PROVE  Advances(r) /\ run'[r].at # "syncing"
<1>0. BoardTypes /\ NeverReused /\ made \in 0..MaxCards
  BY StoreIs DEF CardsOK
<1>1. PICK kind \in scene.kinds \cap BoardKinds, c \in 0..made, type \in {"TEXT", "IMAGE"}, text \in Texts \cup {""} :
        Wanted(kind, c, type, text) /\ Moves(r, Request(kind, c, type, text))
  BY DEF AskBoard
<1> DEFINE q == Request(kind, c, type, text)
<1>r. c \in 0..made
  OBVIOUS
<1>w. Wanted(kind, c, type, text) /\ Moves(r, q)
  BY <1>1
<1> HIDE DEF q
<1>2. kind \in BoardKinds /\ c \in 0..MaxCards /\ type \in Types /\ text \in Words
      /\ (kind \in {"edit", "move", "delete"} => c \in 1..made)
  <2>1. kind \in BoardKinds /\ type \in Types /\ text \in Words
    BY DEF Types, Words
  <2>3. c \in 0..MaxCards /\ (c # 0 => c \in 1..made)
    BY <1>0, <1>r, Between
  <2>4. kind \in {"edit", "move", "delete"} => c # 0
    BY <1>w DEF Wanted
  <2> QED BY <2>1, <2>3, <2>4
<1>3. q \in RequestRow
  BY <1>0, <1>2, RequestIs DEF q
<1>4. Carries(q)
  BY <1>0, <1>2, RequestIs DEF q
<1>5. Finds(q)
  BY <1>0, <1>2, RequestIs DEF q
<1>6. q.at = "sent"
  BY DEF q, Request
<1>7. Moves(r, q)
  BY <1>w
<1>8. FindsAfter(q)
  BY <1>0, <1>3, <1>5, FindsKept
<1>9. EncryptsAfter(q)
  BY <1>6 DEF EncryptsAfter
<1>10. OnlySlot(r) /\ run'[r] = q
  BY <1>0, <1>3, <1>7, MovesIs
<1> QED BY <1>4, <1>6, <1>8, <1>9, <1>10 DEF Advances, GoodAfter


\* Every step keeps the requests; only the first reading of a board begins to synchronise.
RequestsStepped ==
  /\ RequestsOK'
  /\ run' \in [Slots -> RequestRow]
  /\ \A r \in Slots : Syncing(r)' => Syncing(r) \/ getRewardBoard(r)
LEMMA SlotStepped ==
  ASSUME CardsOK, RequestsOK, StoreKept, NEW r \in Slots, Advances(r), run'[r].at # "syncing" \/ run'[r].at = run[r].at
  PROVE  RequestsStepped
<1>1. \A s \in Slots \ {r} : run'[s].at = run[s].at
  BY DEF Advances, OnlySlot, Alike
<1>2. \A s \in Slots : run'[s].at = "syncing" => run[s].at = "syncing"
  BY <1>1
<1>3. RequestsOK'
  BY OthersKept
<1>4. run' \in [Slots -> RequestRow]
  BY DEF Advances, OnlySlot
<1> QED BY <1>2, <1>3, <1>4 DEF RequestsStepped, Syncing

LEMMA StillStepped ==
  ASSUME CardsOK, RequestsOK, StoreKept, UNCHANGED run PROVE RequestsStepped
<1>1. ASSUME NEW s \in Slots PROVE GoodAfter(run'[s])
  <2>1. Alike(run[s], run[s]) /\ run[s] \in RequestRow
    BY StoreIs DEF Alike, CardsOK
  <2> QED BY <2>1, AlikeKept DEF CardsOK, RequestsOK, Good
<1>2. RequestsOK'
  BY <1>1, AllGood
<1> QED BY <1>2, StoreIs DEF CardsOK, RequestsStepped, Syncing

LEMMA RequestStep ==
  ASSUME CardsOK, RequestsOK, BoardStep PROVE RequestsStepped
<1>0. StoreKept /\ BoardTypes
  BY StoreStep DEF CardsOK
<1>1. CASE ConsoleStep \/ persistGeneratedPlan \/ Rotate
  <2>1. UNCHANGED run
    BY <1>1 DEF ConsoleStep, persistGeneratedPlan, Rotate
  <2> QED BY <1>0, <2>1, StillStepped
<1>2. ASSUME NEW r \in Slots, AskBoard(r) PROVE RequestsStepped
  BY <1>0, <1>2, AskGood, SlotStepped
<1>3. ASSUME NEW r \in Slots, RequestDies(r) \/ BoardShown(r) \/ ScriptEnds(r) PROVE RequestsStepped
  <2>1. Ends(r)
    BY <1>3 DEF RequestDies, BoardShown, ScriptEnds
  <2> QED BY <1>0, <2>1, EndsGood, SlotStepped
<1>4. ASSUME NEW r \in Slots, getRewardBoard(r) PROVE RequestsStepped
  <2>1. Advances(r)
    BY <1>4, BoardGood
  <2>2. \A s \in Slots \ {r} : run'[s].at = run[s].at
    BY <2>1 DEF Advances, OnlySlot, Alike
  <2>3. \A s \in Slots : run'[s].at = "syncing" => run[s].at = "syncing" \/ getRewardBoard(s)
    BY <1>4, <2>2
  <2>4. RequestsOK' /\ run' \in [Slots -> RequestRow]
    BY <1>0, <2>1, OthersKept DEF Advances, OnlySlot
  <2> QED BY <2>3, <2>4 DEF RequestsStepped, Syncing
<1>5. ASSUME NEW r \in Slots, NEW t \in run[r].todo, UpsertFind(r, t) \/ upsertAnchorCard(r, t) PROVE RequestsStepped
  <2>1. Advances(r) /\ run'[r].at = run[r].at
    <3>1. CASE UpsertFind(r, t)
      BY <1>0, <3>1, FindGood
    <3>2. CASE upsertAnchorCard(r, t)
      BY <1>0, <3>2, UpsertGood
    <3> QED BY <1>5, <3>1, <3>2
  <2> QED BY <1>0, <2>1, SlotStepped
<1>6. ASSUME NEW r \in Slots, createRewardCard(r) PROVE RequestsStepped
  <2>1. Ends(r) \/ (Fresh \in CardIds /\ Moves(r, Reloads(run[r])))
    BY <1>0, <1>6, CreateIs DEF CardsOK, RequestsOK
  <2>2. Advances(r) /\ run'[r].at # "syncing"
    BY <1>0, <2>1, EndsGood, ReloadsGood
  <2> QED BY <1>0, <2>2, SlotStepped
<1>7. ASSUME NEW r \in Slots, FindCard(r) PROVE RequestsStepped
  BY <1>0, <1>7, FindCardGood, SlotStepped
<1>8. ASSUME NEW r \in Slots, updateRewardCard(r) PROVE RequestsStepped
  <2>1. Ends(r) \/ (run[r].card \in CardIds /\ Touches(r, run[r].card, Reloads(run[r])))
    BY <1>0, <1>8, UpdateIs DEF RequestsOK
  <2>2. Advances(r) /\ run'[r].at # "syncing"
    BY <1>0, <2>1, EndsGood, ReloadsGood
  <2> QED BY <1>0, <2>2, SlotStepped
<1>9. ASSUME NEW r \in Slots, deleteRewardCard(r) PROVE RequestsStepped
  <2>1. Ends(r) \/ (run[r].card \in CardIds /\ Moves(r, Reloads(run[r])))
    BY <1>0, <1>9, DeleteIs DEF RequestsOK
  <2>2. Advances(r) /\ run'[r].at # "syncing"
    BY <1>0, <2>1, EndsGood, ReloadsGood
  <2> QED BY <1>0, <2>2, SlotStepped
<1>10. ASSUME NEW r \in Slots, migrateGoals(r) PROVE RequestsStepped
  BY <1>0, <1>10, MigrateGoalsGood, SlotStepped
<1>11. ASSUME NEW r \in Slots, migrateRewardCards(r) PROVE RequestsStepped
  BY <1>0, <1>11, MigrateCardsGood, SlotStepped
<1>12. ASSUME NEW r \in Slots, NEW c \in CardIds, EncryptCard(r, c) PROVE RequestsStepped
  BY <1>0, <1>12, EncryptCardGood, SlotStepped
<1> QED BY <1>1, <1>2, <1>3, <1>4, <1>5, <1>6, <1>7, <1>8, <1>9, <1>10, <1>11, <1>12
        DEF BoardStep, RewardsNext, Serves, Board, Script

\* The types.
LEMMA BoardTypesStep ==
  ASSUME CardsOK, RequestsOK, BoardStep PROVE BoardTypes'
<1>1. StoreTypes' /\ run' \in [Slots -> RequestRow]
  BY StoreStep, RequestStep DEF StoreKept, RequestsStepped
<1>2. /\ entitled \in BOOLEAN /\ scene \in Scenes /\ crossed \in BOOLEAN /\ scripted \in BOOLEAN /\ asked \in Nat /\ faults \in Nat
      /\ stone \in [id : Refs, text : Texts \cup {""}] /\ plan \in {"FREE", "PRO"} /\ key \in 1..MaxKey
  BY DEF CardsOK, BoardTypes, RewardsTypeOK
<1>n. asked \in Nat /\ faults \in Nat
  BY <1>2
<1>10. /\ entitled' \in BOOLEAN /\ scene' \in Scenes /\ crossed' \in BOOLEAN /\ scripted' \in BOOLEAN /\ asked' \in Nat /\ faults' \in Nat
       /\ stone' \in [id : Refs, text : Texts \cup {""}] /\ plan' \in {"FREE", "PRO"} /\ key' \in 1..MaxKey
  <2>3. CASE ConsoleStep
    BY <1>2, <2>3 DEF ConsoleStep
  <2>4. CASE persistGeneratedPlan
    <3>1. PICK text \in Texts : stone' = [id |-> stone.id + 1, text |-> text]
      BY <2>4 DEF persistGeneratedPlan
    <3>2. stone.id \in 0..MaxPlans /\ stone.id < MaxPlans
      BY <1>2, <2>4 DEF persistGeneratedPlan, Refs
    <3>3. stone.id + 1 \in 0..MaxPlans
      BY <3>2, Sizes
    <3>4. stone' \in [id : Refs, text : Texts \cup {""}]
      BY <3>1, <3>3 DEF Refs
    <3>5. asked' = asked + 1
      BY <2>4 DEF persistGeneratedPlan
    <3>6. UNCHANGED <<scene, plan, entitled, key, crossed, scripted, faults>>
      BY <2>4 DEF persistGeneratedPlan
    <3>7. asked' \in Nat
      BY <1>n, <3>5
    <3> QED BY <1>2, <3>4, <3>6, <3>7
  <2>5. CASE Rotate
    <3>1. key' = key + 1 /\ key < MaxKey /\ key \in 1..MaxKey
      BY <1>2, <2>5 DEF Rotate
    <3>2. key' \in 1..MaxKey
      BY <3>1, Sizes
    <3>3. asked' = asked + 1
      BY <2>5 DEF Rotate
    <3>4. UNCHANGED <<scene, plan, entitled, stone, crossed, scripted, faults>>
      BY <2>5 DEF Rotate
    <3>5. asked' \in Nat
      BY <1>n, <3>3
    <3> QED BY <1>2, <3>2, <3>4, <3>5
  <2>6. CASE \E r \in Slots : AskBoard(r) \/ RequestDies(r)
    <3>0. asked' \in {asked, asked + 1} /\ faults' \in {faults, faults + 1}
      BY <2>6 DEF AskBoard, RequestDies
    <3>1. asked' \in Nat /\ faults' \in Nat
      BY <1>n, <3>0
    <3>2. UNCHANGED <<scene, plan, entitled, stone, key, crossed, scripted>>
      BY <2>6 DEF AskBoard, RequestDies
    <3> QED BY <1>2, <3>1, <3>2
  <2>7. CASE \E r \in Slots : Board(r) \/ FindCard(r)
    <3>1. UNCHANGED <<scene, stone, plan, entitled, key, asked, faults, scripted>>
      BY <2>7 DEF Board, getRewardBoard, BoardShown, UpsertFind, upsertAnchorCard, FindCard, Others
    <3>2. crossed' \in BOOLEAN
      BY <1>2, <2>7 DEF Board, getRewardBoard, BoardShown, UpsertFind, upsertAnchorCard, FindCard
    <3> QED BY <1>2, <3>1, <3>2
  <2>8. CASE \E r \in Slots : createRewardCard(r) \/ updateRewardCard(r) \/ deleteRewardCard(r)
    <3>1. UNCHANGED <<scene, stone, plan, entitled, key, asked, faults, scripted, crossed>>
      BY <2>8 DEF createRewardCard, updateRewardCard, deleteRewardCard, Others
    <3> QED BY <1>2, <3>1
  <2>9. CASE \E r \in Slots : Script(r)
    <3>1. UNCHANGED <<scene, stone, plan, entitled, key, asked, faults, crossed>>
      BY <2>9 DEF Script, migrateGoals, migrateRewardCards, ScriptEnds, EncryptCard, Others
    <3>2. scripted' \in BOOLEAN
      BY <1>2, <2>9 DEF Script, migrateGoals, migrateRewardCards, ScriptEnds, EncryptCard
    <3> QED BY <1>2, <3>1, <3>2
  <2> QED BY <2>3, <2>4, <2>5, <2>6, <2>7, <2>8, <2>9 DEF BoardStep, RewardsNext, Serves
<1>11. stone'.id \in Refs
  BY <1>10
<1> QED BY <1>1, <1>10, <1>11 DEF BoardTypes, RewardsTypeOK, StoreTypes, Refs

\* Only the end of the script that read every row says that nothing is plain.
LEMMA NoneLegibleStep ==
  ASSUME CardsOK, RequestsOK, NoneLegible, BoardStep PROVE NoneLegible'
<1>1. Grows
  BY StoreStep DEF StoreKept
<1>2. CASE scripted' = scripted
  BY <1>1, <1>2 DEF NoneLegible, Grows
<1>3. CASE \E r \in Slots : ScriptEnds(r)
  <2>1. PICK r \in Slots : ScriptEnds(r)
    BY <1>3
  <2>2. run[r].kind = "script" /\ UNCHANGED store /\ scripted' = (scripted \/ run[r].at = "all")
        /\ \A c \in CardIds : ~Legible(run[r].rows[c].body)
    BY <2>1 DEF ScriptEnds, Left
  <2>3. CASE run[r].at = "all"
    <3>1. final.key # 0 /\ \A c \in CardIds : ~Legible(card[c].body)
      BY <2>2, <2>3 DEF RequestsOK, Encrypts
    <3> QED BY <2>2, <3>1 DEF NoneLegible, store
  <2>4. CASE run[r].at # "all"
    BY <2>2, <2>4 DEF NoneLegible, store
  <2> QED BY <2>3, <2>4
<1>4. scripted' = scripted \/ \E r \in Slots : ScriptEnds(r)
  <2>1. CASE ConsoleStep \/ persistGeneratedPlan \/ Rotate
    BY <2>1 DEF ConsoleStep, persistGeneratedPlan, Rotate
  <2>2. CASE \E r \in Slots : AskBoard(r) \/ RequestDies(r)
    BY <2>2 DEF AskBoard, RequestDies
  <2>3. CASE \E r \in Slots : Board(r) \/ FindCard(r)
    BY <2>3 DEF Board, getRewardBoard, BoardShown, UpsertFind, upsertAnchorCard, FindCard
  <2>4. CASE \E r \in Slots : createRewardCard(r) \/ updateRewardCard(r) \/ deleteRewardCard(r)
    BY <2>4 DEF createRewardCard, updateRewardCard, deleteRewardCard
  <2>5. CASE \E r \in Slots : Script(r)
    BY <2>5 DEF Script, migrateGoals, migrateRewardCards, EncryptCard
  <2> QED BY <2>1, <2>2, <2>3, <2>4, <2>5 DEF BoardStep, RewardsNext, Serves
<1> QED BY <1>2, <1>3, <1>4

\* Two boards were read at once only when one begins while another is under way.
LEMMA CrossedStep ==
  ASSUME BoardStep
  PROVE  \/ crossed' = crossed
         \/ \E r \in Slots : getRewardBoard(r)
<1>1. CASE ConsoleStep \/ persistGeneratedPlan \/ Rotate
  BY <1>1 DEF ConsoleStep, persistGeneratedPlan, Rotate
<1>2. CASE \E r \in Slots : AskBoard(r) \/ RequestDies(r)
  BY <1>2 DEF AskBoard, RequestDies
<1>3. CASE \E r \in Slots : Board(r) \/ FindCard(r)
  BY <1>3 DEF Board, BoardShown, UpsertFind, upsertAnchorCard, FindCard
<1>4. CASE \E r \in Slots : createRewardCard(r) \/ updateRewardCard(r) \/ deleteRewardCard(r)
  BY <1>4 DEF createRewardCard, updateRewardCard, deleteRewardCard
<1>5. CASE \E r \in Slots : Script(r)
  BY <1>5 DEF Script, migrateGoals, migrateRewardCards, ScriptEnds, EncryptCard
<1> QED BY <1>1, <1>2, <1>3, <1>4, <1>5 DEF BoardStep, RewardsNext, Serves

\* One board at a time.
LEMMA OneBoardStep ==
  ASSUME CardsOK, RequestsOK, OneBoard, BoardStep PROVE OneBoard' /\ (~crossed' => ~crossed)
<1>1. \A r \in Slots : Syncing(r)' => Syncing(r) \/ getRewardBoard(r)
  BY RequestStep DEF RequestsStepped
<1>2. CASE \E r \in Slots : getRewardBoard(r)
  <2>1. PICK r \in Slots : getRewardBoard(r)
    BY <1>2
  <2>2. crossed' = (crossed \/ \E s \in Slots \ {r} : run[s].kind = "board" /\ run[s].at = "syncing") /\ BoardTypes
    BY <2>1 DEF getRewardBoard, CardsOK
  <2>3. ASSUME ~crossed', NEW s \in Slots, s # r PROVE run'[s].at # "syncing"
    <3>1. ~(run[s].kind = "board" /\ run[s].at = "syncing")
      BY <2>2, <2>3
    <3>2. run[s].at # "syncing"
      BY <3>1 DEF RequestsOK, Carries
    <3>3. run'[s].at = run[s].at
      BY <2>1, <2>3, BoardGood DEF Advances, OnlySlot, Alike
    <3> QED BY <3>2, <3>3
  <2> QED BY <2>2, <2>3 DEF OneBoard, Syncing
<1>3. CASE crossed' = crossed /\ ~\E r \in Slots : getRewardBoard(r)
  BY <1>1, <1>3 DEF OneBoard, Syncing
<1> QED BY <1>2, <1>3, CrossedStep

\* The cards of an anchor stay while no step makes or writes one of it.
LEMMA CardsOfKept ==
  ASSUME CardsOK, StoreKept, NEW source \in {FINAL, MILESTONE}, NEW ref,
         \A c \in CardIds : c > made => card'[c].source # source \/ card'[c].ref # ref
  PROVE  CardsOf(source, ref)' = CardsOf(source, ref)
<1>1. \A c \in CardIds : c <= made \/ c > made
  BY StoreTypesNow, Sizes DEF CardsOK, CardIds
<1>2. \A c \in CardIds : c > made => card[c].source = "none"
  BY NoCardHas DEF CardsOK, NeverReused
<1>3. source \notin {CUSTOM, "none"}
  BY DEF FINAL, MILESTONE, CUSTOM
<1>4. ASSUME NEW c \in CardIds
      PROVE  card'[c].source = source /\ card'[c].ref = ref <=> card[c].source = source /\ card[c].ref = ref
  <2>1. CASE c <= made
    BY <1>3, <2>1 DEF StoreKept, Grows
  <2>2. CASE c > made
    BY <1>2, <1>3, <2>2
  <2> QED BY <1>1, <2>1, <2>2
<1> QED BY <1>4 DEF CardsOf

\* The rows that are new, and those that are written, by the step that does it: an anchor's card is
\* made by its board alone, and a card of an anchor that is written is known to every board.
Makes(c) == card'[c].source = CUSTOM \/ \E r \in Slots : \E t \in run[r].todo :
  upsertAnchorCard(r, t) /\ t.card = 0 /\ card'[c].source = t.source /\ card'[c].ref = t.ref
NewRows == \A c \in CardIds : c > made /\ card'[c].source # "none" => Makes(c)

LEMMA NewRowsStep ==
  ASSUME CardsOK, RequestsOK, BoardStep PROVE NewRows
<1>0. BoardTypes /\ NeverReused /\ \A c \in CardIds : c > made => card[c].source = "none"
  BY NoCardHas DEF CardsOK, NeverReused
<1>1. CASE UNCHANGED card
  BY <1>0, <1>1 DEF NewRows
<1>2. ASSUME NEW r \in Slots, NEW t \in run[r].todo, upsertAnchorCard(r, t) PROVE NewRows
  <2>1. PICK c \in CardIds :
           /\ \A e \in CardIds \ {c} : card'[e] = card[e]
           /\ card'[c].source = t.source /\ card'[c].ref = t.ref
           /\ \/ t.card = 0
              \/ t.card = c /\ card[c].source = t.source
    BY <1>0, <1>2, UpsertIs DEF RequestsOK
  <2>2. t.source # "none"
    <3>1. run[r] \in RequestRow
      BY <1>0, StoreIs
    <3> QED BY <3>1 DEF RequestRow, TodoSets, Todo, FINAL, MILESTONE
  <2>3. ASSUME NEW e \in CardIds, e > made, card'[e].source # "none" PROVE Makes(e)
    <3>1. e = c /\ t.card = 0
      BY <1>0, <2>1, <2>2, <2>3
    <3> QED BY <1>2, <2>1, <3>1 DEF Makes
  <2> QED BY <2>3 DEF NewRows
<1>3. ASSUME NEW r \in Slots, createRewardCard(r) PROVE NewRows
  <2>1. CASE UNCHANGED store
    BY <1>1, <2>1 DEF store
  <2>2. CASE card'[Fresh].source = CUSTOM /\ \A e \in CardIds \ {Fresh} : card'[e] = card[e]
    BY <1>0, <2>2 DEF NewRows, Makes
  <2> QED BY <1>0, <1>3, <2>1, <2>2, CreateIs DEF RequestsOK
<1>4. ASSUME NEW c \in CardIds, Written(c) PROVE NewRows
  BY <1>0, <1>4 DEF NewRows, Written
<1>5. ASSUME NEW r \in Slots, updateRewardCard(r) PROVE NewRows
  BY <1>0, <1>1, <1>4, <1>5, UpdateIs DEF RequestsOK
<1>6. ASSUME NEW r \in Slots, deleteRewardCard(r) PROVE NewRows
  <2>1. CASE UNCHANGED card
    BY <1>1, <2>1
  <2>2. CASE card'[run[r].card] = NoCard /\ \A e \in CardIds \ {run[r].card} : card'[e] = card[e]
    BY <1>0, <2>2, NoCardHas DEF NewRows
  <2> QED BY <1>0, <1>6, <2>1, <2>2, DeleteIs DEF RequestsOK
<1>7. ASSUME NEW r \in Slots, migrateGoals(r) PROVE NewRows
  BY <1>1, <1>7 DEF migrateGoals
<1>8. ASSUME NEW r \in Slots, NEW c \in CardIds, EncryptCard(r, c) PROVE NewRows
  BY <1>0, <1>1, <1>4, <1>8, EncryptCardIs DEF RequestsOK
<1> QED BY <1>1, <1>2, <1>3, <1>5, <1>6, <1>7, <1>8, Writers DEF store

\* What becomes of the boards under way: a step of another leaves them alone, but for the cards it
\* tells them of.
Steady(s) == \/ Alike(run'[s], run[s]) \/ run'[s].at # "syncing" \/ getRewardBoard(s)
             \/ \E t \in run[s].todo : UpsertFind(s, t) \/ upsertAnchorCard(s, t)
AllSteady == \A s \in Slots : Steady(s)
LEMMA SlotBoards ==
  ASSUME NEW r \in Slots, Advances(r), Steady(r) PROVE AllSteady
BY DEF Advances, OnlySlot, Steady, AllSteady

LEMMA BoardsStep ==
  ASSUME CardsOK, RequestsOK, BoardStep PROVE AllSteady
<1>0. StoreKept /\ BoardTypes
  BY StoreStep DEF CardsOK
<1>1. ASSUME UNCHANGED run PROVE AllSteady
  BY <1>1 DEF AllSteady, Steady, Alike
<1>2. ASSUME NEW r \in Slots, Advances(r), run'[r].at # "syncing" PROVE AllSteady
  BY <1>2, SlotBoards DEF Steady
<1>3. CASE ConsoleStep \/ persistGeneratedPlan \/ Rotate
  <2>1. UNCHANGED run
    BY <1>3 DEF ConsoleStep, persistGeneratedPlan, Rotate
  <2> QED BY <1>1, <2>1
<1>4. ASSUME NEW r \in Slots, AskBoard(r) PROVE AllSteady
  BY <1>0, <1>2, <1>4, AskGood
<1>5. ASSUME NEW r \in Slots, RequestDies(r) \/ BoardShown(r) \/ ScriptEnds(r) PROVE AllSteady
  <2>1. Ends(r)
    BY <1>5 DEF RequestDies, BoardShown, ScriptEnds
  <2> QED BY <1>0, <1>2, <2>1, EndsGood
<1>6. ASSUME NEW r \in Slots, getRewardBoard(r) PROVE AllSteady
  BY <1>6, BoardGood, SlotBoards DEF Steady
<1>7. ASSUME NEW r \in Slots, NEW t \in run[r].todo, UpsertFind(r, t) PROVE AllSteady
  BY <1>7, FindGood, SlotBoards DEF Steady
<1>8. ASSUME NEW r \in Slots, NEW t \in run[r].todo, upsertAnchorCard(r, t) PROVE AllSteady
  BY <1>0, <1>8, UpsertGood, SlotBoards DEF Steady
<1>9. ASSUME NEW r \in Slots, createRewardCard(r) PROVE AllSteady
  <2>1. Ends(r) \/ (Fresh \in CardIds /\ Moves(r, Reloads(run[r])))
    BY <1>0, <1>9, CreateIs DEF CardsOK, RequestsOK
  <2> QED BY <1>0, <1>2, <2>1, EndsGood, ReloadsGood
<1>10. ASSUME NEW r \in Slots, FindCard(r) PROVE AllSteady
  BY <1>0, <1>2, <1>10, FindCardGood
<1>11. ASSUME NEW r \in Slots, updateRewardCard(r) PROVE AllSteady
  <2>1. Ends(r) \/ (run[r].card \in CardIds /\ Touches(r, run[r].card, Reloads(run[r])))
    BY <1>0, <1>11, UpdateIs DEF RequestsOK
  <2> QED BY <1>0, <1>2, <2>1, EndsGood, ReloadsGood
<1>12. ASSUME NEW r \in Slots, deleteRewardCard(r) PROVE AllSteady
  <2>1. Ends(r) \/ (run[r].card \in CardIds /\ Moves(r, Reloads(run[r])))
    BY <1>0, <1>12, DeleteIs DEF RequestsOK
  <2> QED BY <1>0, <1>2, <2>1, EndsGood, ReloadsGood
<1>13. ASSUME NEW r \in Slots, migrateGoals(r) PROVE AllSteady
  BY <1>0, <1>2, <1>13, MigrateGoalsGood
<1>14. ASSUME NEW r \in Slots, migrateRewardCards(r) PROVE AllSteady
  BY <1>0, <1>2, <1>14, MigrateCardsGood
<1>15. ASSUME NEW r \in Slots, NEW c \in CardIds, EncryptCard(r, c) PROVE AllSteady
  BY <1>0, <1>2, <1>15, EncryptCardGood
<1> QED
  BY <1>3, <1>4, <1>5, <1>6, <1>7, <1>8, <1>9, <1>10, <1>11, <1>12, <1>13, <1>14, <1>15
     DEF BoardStep, RewardsNext, Serves, Board, Script

\* The cards of an anchor: as they were, or one is made where there was none.
LEMMA AnchorCards ==
  ASSUME CardsOK, RequestsOK, NewIsNew, BoardStep, ~crossed, NEW source \in {FINAL, MILESTONE}, NEW ref
  PROVE  \/ CardsOf(source, ref)' = CardsOf(source, ref)
         \/ /\ CardsOf(source, ref) = {} /\ Fresh \in CardIds /\ CardsOf(source, ref)' = {Fresh}
            /\ \E r \in Slots : \E t \in run[r].todo :
                 upsertAnchorCard(r, t) /\ t.card = 0 /\ t.source = source /\ t.ref = ref
<1>0. StoreKept /\ NewRows /\ BoardTypes /\ NeverReused
  BY StoreStep, NewRowsStep DEF CardsOK
<1>1. CASE \A c \in CardIds : c > made => card'[c].source # source \/ card'[c].ref # ref
  BY <1>0, <1>1, CardsOfKept
<1>2. CASE \E c \in CardIds : c > made /\ card'[c].source = source /\ card'[c].ref = ref
  <2>1. PICK d \in CardIds : d > made /\ card'[d].source = source /\ card'[d].ref = ref
    BY <1>2
  <2>2. source \notin {CUSTOM, "none"}
    BY DEF FINAL, MILESTONE, CUSTOM
  <2>3. PICK r \in Slots : \E t \in run[r].todo :
          upsertAnchorCard(r, t) /\ t.card = 0 /\ t.source = source /\ t.ref = ref
    BY <1>0, <2>1, <2>2 DEF NewRows, Makes
  <2>t. PICK t \in run[r].todo : upsertAnchorCard(r, t) /\ t.card = 0 /\ t.source = source /\ t.ref = ref
    BY <2>3
  <2>4. CardsOf(source, ref) = {}
    BY <2>t DEF NewIsNew
  <2>5. 0 \notin CardIds
    BY Sizes DEF CardIds
  <2>6. /\ Fresh \in CardIds /\ \A e \in CardIds \ {Fresh} : card'[e] = card[e]
        /\ card'[Fresh].source = source /\ card'[Fresh].ref = ref
    BY <1>0, <2>t, <2>5, UpsertIs DEF RequestsOK
  <2>7. CardsOf(source, ref)' = {Fresh}
    BY <2>4, <2>6 DEF CardsOf
  <2> QED BY <2>3, <2>4, <2>6, <2>7
<1> QED BY <1>1, <1>2

\* So each has one card.
OneEach == \A source \in {FINAL, MILESTONE} : \A ref : \A c, d \in CardsOf(source, ref) : c = d
LEMMA OneCardIs == OneCard <=> (~crossed => OneEach)
BY DEF OneCard, OneEach, CardsOf

LEMMA OneCardStep ==
  ASSUME CardsOK, RequestsOK, OneBoard, OneCard, NewIsNew, BoardStep PROVE OneCard'
<1> SUFFICES ASSUME ~crossed' PROVE OneEach'
  BY DEF OneCard, OneEach, CardsOf
<1>1. ~crossed
  BY OneBoardStep
<1>2. OneEach
  BY <1>1, OneCardIs
<1>3. ASSUME NEW source \in {FINAL, MILESTONE}, NEW ref
      PROVE  \A c, d \in CardsOf(source, ref)' : c = d
  BY <1>1, <1>2, AnchorCards DEF OneEach
<1> QED BY <1>3 DEF OneEach

\* What is still to be looked up or made of a board: its own, or what it has just looked up.
LEMMA TodoStep ==
  ASSUME CardsOK, RequestsOK, BoardStep, NEW r \in Slots, NEW t \in run'[r].todo
  PROVE  \/ t \in run[r].todo /\ ~upsertAnchorCard(r, t)
         \/ t.card = -1
         \/ UNCHANGED store /\ (t.card = 0 => CardsOf(t.source, t.ref) = {})
<1>0. StoreKept /\ Steady(r) /\ run[r] \in RequestRow /\ BoardTypes
  BY StoreStep, BoardsStep, StoreIs DEF AllSteady, CardsOK
<1>1. ASSUME upsertAnchorCard(r, t), t \in run[r].todo PROVE FALSE
  BY <1>0, <1>1, UpsertGood
<1>2. CASE Alike(run'[r], run[r])
  BY <1>1, <1>2 DEF Alike
<1>3. CASE run'[r].at # "syncing"
  BY <1>3, RequestStep DEF RequestsStepped, RequestsOK, Carries
<1>4. CASE getRewardBoard(r)
  BY <1>4, BoardGood
<1>5. ASSUME NEW u \in run[r].todo, UpsertFind(r, u)
      PROVE  t \in run[r].todo \/ (UNCHANGED store /\ (t.card = 0 => CardsOf(t.source, t.ref) = {}))
  <2>1. UNCHANGED store
    BY <1>5 DEF UpsertFind
  <2>2. PICK c \in CardIds \cup {0} :
          /\ run'[r].todo = (run[r].todo \ {u})
                            \cup {[source |-> u.source, ref |-> u.ref, text |-> u.text, card |-> c]}
          /\ c = 0 => CardsOf(u.source, u.ref) = {}
    BY <1>5, FindGood
  <2>3. CASE t = [source |-> u.source, ref |-> u.ref, text |-> u.text, card |-> c]
    <3>1. t.source = u.source /\ t.ref = u.ref /\ t.card = c
      BY <2>3
    <3> QED BY <2>1, <2>2, <3>1
  <2>4. CASE t \in run[r].todo
    BY <2>4
  <2> QED BY <2>2, <2>3, <2>4
<1>6. ASSUME NEW u \in run[r].todo, upsertAnchorCard(r, u) PROVE t \in run[r].todo
  BY <1>0, <1>6, UpsertGood
<1> QED BY <1>0, <1>1, <1>2, <1>3, <1>4, <1>5, <1>6 DEF Steady

\* A board that is to make a card finds none when it does.
LEMMA NewIsNewStep ==
  ASSUME CardsOK, RequestsOK, OneBoard, NewIsNew, BoardStep PROVE NewIsNew'
<1> SUFFICES ASSUME ~crossed', NEW r \in Slots, NEW t \in run'[r].todo, t.card = 0
             PROVE  CardsOf(t.source, t.ref)' = {}
  BY DEF NewIsNew, CardsOf
<1>1. ~crossed /\ StoreKept /\ BoardTypes
  BY OneBoardStep, StoreStep DEF CardsOK
<1>2. CASE t \in run[r].todo /\ ~upsertAnchorCard(r, t)
  <2>1. CardsOf(t.source, t.ref) = {} /\ Syncing(r)
    BY <1>1, <1>2 DEF NewIsNew, RequestsOK, Carries, Syncing
  <2>2. t.source \in {FINAL, MILESTONE}
    BY <1>1, <1>2, StoreIs DEF RequestRow, TodoSets, Todo
  <2>3. ASSUME NEW s \in Slots, NEW u \in run[s].todo, upsertAnchorCard(s, u), u.source = t.source PROVE FALSE
    <3>1. Syncing(s)
      BY <2>3 DEF RequestsOK, Carries, Syncing
    <3>2. s = r
      BY <1>1, <2>1, <3>1 DEF OneBoard
    <3>3. u = t
      BY <1>2, <2>3, <3>2 DEF RequestsOK, Carries
    <3> QED BY <1>2, <2>3, <3>2, <3>3
  <2> QED BY <1>1, <2>1, <2>2, <2>3, AnchorCards
<1>3. CASE UNCHANGED store /\ CardsOf(t.source, t.ref) = {}
  BY <1>3 DEF store, CardsOf
<1> QED BY <1>2, <1>3, TodoStep

\* Who writes on the card of an anchor: its board, or somebody who tells the boards under way.
LEMMA TextKept ==
  ASSUME CardsOK, RequestsOK, BoardStep, NEW c \in CardIds, card[c].source \in {FINAL, MILESTONE}
  PROVE  \/ card'[c].body.text = card[c].body.text
         \/ \A s \in Slots : run[s].kind = "board" /\ Alike(run'[s], run[s]) => c \in run'[s].touched
         \/ \E r \in Slots : \E t \in run[r].todo : upsertAnchorCard(r, t) /\ t.card = c
<1>0. BoardTypes /\ NeverReused /\ card[c] # NoCard /\ card[c].source \notin {"none", CUSTOM}
  BY NoCardHas DEF CardsOK, FINAL, MILESTONE, CUSTOM
<1> DEFINE Kept == card'[c].body.text = card[c].body.text
           Told == \A s \in Slots : run[s].kind = "board" /\ Alike(run'[s], run[s]) => c \in run'[s].touched
<1>1. CASE UNCHANGED card
  BY <1>1
<1>2. ASSUME NEW r \in Slots, NEW t \in run[r].todo, upsertAnchorCard(r, t) PROVE Kept \/ t.card = c
  <2>1. PICK d \in CardIds :
           /\ \A e \in CardIds \ {d} : card'[e] = card[e]
           /\ card[d] = NoCard \/ t.card = d
    BY <1>0, <1>2, UpsertIs DEF RequestsOK
  <2> QED BY <1>0, <2>1
<1>3. ASSUME NEW r \in Slots, createRewardCard(r) PROVE Kept
  BY <1>0, <1>3, CreateIs, FreshIs DEF RequestsOK, store
<1>4. ASSUME NEW r \in Slots, run[r].kind # "board", NEW d \in CardIds, NEW q \in RequestRow, Written(d), Touches(r, d, q)
      PROVE  Kept \/ Told
  <2>1. CASE d = c
    <3>1. \A s \in Slots \ {r} : run[s].kind = "board" => c \in run'[s].touched
      BY <1>0, <1>4, <2>1, TouchesIs
    <3> QED BY <1>4, <3>1
  <2>2. CASE d # c
    BY <1>4, <2>2 DEF Written
  <2> QED BY <2>1, <2>2
<1>5. ASSUME NEW r \in Slots, updateRewardCard(r) PROVE Kept \/ Told
  <2>1. UNCHANGED card \/ (run[r].card \in CardIds /\ Written(run[r].card) /\ Touches(r, run[r].card, Reloads(run[r])))
    BY <1>0, <1>5, UpdateIs DEF RequestsOK
  <2>2. run[r].kind # "board" /\ Reloads(run[r]) \in RequestRow
    BY <1>0, <1>5, ReloadsIs DEF updateRewardCard
  <2> QED BY <1>1, <1>4, <2>1, <2>2
<1>6. ASSUME NEW r \in Slots, deleteRewardCard(r) PROVE Kept
  BY <1>0, <1>6, DeleteIs DEF RequestsOK
<1>7. ASSUME NEW r \in Slots, migrateGoals(r) PROVE Kept
  BY <1>7 DEF migrateGoals
<1>8. ASSUME NEW r \in Slots, NEW d \in CardIds, EncryptCard(r, d) PROVE Kept \/ Told
  <2> DEFINE q == [run[r] EXCEPT !.rows = [@ EXCEPT ![d] = NoCard]]
  <2>1. UNCHANGED card \/ (Written(d) /\ Touches(r, d, q))
    BY <1>0, <1>8, EncryptCardIs DEF RequestsOK
  <2>2. q \in RequestRow
    <3>1. run[r] \in RequestRow
      BY <1>0, StoreIs
    <3>2. run[r].rows \in [CardIds -> CardRow]
      BY <3>1 DEF RequestRow, RowsRead
    <3>3. [run[r].rows EXCEPT ![d] = NoCard] \in RowsRead
      BY <3>2, NoCardIs DEF RowsRead
    <3> QED BY <3>1, <3>3 DEF RequestRow
  <2>3. run[r].kind # "board"
    BY <1>8 DEF EncryptCard
  <2> HIDE DEF q
  <2> QED BY <1>1, <1>4, <2>1, <2>2, <2>3
<1> QED BY <1>1, <1>2, <1>3, <1>5, <1>6, <1>7, <1>8, Writers DEF store

\* An anchor that is settled stays so while the board is left alone.
LEMMA SettledKept ==
  ASSUME CardsOK, RequestsOK, OneBoard, NewIsNew, BoardStep, ~crossed, NEW r \in Slots, Syncing(r),
         Alike(run'[r], run[r]), NEW a, a.source \in {FINAL, MILESTONE}, Settled(r, a)
  PROVE  Settled(r, a)'
<1>1. PICK c \in CardIds : CardsOf(a.source, a.ref) = {c} /\ (c \in run[r].touched \/ card[c].body.text = a.text)
  BY DEF Settled
<1>2. card[c].source = a.source
  BY <1>1 DEF CardsOf
<1>3. CardsOf(a.source, a.ref)' = {c}
  BY <1>1, AnchorCards
<1>4. run[r].touched \subseteq run'[r].touched /\ run'[r].todo = run[r].todo /\ run[r].kind = "board"
  BY DEF Alike, RequestsOK, Carries, Syncing
<1>5. c \in run'[r].touched \/ card'[c].body.text = a.text
  <2>1. CASE card'[c].body.text = card[c].body.text
    BY <1>1, <1>4, <2>1
  <2>2. CASE \A s \in Slots : run[s].kind = "board" /\ Alike(run'[s], run[s]) => c \in run'[s].touched
    BY <1>4, <2>2
  <2>3. ASSUME NEW s \in Slots, NEW t \in run[s].todo, upsertAnchorCard(s, t) PROVE FALSE
    <3>1. Syncing(s)
      BY <2>3 DEF RequestsOK, Carries, Syncing
    <3>2. s = r
      BY <3>1 DEF OneBoard
    <3>3. StoreKept
      BY StoreStep
    <3>4. run'[r].todo = run[r].todo \ {t}
      BY <2>3, <3>2, <3>3, UpsertGood
    <3> QED BY <1>4, <2>3, <3>2, <3>4
  <2> QED BY <1>2, <2>1, <2>2, <2>3, TextKept
<1> QED BY <1>3, <1>5 DEF Settled, CardsOf

\* A board that has dealt with an anchor has it settled, and the others as they were.
LEMMA SettledUpsert ==
  ASSUME CardsOK, RequestsOK, OneBoard, OneCard, NewIsNew, Shows, BoardStep, ~crossed, NEW r \in Slots,
         NEW t \in run[r].todo, upsertAnchorCard(r, t), NEW a \in run[r].anchors
  PROVE  Waits(r, a)' \/ Settled(r, a)'
<1>0. StoreKept /\ BoardTypes /\ NeverReused /\ run[r] \in RequestRow
  BY StoreStep, StoreIs DEF CardsOK
<1>1. t.source \in {FINAL, MILESTONE} /\ a.source \in {FINAL, MILESTONE} /\ Syncing(r)
  BY <1>0 DEF RequestRow, TodoSets, Todo, AnchorSets, Anchor, RequestsOK, Carries, Syncing
<1>2. PICK c \in CardIds :
        /\ \A e \in CardIds \ {c} : card'[e] = card[e]
        /\ card'[c].source = t.source /\ card'[c].ref = t.ref /\ card'[c].body.text = t.text
        /\ \/ t.card = 0 /\ card[c] = NoCard
           \/ t.card = c /\ card[c].source = t.source /\ card[c].ref = t.ref
  BY <1>0, UpsertIs DEF RequestsOK
<1>3. run'[r].todo = run[r].todo \ {t} /\ run'[r].touched = run[r].touched
  BY <1>0, UpsertGood
<1>4. CASE a.source = t.source
  <2>1. a = [source |-> t.source, ref |-> t.ref, text |-> t.text]
    BY <1>4 DEF RequestsOK, Carries
  <2>2. a.ref = t.ref /\ a.text = t.text
    BY <2>1
  <2>3. CardsOf(t.source, t.ref)' = {c}
    <3>1. c \in CardsOf(t.source, t.ref)'
      BY <1>2 DEF CardsOf
    <3>2. OneEach'
      <4>1. OneCard' /\ (crossed' = crossed \/ \E s \in Slots : getRewardBoard(s))
        BY OneCardStep, CrossedStep
      <4>2. crossed' = crossed
        BY DEF upsertAnchorCard
      <4> QED BY <4>1, <4>2 DEF OneCard, OneEach, CardsOf
    <3> QED BY <1>1, <3>1, <3>2 DEF OneEach
  <2> QED BY <1>2, <1>4, <2>2, <2>3 DEF Settled, CardsOf
<1>5. CASE a.source # t.source
  <2>1. CASE Waits(r, a)
    BY <1>3, <1>5, <2>1 DEF Waits
  <2>2. CASE Settled(r, a)
    <3>1. PICK d \in CardIds : CardsOf(a.source, a.ref) = {d} /\ (d \in run[r].touched \/ card[d].body.text = a.text)
      BY <2>2 DEF Settled
    <3>2. card[d].source = a.source
      BY <3>1 DEF CardsOf
    <3>3. d # c
      BY <1>1, <1>2, <1>5, <3>2, NoCardHas DEF FINAL, MILESTONE
    <3>4. CardsOf(a.source, a.ref)' = {d}
      BY <3>1, <1>1, AnchorCards
    <3> QED BY <1>2, <1>3, <3>1, <3>3, <3>4 DEF Settled, CardsOf
  <2> QED BY <1>1, <2>1, <2>2 DEF Shows
<1> QED BY <1>4, <1>5

\* A board that is under way waits for an anchor's card or has settled it.
LEMMA ShowsStep ==
  ASSUME CardsOK, RequestsOK, OneBoard, OneCard, NewIsNew, Shows, BoardStep PROVE Shows'
<1> SUFFICES ASSUME ~crossed', NEW r \in Slots, Syncing(r)', NEW a \in run'[r].anchors
             PROVE  Waits(r, a)' \/ Settled(r, a)'
  BY DEF Shows
<1>1. ~crossed /\ StoreKept /\ Steady(r) /\ run[r] \in RequestRow
  BY OneBoardStep, StoreStep, BoardsStep, StoreIs DEF AllSteady, CardsOK
<1>2. CASE Alike(run'[r], run[r])
  <2>1. Syncing(r) /\ a \in run[r].anchors /\ run'[r].todo = run[r].todo
    BY <1>2 DEF Alike, Syncing
  <2>2. CASE Waits(r, a)
    BY <2>1, <2>2 DEF Waits
  <2>3. CASE Settled(r, a)
    <3>1. a.source \in {FINAL, MILESTONE}
      BY <1>1, <2>1 DEF RequestRow, AnchorSets, Anchor
    <3> QED BY <1>1, <1>2, <2>1, <2>3, <3>1, SettledKept
  <2> QED BY <1>1, <2>1, <2>2, <2>3 DEF Shows
<1>3. CASE run'[r].at # "syncing"
  BY <1>3 DEF Syncing
<1>4. CASE getRewardBoard(r)
  <2>1. \E t \in run'[r].todo : t.source = a.source /\ t.ref = a.ref
    BY <1>4, BoardGood
  <2> QED BY <2>1 DEF Waits
<1>5. ASSUME NEW t \in run[r].todo, UpsertFind(r, t) PROVE Waits(r, a)' \/ Settled(r, a)'
  <2>1. run'[r].at = run[r].at /\ run'[r].anchors = run[r].anchors /\ run'[r].touched = run[r].touched /\ UNCHANGED store
    BY <1>5, FindGood DEF UpsertFind
  <2>2. Syncing(r) /\ a \in run[r].anchors
    BY <2>1 DEF Syncing
  <2>3. CASE Waits(r, a)
    <3>1. PICK c \in CardIds \cup {0} :
            run'[r].todo = (run[r].todo \ {t}) \cup {[source |-> t.source, ref |-> t.ref, text |-> t.text, card |-> c]}
      BY <1>5, FindGood
    <3>2. PICK u \in run[r].todo : u.source = a.source /\ u.ref = a.ref
      BY <2>3 DEF Waits
    <3>3. CASE u # t
      BY <3>1, <3>2, <3>3 DEF Waits
    <3>4. CASE u = t
      <4> DEFINE v == [source |-> t.source, ref |-> t.ref, text |-> t.text, card |-> c]
      <4>1. v \in run'[r].todo /\ v.source = t.source /\ v.ref = t.ref
        BY <3>1
      <4> HIDE DEF v
      <4> QED BY <3>2, <3>4, <4>1 DEF Waits
    <3> QED BY <3>3, <3>4
  <2>4. CASE Settled(r, a)
    BY <2>1, <2>4 DEF Settled, CardsOf, store
  <2> QED BY <1>1, <2>2, <2>3, <2>4 DEF Shows
<1>6. ASSUME NEW t \in run[r].todo, upsertAnchorCard(r, t) PROVE Waits(r, a)' \/ Settled(r, a)'
  <2>1. run'[r].anchors = run[r].anchors
    BY <1>1, <1>6, UpsertGood
  <2> QED BY <1>1, <1>6, <2>1, SettledUpsert
<1> QED BY <1>1, <1>2, <1>3, <1>4, <1>5, <1>6 DEF Steady

\* A step of the board or of the console keeps the board.
LEMMA BoardInvStep ==
  ASSUME BoardInv, BoardStep PROVE BoardInv'
<1>1. StoreKept /\ RequestsOK' /\ BoardTypes'
  BY StoreStep, RequestStep, BoardTypesStep DEF BoardInv, RequestsStepped
<1>2. CardsOK'
  BY <1>1 DEF StoreKept, CardsOK
<1>3. NoneLegible' /\ OneBoard' /\ OneCard'
  BY NoneLegibleStep, OneBoardStep, OneCardStep DEF BoardInv
<1>4. NewIsNew' /\ Shows'
  BY NewIsNewStep, ShowsStep DEF BoardInv
<1> QED BY <1>1, <1>2, <1>3, <1>4 DEF BoardInv

\* The rows a behaviour begins with.
LEMMA BeginsWith ==
  ASSUME RewardsInit
  PROVE  /\ made \in 0..MaxCards /\ held = {c \in 1..made : card[c].source = CUSTOM}
         /\ card \in [CardIds -> CardRow]
         /\ \A c \in CardIds : (c \in 1..made => card[c].source # "none") /\ (c \notin 1..made => card[c] = NoCard)
         /\ \A c, d \in 1..made : c # d /\ card[c].source # CUSTOM =>
              card[c].source # card[d].source \/ card[c].ref # card[d].ref
<1>1. Beginning(scene)
  BY ScenesAssumption DEF RewardsInit
<1>2. PICK n \in 0..MaxCards : scene.cards \in [1..n -> CardRow]
  BY <1>1 DEF Beginning
<1>3. n \in Nat /\ n <= MaxCards /\ 1..n \subseteq CardIds
  BY <1>2, Sizes DEF CardIds
<1>4. DOMAIN scene.cards = 1..n
  BY <1>2
<1>5. made = n
  <2>1. made = Cardinality(1..n)
    BY <1>4 DEF RewardsInit
  <2>2. Cardinality(1..n) = n
    BY <1>3, FS_Interval
  <2> QED BY <2>1, <2>2
<1>6. card = [c \in CardIds |-> IF c \in 1..n THEN scene.cards[c] ELSE NoCard]
  BY <1>4 DEF RewardsInit
<1>7. card \in [CardIds -> CardRow]
  BY <1>2, <1>6, NoCardIs
<1>8. \A c \in CardIds : (c \in 1..n => card[c] = scene.cards[c]) /\ (c \notin 1..n => card[c] = NoCard)
  BY <1>6
<1>9. \A c, d \in 1..n : scene.cards[c].source # "none" /\
        (c # d /\ scene.cards[c].source # CUSTOM =>
           scene.cards[c].source # scene.cards[d].source \/ scene.cards[c].ref # scene.cards[d].ref)
  BY <1>1, <1>4 DEF Beginning
<1>10. held = {c \in 1..n : scene.cards[c].source = CUSTOM}
  BY <1>4 DEF RewardsInit
<1>11. held = {c \in 1..made : card[c].source = CUSTOM}
  BY <1>3, <1>5, <1>8, <1>10
<1>12. made \in 0..MaxCards
  BY <1>2, <1>5
<1>13. \A c \in CardIds : (c \in 1..made => card[c].source # "none") /\ (c \notin 1..made => card[c] = NoCard)
  BY <1>5, <1>8, <1>9
<1>14. \A c, d \in 1..made : c # d /\ card[c].source # CUSTOM =>
         card[c].source # card[d].source \/ card[c].ref # card[d].ref
  BY <1>3, <1>5, <1>8, <1>9
<1> QED BY <1>7, <1>11, <1>12, <1>13, <1>14

\* The board at the beginning.
LEMMA BoardInvInit == ASSUME RewardsInit PROVE BoardInv
<1>1. /\ scene \in Scenes /\ final = Plain("trip") /\ stone = [id |-> 0, text |-> ""] /\ plan = "FREE" /\ key = 1
      /\ entitled = FALSE
      /\ run = [r \in Slots |-> Idle] /\ crossed = FALSE /\ scripted = FALSE /\ asked = 0 /\ faults = 0
  BY DEF RewardsInit
<1>2. made \in 0..MaxCards /\ held = {c \in 1..made : card[c].source = CUSTOM} /\ card \in [CardIds -> CardRow]
  BY BeginsWith
<1>3. run \in [Slots -> RequestRow] /\ \A r \in Slots : run[r] = Idle
  BY <1>1, IdleIs
<1>4. BoardTypes
  <2>1. final \in Stored /\ final.text = "trip"
    BY <1>1, PlainIs DEF StoredTexts
  <2>2. 0 \in Refs /\ 1 \in 1..MaxKey
    BY Sizes DEF Refs
  <2>3. stone \in [id : Refs, text : Texts \cup {""}] /\ stone.id \in Refs
    BY <1>1, <2>2
  <2>4. crossed \in BOOLEAN /\ scripted \in BOOLEAN
    BY <1>1
  <2>5. asked \in Nat /\ faults \in Nat
    BY <1>1
  <2>6. held \subseteq 1..made /\ plan \in {"FREE", "PRO"} /\ entitled \in BOOLEAN /\ key \in 1..MaxKey
    BY <1>1, <1>2, <2>2
  <2>7. RewardsTypeOK
    BY <1>2, <2>1, <2>3, <2>6 DEF RewardsTypeOK, Refs
  <2> QED BY <1>1, <1>3, <2>1, <2>3, <2>4, <2>5, <2>7 DEF BoardTypes
<1>5. NeverReused
  <2>1. \A c \in CardIds : c > made => c \notin 1..made
    BY <1>2, Sizes DEF CardIds
  <2> QED BY <2>1, BeginsWith DEF NeverReused
<1>6. HeldAreCustom
  <2>1. 1..made \subseteq CardIds
    BY <1>2, Sizes DEF CardIds
  <2>2. \A c \in CardIds : c \notin 1..made => card[c].source # CUSTOM
    BY BeginsWith, NoCardHas DEF CUSTOM
  <2> QED BY <1>2, <2>1, <2>2 DEF HeldAreCustom
<1>7. RequestsOK
  BY <1>3, IdleIs DEF RequestsOK
<1>8. NoneLegible
  BY <1>1 DEF NoneLegible
<1>9. OneBoard /\ NewIsNew /\ Shows
  <2>1. Idle.at # "syncing" /\ Idle.todo = {}
    BY DEF Idle
  <2>2. \A r \in Slots : run[r].at # "syncing" /\ run[r].todo = {}
    BY <1>3, <2>1
  <2>3. OneBoard /\ Shows
    BY <2>2 DEF OneBoard, Shows, Syncing
  <2>4. NewIsNew
    BY <2>2 DEF NewIsNew
  <2> QED BY <2>3, <2>4
<1>10. OneCard
  <2>1. ASSUME NEW c \in CardIds, NEW d \in CardIds, c # d, card[c].source \in {FINAL, MILESTONE}
        PROVE  card[c].source # card[d].source \/ card[c].ref # card[d].ref
    <3>1. c \in 1..made /\ card[c].source # CUSTOM /\ card[c].source # "none"
      BY <2>1, BeginsWith, NoCardHas DEF FINAL, MILESTONE, CUSTOM
    <3>2. CASE d \in 1..made
      BY <2>1, <3>1, <3>2, BeginsWith
    <3>3. CASE d \notin 1..made
      BY <3>1, <3>3, BeginsWith, NoCardHas
    <3> QED BY <3>2, <3>3
  <2> QED BY <2>1 DEF OneCard
<1> QED BY <1>4, <1>5, <1>6, <1>7, <1>8, <1>9, <1>10 DEF BoardInv, CardsOK

\* It says what the run checks of the cards.
LEMMA BoardInvAgrees == ASSUME BoardInv PROVE CardsAgree
<1>1. RewardsTypeOK /\ {c \in CardIds : card[c].source = CUSTOM} = held
  BY DEF BoardInv, CardsOK, BoardTypes, HeldAreCustom
<1>2. \A c, d \in CardIds :
        c # d /\ card[c].source \in {FINAL, MILESTONE} /\ ~crossed =>
          <<card[c].source, card[c].ref>> # <<card[d].source, card[d].ref>>
  BY DEF BoardInv, OneCard
<1>3. scripted => final.key # 0 /\ \A c \in CardIds : ~Legible(card[c].body)
  BY DEF BoardInv, NoneLegible
<1> QED BY <1>1, <1>2, <1>3 DEF CardsAgree

-----------------------------------------------------------------------------
(* Records and stories.                                                     *)

\* A record that is added comes last and leaves the others alone.
LEMMA AppendIs ==
  ASSUME NEW S, NEW rows \in Seq(S), NEW row \in S
  PROVE  /\ Append(rows, row) \in Seq(S) /\ DOMAIN Append(rows, row) = DOMAIN rows \cup {Len(rows) + 1}
         /\ Len(rows) + 1 \notin DOMAIN rows /\ Append(rows, row)[Len(rows) + 1] = row
         /\ \A i \in DOMAIN rows : Append(rows, row)[i] = rows[i] /\ i < Len(rows) + 1
         /\ Len(rows) + 1 \in Nat /\ DOMAIN rows \subseteq Nat
<1>1. Len(rows) \in Nat /\ DOMAIN rows = 1..Len(rows)
  OBVIOUS
<1>2. Append(rows, row) \in Seq(S) /\ Len(Append(rows, row)) = Len(rows) + 1
  OBVIOUS
<1>3. DOMAIN Append(rows, row) = 1..(Len(rows) + 1)
  BY <1>2
<1>4. Append(rows, row)[Len(rows) + 1] = row /\ \A i \in 1..Len(rows) : Append(rows, row)[i] = rows[i]
  BY <1>1
<1>5. 1..(Len(rows) + 1) = 1..Len(rows) \cup {Len(rows) + 1}
  BY <1>1
<1> QED BY <1>1, <1>2, <1>3, <1>4, <1>5

\* A story does not depend on the rows at other places.
LEMMA StorySame ==
  ASSUME NEW rows, NEW after, NEW places, NEW first, NEW last, Story(rows, places, first, last),
         \A i \in places : after[i] = rows[i]
  PROVE  Story(after, places, first, last)
BY DEF Story

\* A story goes on with a row that begins where it ended.
LEMMA StoryGoesOn ==
  ASSUME NEW rows, NEW after, NEW places \in SUBSET Nat, NEW first, NEW middle, NEW last, NEW n \in Nat,
         Story(rows, places, first, middle), \A i \in places : after[i] = rows[i] /\ i < n,
         after[n].from = middle, after[n].to = last
  PROVE  Story(after, places \cup {n}, first, last)
<1> DEFINE all == places \cup {n}
<1>0. \A i \in all : i \in Nat
  OBVIOUS
<1>1. ASSUME NEW j \in all, \A i \in all : j <= i PROVE after[j].from = first
  <2>1. CASE j \in places
    BY <1>1, <2>1 DEF Story
  <2>2. CASE j = n
    <3>1. places = {}
      BY <1>1, <2>2
    <3> QED BY <2>2, <3>1 DEF Story
  <2> QED BY <2>1, <2>2
<1>2. ASSUME NEW i \in all, NEW j \in all, i < j, \A k \in all : k <= i \/ j <= k PROVE after[j].from = after[i].to
  <2>1. i \in places
    BY <1>0, <1>2
  <2>2. CASE j \in places
    BY <1>2, <2>1, <2>2 DEF Story
  <2>3. CASE j = n
    <3>1. \A k \in places : k <= i
      BY <1>2, <2>3
    <3>2. rows[i].to = middle
      BY <2>1, <3>1 DEF Story
    <3> QED BY <2>1, <2>3, <3>2
  <2> QED BY <2>2, <2>3
<1>3. ASSUME NEW i \in all, \A k \in all : k <= i PROVE after[i].to = last
  <2>1. i = n
    BY <1>0, <1>3
  <2> QED BY <2>1
<1> QED BY <1>1, <1>2, <1>3 DEF Story

-----------------------------------------------------------------------------
(* What a step of the console does.                                         *)

ConsoleNext == \/ \E u \in Users : deleteCurrentUser(u)
               \/ \E k \in Desks : Asks(k) \/ Operates(k) \/ OperationDies(k)

\* p is what became of the operation o.
SameOperation(p, o) == p.kind = o.kind /\ p.actor = o.actor /\ p.target = o.target /\ p.to = o.to
Turns(k) ==
  /\ desk' \in [Desks -> OperationRow] /\ \A l \in Desks \ {k} : desk'[l] = desk[l]
  /\ OperationIs(desk'[k]) /\ (desk'[k] = NoOperation \/ SameOperation(desk'[k], desk[k]))

\* A desk that is free.
LEMMA NoOperationIs ==
  /\ NoOperation \in OperationRow /\ OperationIs(NoOperation) /\ NoOperation.kind = "none" /\ NoOperation.at = "idle"
  /\ NoOperation.actor = "none" /\ NoOperation.target = "none"
<1>1. NoOperation = [kind |-> "none", at |-> "idle", actor |-> "none", target |-> "none", to |-> NoProfile, from |-> NoProfile]
  BY DEF NoOperation, Operation
<1>2. NoOperation \in OperationRow
  BY <1>1 DEF OperationRow, Stages, Things, Values
<1>3. OperationIs(NoOperation)
  BY <1>1 DEF OperationIs, Works
<1> QED BY <1>1, <1>2, <1>3

LEMMA DeskIs == ASSUME ConsoleTypes, NEW k \in Desks PROVE desk \in [Desks -> OperationRow] /\ desk[k] \in OperationRow
BY DEF ConsoleTypes

LEMMA SetsIs ==
  ASSUME ConsoleTypes, NEW k \in Desks, NEW o \in OperationRow, Sets(k, o)
  PROVE  desk' \in [Desks -> OperationRow] /\ desk'[k] = o /\ \A l \in Desks \ {k} : desk'[l] = desk[l]
BY DeskIs DEF Sets

LEMMA ClosesIs ==
  ASSUME ConsoleTypes, NEW k \in Desks, Closes(k) PROVE Turns(k) /\ desk'[k] = NoOperation
BY NoOperationIs, SetsIs DEF Closes, Turns

LEMMA ReachesIs ==
  ASSUME ConsoleTypes, NEW k \in Desks, NEW at \in Stages, Reaches(k, at)
  PROVE  /\ desk' \in [Desks -> OperationRow] /\ \A l \in Desks \ {k} : desk'[l] = desk[l]
         /\ SameOperation(desk'[k], desk[k]) /\ desk'[k].at = at /\ desk'[k].from = desk[k].from
<1> DEFINE o == [desk[k] EXCEPT !.at = at]
<1>1. desk[k] \in OperationRow
  BY DeskIs
<1>2. o \in OperationRow
  BY <1>1 DEF OperationRow
<1>3. o.at = at /\ o.from = desk[k].from /\ SameOperation(o, desk[k])
  BY <1>1 DEF OperationRow, SameOperation
<1>4. Sets(k, o)
  BY DEF Reaches
<1> HIDE DEF o
<1> QED BY <1>2, <1>3, <1>4, SetsIs

\* The stages an operation of a kind can be at, but for those at the desk of nobody.
StagesOf(kind) ==
  IF kind \in Works THEN {"asked", "allowed", "denied", "wrote"}
  ELSE IF kind = "profile" THEN Stages \ {"granting", "recorded"}
  ELSE IF kind = "membership" THEN Stages \ {"counting", "cleared"}
  ELSE {"asked", "allowed", "denied", "wrote", "recorded"}
LEMMA TurnsIs ==
  ASSUME ConsoleTypes, NEW k \in Desks, OperationIs(desk[k]), desk[k].kind # "none", NEW p \in OperationRow,
         SameOperation(p, desk[k]), p.at \in StagesOf(desk[k].kind)
  PROVE  OperationIs(p)
BY DEF OperationIs, SameOperation, StagesOf, Works

\* A turn that neither writes nor records, and what it finds is so.
QuietTurn(k) ==
  /\ Turns(k) /\ desk[k].kind # "none" /\ desk[k].at \notin {"granting", "wrote", "recorded"}
  /\ desk'[k].at \in {"granting", "wrote", "recorded"} => desk'[k].kind = "raw" /\ desk'[k].at = "wrote"
  /\ desk'[k].kind = "profile" /\ desk'[k].at \in {"read", "counting", "cleared"} =>
       \/ desk'[k].from = profile[desk'[k].target]
       \/ desk[k].at \in {"read", "counting"} /\ desk'[k].from = desk[k].from
  /\ desk'[k].kind = "membership" /\ desk'[k].at = "read" => desk'[k].from = plan
  /\ desk'[k].kind = "profile" /\ desk'[k].at = "cleared" /\ NeedsAnother(desk'[k]) =>
       OtherSupers(desk'[k].target) # {}
DeniedRow(row) == /\ row \in LogRow /\ row.action = "denied" /\ row.actor \in Users \ left
                  /\ row.target \in Users \cup Works \cup {Member}
QuietLog == log' = log \/ \E row \in LogRow : DeniedRow(row) /\ log' = Append(log, row)
QuietStep(k) == QuietTurn(k) /\ QuietLog /\ UNCHANGED <<profile, left, book, effects, views, torn, loose, done, plan, entitled>>

\* An operation that is closed.
LEMMA ClosesQuietly ==
  ASSUME ConsoleTypes, NEW k \in Desks, Closes(k), desk[k].kind # "none",
         desk[k].at \notin {"granting", "wrote", "recorded"}
  PROVE  QuietTurn(k)
<1>1. Turns(k) /\ desk'[k] = NoOperation
  BY ClosesIs
<1>2. desk'[k].kind = "none" /\ desk'[k].at = "idle"
  BY <1>1, NoOperationIs
<1> QED BY <1>1, <1>2 DEF QuietTurn

\* One that goes on to a stage where it has found nothing yet.
LEMMA ReachesQuietly ==
  ASSUME ConsoleTypes, NEW k \in Desks, OperationIs(desk[k]), desk[k].kind # "none", desk[k].at = "asked",
         NEW at \in {"allowed", "denied"}, Reaches(k, at)
  PROVE  QuietTurn(k)
<1>1. at \in Stages /\ at \in StagesOf(desk[k].kind)
  BY DEF Stages, StagesOf
<1>2. /\ desk' \in [Desks -> OperationRow] /\ \A l \in Desks \ {k} : desk'[l] = desk[l]
      /\ SameOperation(desk'[k], desk[k]) /\ desk'[k].at = at
  BY <1>1, ReachesIs
<1>3. OperationIs(desk'[k])
  BY <1>1, <1>2, TurnsIs
<1> QED BY <1>2, <1>3 DEF QuietTurn, Turns

LEMMA PermissionQuiet ==
  ASSUME ConsoleTypes, OperationsOK, NEW k \in Desks, assertAdminPermission(k) PROVE QuietStep(k)
<1>1. OperationIs(desk[k]) /\ desk[k].kind # "none" /\ desk[k].at = "asked"
  BY NoOperationIs DEF OperationsOK, OperationIs, assertAdminPermission
<1>2. PICK at \in {"allowed", "denied"} : Reaches(k, at)
  BY DEF assertAdminPermission
<1>3. QuietTurn(k)
  BY <1>1, <1>2, ReachesQuietly
<1>4. UNCHANGED <<log, profile, left, book, effects, views, torn, loose, done, plan, entitled>>
  BY DEF assertAdminPermission, Quiet, Keeps
<1> QED BY <1>3, <1>4 DEF QuietStep, QuietLog

LEMMA DeniedQuiet ==
  ASSUME ConsoleTypes, OperationsOK, NEW k \in Desks, createPermissionDeniedAudit(k) PROVE QuietStep(k)
<1>1. OperationIs(desk[k]) /\ desk[k].kind # "none" /\ desk[k].at = "denied" /\ desk[k] \in OperationRow
  BY NoOperationIs, DeskIs DEF OperationsOK, OperationIs, createPermissionDeniedAudit
<1>2. QuietTurn(k)
  BY <1>1, ClosesQuietly DEF createPermissionDeniedAudit
<1>3. UNCHANGED <<profile, left, book, effects, views, torn, loose, done, plan, entitled>>
  BY DEF createPermissionDeniedAudit, Quiet, Keeps
<1> DEFINE row == [Row(desk[k]) EXCEPT !.action = "denied"]
<1>4. row \in LogRow /\ row.action = "denied" /\ row.actor = desk[k].actor /\ row.target = desk[k].target
  <2>1. row = [actor |-> desk[k].actor, action |-> "denied", target |-> desk[k].target,
               from |-> desk[k].from, to |-> desk[k].to]
    BY DEF Row
  <2> HIDE DEF row
  <2> QED BY <1>1, <2>1 DEF OperationRow, LogRow
<1>5. log' = log \/ (desk[k].actor \notin left /\ log' = Append(log, row))
  BY DEF createPermissionDeniedAudit
<1> HIDE DEF row
<1>6. desk[k].actor \in Users /\ desk[k].target \in Users \cup Works \cup {Member}
  BY <1>1 DEF OperationIs
<1>7. QuietLog
  BY <1>4, <1>5, <1>6 DEF QuietLog, DeniedRow
<1> QED BY <1>2, <1>3, <1>7 DEF QuietStep

\* What an operation finds.
LEMMA PreviousIs ==
  ASSUME NEW o
  PROVE  /\ o.kind = "profile" => Previous(o) = profile[o.target]
         /\ o.kind = "membership" => Previous(o) = plan
         /\ o.kind = "raw" => Previous(o) = o.to
<1>1. ASSUME o.kind = "profile" PROVE Previous(o) = profile[o.target]
  BY <1>1, Zenon DEF Previous
<1>2. ASSUME o.kind = "membership" PROVE Previous(o) = plan
  <2>1. o.kind # "profile"
    BY <1>2
  <2> QED BY <1>2, <2>1, Zenon DEF Previous
<1>3. ASSUME o.kind = "raw" PROVE Previous(o) = o.to
  <2>1. o.kind # "profile" /\ o.kind # "membership"
    BY <1>3
  <2> QED BY <2>1, Zenon DEF Previous
<1> QED BY <1>1, <1>2, <1>3

LEMMA ReadQuiet ==
  ASSUME ConsoleTypes, BoardTypes, OperationsOK, NEW k \in Desks, ReadPrevious(k) PROVE QuietStep(k)
<1>1. OperationIs(desk[k]) /\ desk[k].kind # "none" /\ desk[k].at = "allowed" /\ desk[k] \in OperationRow
      /\ desk[k].kind \notin Works
  BY NoOperationIs, DeskIs DEF OperationsOK, OperationIs, ReadPrevious
<1>2. UNCHANGED <<log, profile, left, book, effects, views, torn, loose, done, plan, entitled>>
  BY DEF ReadPrevious, Quiet, Keeps
<1>3. CASE Closes(k)
  BY <1>1, <1>2, <1>3, ClosesQuietly DEF QuietStep, QuietLog
<1>4. CASE ~Closes(k)
  <2> DEFINE at == IF desk[k].kind = "raw" THEN "wrote" ELSE "read"
             from == Previous(desk[k])
             p == [desk[k] EXCEPT !.at = at, !.from = from]
  <2>1. Sets(k, p)
    BY <1>4 DEF ReadPrevious
  <2>2. desk[k].kind \in {"profile", "membership", "raw"}
    BY <1>1 DEF OperationRow, Kinds
  <2>3. /\ desk[k].kind = "profile" => from = profile[desk[k].target]
        /\ desk[k].kind = "membership" => from = plan
        /\ desk[k].kind = "raw" => from = desk[k].to
    BY PreviousIs
  <2>4. from \in Values
    <3>1. CASE desk[k].kind = "profile"
      <4>1. desk[k].target \in Users /\ profile \in [Users -> Profiles \cup {NoProfile}]
        BY <1>1, <3>1 DEF OperationIs, ConsoleTypes, AdminTypeOK
      <4> QED BY <2>3, <3>1, <4>1 DEF Values
    <3>2. CASE desk[k].kind = "membership"
      BY <2>3, <3>2 DEF Values, BoardTypes, RewardsTypeOK
    <3>3. CASE desk[k].kind = "raw"
      BY <1>1, <2>3, <3>3 DEF OperationRow
    <3> QED BY <2>2, <3>1, <3>2, <3>3
  <2>5. at \in {"wrote", "read"} /\ (desk[k].kind = "raw" => at = "wrote") /\ (desk[k].kind # "raw" => at = "read")
    OBVIOUS
  <2> HIDE DEF from, at
  <2>6. p \in OperationRow /\ p.at = at /\ p.from = from /\ SameOperation(p, desk[k])
    BY <1>1, <2>4, <2>5 DEF OperationRow, Stages, SameOperation
  <2> HIDE DEF p
  <2>7. p.at \in StagesOf(desk[k].kind)
    BY <1>1, <2>2, <2>5, <2>6 DEF StagesOf, Stages
  <2>8. OperationIs(p)
    BY <1>1, <2>6, <2>7, TurnsIs
  <2>9. desk' \in [Desks -> OperationRow] /\ desk'[k] = p /\ \A l \in Desks \ {k} : desk'[l] = desk[l]
    BY <2>1, <2>6, SetsIs
  <2>10. Turns(k)
    BY <2>6, <2>8, <2>9 DEF Turns
  <2>11. p.kind = desk[k].kind /\ p.target = desk[k].target
    BY <2>6 DEF SameOperation
  <2>12. QuietTurn(k)
    BY <1>1, <2>3, <2>5, <2>6, <2>9, <2>10, <2>11 DEF QuietTurn
  <2> QED BY <1>2, <2>12 DEF QuietStep, QuietLog
<1> QED BY <1>3, <1>4

LEMMA CheckQuiet ==
  ASSUME ConsoleTypes, OperationsOK, NEW k \in Desks, assertCanChangeActiveSuperAdmin(k) \/ CountSuperAdmins(k)
  PROVE  QuietStep(k)
<1>1. OperationIs(desk[k]) /\ desk[k].at \in {"read", "counting"}
  BY DEF OperationsOK, assertCanChangeActiveSuperAdmin, CountSuperAdmins
<1>2. desk[k].kind = "profile"
  <2>1. CASE desk[k].at = "counting"
    BY <1>1, <2>1, NoOperationIs, DeskIs DEF OperationIs, Works, OperationRow, Kinds
  <2>2. CASE desk[k].at # "counting"
    BY <2>2 DEF assertCanChangeActiveSuperAdmin, CountSuperAdmins
  <2> QED BY <2>1, <2>2
<1>3. UNCHANGED <<log, profile, left, book, effects, views, torn, loose, done, plan, entitled>>
  BY DEF assertCanChangeActiveSuperAdmin, CountSuperAdmins, Quiet, Keeps
<1>4. \/ Closes(k)
      \/ Reaches(k, "counting")
      \/ Reaches(k, "cleared") /\ (NeedsAnother(desk[k]) => OtherSupers(desk[k].target) # {})
  BY DEF assertCanChangeActiveSuperAdmin, CountSuperAdmins
<1>5. ASSUME Closes(k) PROVE QuietTurn(k)
  BY <1>1, <1>2, <1>5, ClosesQuietly
<1>6. ASSUME NEW at \in {"counting", "cleared"}, Reaches(k, at),
             at = "cleared" /\ NeedsAnother(desk[k]) => OtherSupers(desk[k].target) # {}
      PROVE  QuietTurn(k)
  <2>1. at \in Stages /\ at \in StagesOf(desk[k].kind)
    BY <1>2 DEF Stages, StagesOf, Works
  <2>2. /\ desk' \in [Desks -> OperationRow] /\ \A l \in Desks \ {k} : desk'[l] = desk[l]
        /\ SameOperation(desk'[k], desk[k]) /\ desk'[k].at = at /\ desk'[k].from = desk[k].from
    BY <1>6, <2>1, ReachesIs
  <2>3. OperationIs(desk'[k])
    BY <1>1, <1>2, <2>1, <2>2, TurnsIs
  <2>4. NeedsAnother(desk'[k]) = NeedsAnother(desk[k]) /\ desk'[k].target = desk[k].target
    BY <2>2 DEF NeedsAnother, SameOperation
  <2>5. desk'[k].kind = "profile"
    BY <1>2, <2>2 DEF SameOperation
  <2> QED BY <1>1, <1>2, <1>6, <2>2, <2>3, <2>4, <2>5 DEF QuietTurn, Turns
<1>7. QuietTurn(k)
  BY <1>4, <1>5, <1>6
<1> QED BY <1>3, <1>7 DEF QuietStep, QuietLog

LEMMA RefusesQuiet ==
  ASSUME ConsoleTypes, OperationsOK, NEW k \in Desks, NEW kind \in Works, Refuses(k, kind) PROVE QuietStep(k)
<1>1. desk[k].kind # "none" /\ desk[k].at = "allowed"
  BY DEF Refuses, Works
<1>2. UNCHANGED <<log, profile, left, book, effects, views, torn, loose, done, plan, entitled>>
  BY DEF Refuses, Quiet, Keeps
<1>3. QuietTurn(k)
  BY <1>1, ClosesQuietly DEF Refuses
<1> QED BY <1>2, <1>3 DEF QuietStep, QuietLog

-----------------------------------------------------------------------------
(* The log, the desks, and what is counted.                                 *)

Next1 == Len(log) + 1
WorkRows(w) == {i \in DOMAIN log : log[i].action = w}
Writing(w) == {k \in Desks : desk[k].kind = w /\ desk[k].at = "wrote"}
LogTypes == log \in Seq(LogRow) /\ \A i \in DOMAIN log :
  log[i] = NoRow \/ (log[i].action \in Kinds \cup {"denied"} /\ log[i].actor \in Users \ left)

\* The log with a row more.
LEMMA RowAdded ==
  ASSUME ConsoleTypes, NEW row \in LogRow, log' = Append(log, row)
  PROVE  /\ log' \in Seq(LogRow) /\ Next1 \in Nat /\ Next1 \notin DOMAIN log /\ DOMAIN log' = DOMAIN log \cup {Next1}
         /\ log'[Next1] = row /\ DOMAIN log \subseteq Nat /\ \A i \in DOMAIN log : log'[i] = log[i] /\ i < Next1
BY AppendIs DEF ConsoleTypes, Next1

LEMMA RowsAdded ==
  ASSUME ConsoleTypes, NEW row \in LogRow, log' = Append(log, row)
  PROVE  /\ \A u : ProfileRows(u)' = IF row.action = "profile" /\ row.target = u THEN ProfileRows(u) \cup {Next1}
                                     ELSE ProfileRows(u)
         /\ \A w : WorkRows(w)' = IF row.action = w THEN WorkRows(w) \cup {Next1} ELSE WorkRows(w)
         /\ \A a, t : InLog(a, t)' <=> InLog(a, t) \/ (row.action = "raw" /\ row.actor = a /\ row.target = t)
         /\ WorkIsNamed /\ (row.action \in Works => row.target = row.action) /\ row.target \in Users \cup Works \cup {Member}
              => WorkIsNamed'
         /\ row.action \in Kinds \cup {"denied"} /\ row.actor \in Users \ left /\ left' = left => LogTypes'
<1>1. /\ log' \in Seq(LogRow) /\ Next1 \notin DOMAIN log /\ DOMAIN log' = DOMAIN log \cup {Next1}
      /\ log'[Next1] = row /\ \A i \in DOMAIN log : log'[i] = log[i]
  BY RowAdded
<1>2. ASSUME NEW u
      PROVE  ProfileRows(u)' = IF row.action = "profile" /\ row.target = u THEN ProfileRows(u) \cup {Next1}
                               ELSE ProfileRows(u)
  BY <1>1 DEF ProfileRows
<1>3. ASSUME NEW w PROVE WorkRows(w)' = IF row.action = w THEN WorkRows(w) \cup {Next1} ELSE WorkRows(w)
  BY <1>1 DEF WorkRows
<1>4. ASSUME NEW a, NEW t PROVE InLog(a, t)' <=> InLog(a, t) \/ (row.action = "raw" /\ row.actor = a /\ row.target = t)
  BY <1>1 DEF InLog
<1>5. WorkIsNamed /\ (row.action \in Works => row.target = row.action) /\ row.target \in Users \cup Works \cup {Member}
              => WorkIsNamed'
  BY <1>1 DEF WorkIsNamed
<1>6. row.action \in Kinds \cup {"denied"} /\ row.actor \in Users \ left /\ left' = left => LogTypes'
  BY <1>1 DEF LogTypes, ConsoleTypes, AdminTypeOK
<1> QED BY <1>2, <1>3, <1>4, <1>5, <1>6

\* A refusal in the log is no record of anything else.
SameLog ==
  /\ LogTypes' /\ (WorkIsNamed => WorkIsNamed')
  /\ \A u : ProfileRows(u)' = ProfileRows(u) /\ \A i \in ProfileRows(u) : log'[i] = log[i]
  /\ \A w \in Works : WorkRows(w)' = WorkRows(w)
  /\ \A a, t : InLog(a, t) => InLog(a, t)'
LEMMA QuietLogIs == ASSUME ConsoleTypes, QuietLog, left' = left PROVE SameLog
<1>1. CASE log' = log
  <2>1. LogTypes'
    BY <1>1 DEF LogTypes, ConsoleTypes, AdminTypeOK
  <2>2. WorkIsNamed => WorkIsNamed'
    BY <1>1 DEF WorkIsNamed
  <2>3. \A u : ProfileRows(u)' = ProfileRows(u) /\ \A i \in ProfileRows(u) : log'[i] = log[i]
    BY <1>1 DEF ProfileRows
  <2>4. \A w \in Works : WorkRows(w)' = WorkRows(w)
    BY <1>1 DEF WorkRows
  <2>5. \A a, t : InLog(a, t) => InLog(a, t)'
    BY <1>1 DEF InLog
  <2> QED BY <2>1, <2>2, <2>3, <2>4, <2>5 DEF SameLog
<1>2. ASSUME NEW row \in LogRow, DeniedRow(row), log' = Append(log, row) PROVE SameLog
  <2>1. /\ row.action = "denied" /\ row.actor \in Users \ left /\ row.action \notin Works
        /\ row.target \in Users \cup Works \cup {Member}
    BY <1>2 DEF DeniedRow, Works
  <2>2. LogTypes' /\ (WorkIsNamed => WorkIsNamed')
    BY <1>2, <2>1, RowsAdded
  <2>3. ASSUME NEW u PROVE ProfileRows(u)' = ProfileRows(u) /\ \A i \in ProfileRows(u) : log'[i] = log[i]
    <3>1. ProfileRows(u)' = ProfileRows(u)
      BY <1>2, <2>1, RowsAdded
    <3>2. ProfileRows(u) \subseteq DOMAIN log
      BY DEF ProfileRows
    <3> QED BY <1>2, <3>1, <3>2, RowAdded
  <2>4. \A w \in Works : WorkRows(w)' = WorkRows(w)
    BY <1>2, <2>1, RowsAdded
  <2>5. \A a, t : InLog(a, t) => InLog(a, t)'
    BY <1>2, RowsAdded
  <2> QED BY <2>2, <2>3, <2>4, <2>5 DEF SameLog
<1> QED BY <1>1, <1>2 DEF QuietLog

\* A turn of one desk keeps what the operations carry.
LEMMA OperationsKept ==
  ASSUME ConsoleTypes, OperationsOK, NEW k \in Desks, Turns(k), left' = left, torn \subseteq torn', WorkIsNamed'
  PROVE  OperationsOK'
<1>1. ASSUME NEW l \in Desks PROVE desk'[l] = NoOperation \/ SameOperation(desk'[l], desk[l])
  BY DEF Turns, SameOperation
<1>2. \A l \in Desks : OperationIs(desk'[l])
  BY DEF Turns, OperationsOK
<1>3. LeftIsTorn'
  BY <1>1, NoOperationIs DEF OperationsOK, LeftIsTorn, SameOperation
<1>4. Alone'
  BY <1>1, NoOperationIs DEF OperationsOK, Alone, SameOperation
<1> QED BY <1>2, <1>3, <1>4 DEF OperationsOK, OperationIs

\* And there being a super administrator, while no profile changes.
LEMMA SupersKept ==
  ASSUME ConsoleTypes, Supers, NEW k \in Desks, Turns(k), profile' = profile, loose' = loose,
         desk'[k].kind = "profile" /\ desk'[k].at = "cleared" /\ NeedsAnother(desk'[k]) => OtherSupers(desk'[k].target) # {}
  PROVE  Supers'
<1>1. ASSUME NEW l \in Desks, desk'[l].kind = "profile" PROVE desk[l].kind = "profile"
  BY <1>1, NoOperationIs DEF Turns, SameOperation
<1>2. OneProfile'
  BY <1>1 DEF Supers, OneProfile
<1>5. SomeSuperAdmin'
  BY DEF Supers, SomeSuperAdmin
<1>6. AnotherIsThere'
  <2> SUFFICES ASSUME ~loose', NEW l \in Desks, desk'[l].kind = "profile", desk'[l].at = "cleared", NeedsAnother(desk[l])'
               PROVE  OtherSupers(desk[l].target)' # {}
    BY DEF AnotherIsThere
  <2>1. NeedsAnother(desk'[l])
    BY DEF NeedsAnother
  <2>2. OtherSupers(desk'[l].target) # {}
    <3>1. CASE l = k
      BY <2>1, <3>1
    <3>2. CASE l # k
      <4>1. desk'[l] = desk[l]
        BY <3>2 DEF Turns
      <4> QED BY <2>1, <4>1 DEF Supers, AnotherIsThere
    <3> QED BY <3>1, <3>2
  <2> QED BY <2>2 DEF OtherSupers
<1> QED BY <1>2, <1>5, <1>6 DEF Supers

\* Nothing is torn that was whole before.
LEMMA ProfileStoryKept ==
  ASSUME ConsoleTypes, ProfileStory, NEW k \in Desks, Turns(k), profile' = profile, torn \subseteq torn', SameLog,
         \A u \in Users \ torn' :
           /\ Writes(k, u)' <=> Writes(k, u)
           /\ Writes(k, u) => desk'[k].to = desk[k].to /\ desk'[k].from = desk[k].from
           /\ desk'[k].kind = "profile" /\ desk'[k].target = u /\ desk'[k].at \in {"read", "counting", "cleared"}
                => desk'[k].from = profile[u]
  PROVE  ProfileStory'
<1> SUFFICES ASSUME NEW u \in Users, u \notin torn'
             PROVE  /\ \A l \in Desks :
                         desk'[l].kind = "profile" /\ desk'[l].target = u /\ desk'[l].at \in {"read", "counting", "cleared"}
                           => desk'[l].from = profile[u]
                    /\ \A l \in Desks : Writes(l, u)' =>
                         desk'[l].to = profile[u] /\ Story(log', ProfileRows(u)', Founders[u], desk'[l].from)
                    /\ (\A l \in Desks : ~Writes(l, u)') => Story(log', ProfileRows(u)', Founders[u], profile[u])
  BY DEF ProfileStory, Story
<1>1. ProfileRows(u)' = ProfileRows(u) /\ \A i \in ProfileRows(u) : log'[i] = log[i]
  BY DEF SameLog
<1>2. \A last : Story(log, ProfileRows(u), Founders[u], last) => Story(log', ProfileRows(u)', Founders[u], last)
  BY <1>1, StorySame
<1>3. \A l \in Desks \ {k} : desk'[l] = desk[l]
  BY DEF Turns
<1>4. \A l \in Desks : Writes(l, u)' <=> Writes(l, u)
  BY <1>3 DEF Writes
<1>5. ASSUME NEW l \in Desks, desk'[l].kind = "profile", desk'[l].target = u, desk'[l].at \in {"read", "counting", "cleared"}
      PROVE  desk'[l].from = profile[u]
  <2>1. CASE l = k
    BY <1>5, <2>1
  <2>2. CASE l # k
    <3>1. desk'[l] = desk[l]
      BY <1>3, <2>2
    <3> QED BY <1>5, <3>1 DEF ProfileStory
  <2> QED BY <2>1, <2>2
<1>6. ASSUME NEW l \in Desks, Writes(l, u)'
      PROVE  desk'[l].to = profile[u] /\ Story(log', ProfileRows(u)', Founders[u], desk'[l].from)
  <2>1. Writes(l, u) /\ desk'[l].to = desk[l].to /\ desk'[l].from = desk[l].from
    BY <1>3, <1>4, <1>6
  <2>2. desk[l].to = profile[u] /\ Story(log, ProfileRows(u), Founders[u], desk[l].from)
    BY <2>1 DEF ProfileStory
  <2> QED BY <1>2, <2>1, <2>2
<1>7. ASSUME \A l \in Desks : ~Writes(l, u)' PROVE Story(log', ProfileRows(u)', Founders[u], profile[u])
  <2>1. Story(log, ProfileRows(u), Founders[u], profile[u])
    BY <1>4, <1>7 DEF ProfileStory
  <2> QED BY <1>2, <2>1
<1> QED BY <1>5, <1>6, <1>7

\* The book of memberships.
LEMMA MemberStoryKept ==
  ASSUME ConsoleTypes, MemberStory, NEW k \in Desks, Turns(k), plan' = plan, book' = book, torn \subseteq torn',
         Member \notin torn' =>
           /\ Books(k)' <=> Books(k)
           /\ Books(k) => desk'[k].to = desk[k].to /\ desk'[k].from = desk[k].from
           /\ desk'[k].kind = "membership" /\ desk'[k].at = "read" => desk'[k].from = plan
  PROVE  MemberStory'
<1> SUFFICES ASSUME Member \notin torn'
             PROVE  /\ \A l \in Desks : desk'[l].kind = "membership" /\ desk'[l].at = "read" => desk'[l].from = plan
                    /\ \A l \in Desks : Books(l)' => desk'[l].to = plan /\ Story(book, DOMAIN book, "FREE", desk'[l].from)
                    /\ (\A l \in Desks : ~Books(l)') => Story(book, DOMAIN book, "FREE", plan)
  BY DEF MemberStory, Story
<1>1. \A l \in Desks \ {k} : desk'[l] = desk[l]
  BY DEF Turns
<1>2. \A l \in Desks : Books(l)' <=> Books(l)
  BY <1>1 DEF Books
<1>3. ASSUME NEW l \in Desks, Books(l)'
      PROVE  desk'[l].to = plan /\ Story(book, DOMAIN book, "FREE", desk'[l].from)
  <2>1. Books(l) /\ desk'[l].to = desk[l].to /\ desk'[l].from = desk[l].from
    BY <1>1, <1>2, <1>3
  <2> QED BY <2>1 DEF MemberStory
<1>4. ASSUME NEW l \in Desks, desk'[l].kind = "membership", desk'[l].at = "read" PROVE desk'[l].from = plan
  <2>1. CASE l = k
    BY <1>4, <2>1
  <2>2. CASE l # k
    <3>1. desk'[l] = desk[l]
      BY <1>1, <2>2
    <3> QED BY <1>4, <3>1 DEF MemberStory
  <2> QED BY <2>1, <2>2
<1>5. ASSUME \A l \in Desks : ~Books(l)' PROVE Story(book, DOMAIN book, "FREE", plan)
  BY <1>2, <1>5 DEF MemberStory
<1> QED BY <1>3, <1>4, <1>5

\* The entitlement that comes with the membership.
LEMMA EntitlementKept ==
  ASSUME EntitlementFollows, NEW k \in Desks, Turns(k), plan' = plan, entitled' = entitled, torn \subseteq torn',
         Member \notin torn' => ~(desk[k].kind = "membership" /\ desk[k].at = "granting")
  PROVE  EntitlementFollows'
<1> SUFFICES ASSUME Member \notin torn', \A l \in Desks : desk'[l].kind = "membership" => desk'[l].at # "granting"
             PROVE  entitled = (plan = "PRO")
  BY DEF EntitlementFollows
<1>1. \A l \in Desks \ {k} : desk'[l] = desk[l]
  BY DEF Turns
<1>2. \A l \in Desks : desk[l].kind = "membership" => desk[l].at # "granting"
  BY <1>1
<1> QED BY <1>2 DEF EntitlementFollows

\* What was done is recorded or about to be.
WorkCounted(w) == effects[w] = Cardinality(WorkRows(w)) + Cardinality(Writing(w))
LEMMA WorkIs == WorkRecorded <=> \A w \in Works \ torn : WorkCounted(w)
BY DEF WorkRecorded, WorkCounted, WorkRows, Writing

LEMMA WorkKept ==
  ASSUME ConsoleTypes, WorkRecorded, NEW k \in Desks, Turns(k), effects' = effects, torn \subseteq torn', SameLog,
         \A w \in Works \ torn' : desk'[k].kind = w /\ desk'[k].at = "wrote" <=> desk[k].kind = w /\ desk[k].at = "wrote"
  PROVE  WorkRecorded'
<1>1. ASSUME NEW w \in Works, w \notin torn' PROVE WorkCounted(w)'
  <2>1. WorkRows(w)' = WorkRows(w)
    BY DEF SameLog
  <2>2. \A l \in Desks : desk'[l].kind = w /\ desk'[l].at = "wrote" <=> desk[l].kind = w /\ desk[l].at = "wrote"
    BY <1>1 DEF Turns
  <2>3. Writing(w)' = Writing(w)
    BY <2>2 DEF Writing
  <2>4. WorkCounted(w)
    BY <1>1, WorkIs
  <2> QED BY <2>1, <2>3, <2>4 DEF WorkCounted
<1> QED BY <1>1 DEF WorkRecorded, WorkCounted, WorkRows, Writing

\* What was shown is in the log.
LEMMA ViewsIs == ViewsAudited <=> \A v \in views : v.actor \in left \/ InLog(v.actor, v.target)
BY DEF ViewsAudited, InLog

LEMMA RawKept ==
  ASSUME ConsoleTypes, RawRecorded, ViewsAudited, NEW k \in Desks, Turns(k), left' = left, views' = views,
         \A a, t : InLog(a, t) => InLog(a, t)',
         desk'[k].kind = "raw" /\ desk'[k].at = "recorded" =>
           (desk[k].kind = "raw" /\ desk[k].at = "recorded") \/ desk'[k].actor \in left
           \/ \A a, t : a = desk'[k].actor /\ t = desk'[k].target => InLog(a, t)'
  PROVE  RawRecorded' /\ ViewsAudited'
<1>1. ViewsAudited'
  <2>1. \A v \in views : v.actor \in left \/ InLog(v.actor, v.target)
    BY ViewsIs
  <2>2. \A v \in views : v.actor \in left \/ InLog(v.actor, v.target)'
    BY <2>1 DEF InLog
  <2> QED BY <2>2 DEF ViewsAudited, InLog
<1>2. ASSUME NEW l \in Desks, desk'[l].kind = "raw", desk'[l].at = "recorded", desk'[l].actor \notin left
      PROVE  InLog(desk[l].actor, desk[l].target)'
  <2> DEFINE a == desk'[l].actor
             t == desk'[l].target
  <2>1. CASE \A b, s : b = a /\ s = t => InLog(b, s)'
    BY <2>1 DEF InLog
  <2>2. CASE desk[l].kind = "raw" /\ desk[l].at = "recorded" /\ desk[l].actor = a /\ desk[l].target = t
    <3>1. InLog(desk[l].actor, desk[l].target)
      BY <1>2, <2>2 DEF RawRecorded
    <3>2. InLog(a, t)
      BY <2>2, <3>1
    <3> HIDE DEF a, t
    <3>3. \A b, s : b = a /\ s = t => InLog(b, s)'
      BY <3>2
    <3> QED BY <3>3 DEF InLog, a, t
  <2>3. l # k => desk'[l] = desk[l]
    BY DEF Turns
  <2>4. l = k => desk'[l] = NoOperation \/ SameOperation(desk'[l], desk[l])
    BY DEF Turns
  <2> QED BY <1>2, <2>1, <2>2, <2>3, <2>4, NoOperationIs DEF SameOperation
<1>3. RawRecorded'
  BY <1>2 DEF RawRecorded
<1> QED BY <1>1, <1>3

\* The types, from those of what a step writes.
LEMMA ConsoleTypesAre ==
  ASSUME profile' \in [Users -> Profiles \cup {NoProfile}], left' \subseteq Users, LogTypes',
         effects' \in [Works -> Nat], torn' \subseteq Users \cup Works \cup {Member}, book' \in Seq(BookRow),
         desk' \in [Desks -> OperationRow], views' \in SUBSET [actor : Users, target : Things],
         loose' \in BOOLEAN, done' \in Nat
  PROVE  ConsoleTypes'
BY DEF ConsoleTypes, AdminTypeOK, LogTypes

LEMMA ConsoleTypesNow ==
  ASSUME ConsoleTypes
  PROVE  /\ profile \in [Users -> Profiles \cup {NoProfile}] /\ left \subseteq Users /\ LogTypes
         /\ effects \in [Works -> Nat] /\ torn \subseteq Users \cup Works \cup {Member} /\ book \in Seq(BookRow)
         /\ desk \in [Desks -> OperationRow] /\ views \in SUBSET [actor : Users, target : Things]
         /\ loose \in BOOLEAN /\ done \in Nat
BY DEF ConsoleTypes, AdminTypeOK, LogTypes

\* A quiet step keeps everything.
LEMMA QuietKeeps ==
  ASSUME ConsoleInv, NEW k \in Desks, QuietStep(k) PROVE ConsoleInv'
<1>0. ConsoleTypes /\ OperationsOK /\ Supers /\ Records /\ QuietTurn(k) /\ Turns(k) /\ QuietLog
  BY DEF ConsoleInv, QuietStep, QuietTurn
<1>1. UNCHANGED <<profile, left, book, effects, views, torn, loose, done, plan, entitled>>
  BY DEF QuietStep
<1>2. SameLog
  BY <1>0, <1>1, QuietLogIs
<1>3. ConsoleTypes'
  <2>1. LogTypes' /\ desk' \in [Desks -> OperationRow]
    BY <1>0, <1>2 DEF SameLog, Turns
  <2> QED BY <1>0, <1>1, <2>1, ConsoleTypesNow, ConsoleTypesAre
<1>4. OperationsOK'
  BY <1>0, <1>1, <1>2, OperationsKept DEF SameLog, OperationsOK
<1>5. Supers'
  BY <1>0, <1>1, SupersKept DEF QuietTurn
<1>6. ProfileStory'
  <2>1. ASSUME NEW u \in Users \ torn'
        PROVE  /\ Writes(k, u)' <=> Writes(k, u)
               /\ Writes(k, u) => desk'[k].to = desk[k].to /\ desk'[k].from = desk[k].from
    BY <1>0 DEF QuietTurn, Writes
  <2>2. ASSUME NEW u \in Users \ torn', desk'[k].kind = "profile", desk'[k].target = u,
               desk'[k].at \in {"read", "counting", "cleared"}
        PROVE  desk'[k].from = profile[u]
    <3>1. CASE desk[k].at \in {"read", "counting"} /\ desk'[k].from = desk[k].from
      <4>1. desk[k].kind = "profile" /\ desk[k].target = u
        BY <1>0, <2>2, NoOperationIs DEF Turns, SameOperation
      <4> QED BY <1>0, <1>1, <2>2, <3>1, <4>1 DEF Records, ProfileStory
    <3> QED BY <1>0, <2>2, <3>1 DEF QuietTurn
  <2> QED BY <1>0, <1>1, <1>2, <2>1, <2>2, ProfileStoryKept DEF Records
<1>7. MemberStory'
  <2>1. ~Books(k)' /\ ~Books(k)
    BY <1>0 DEF QuietTurn, Books
  <2> QED BY <1>0, <1>1, <2>1, MemberStoryKept DEF Records, QuietTurn
<1>7e. EntitlementFollows'
  BY <1>0, <1>1, EntitlementKept DEF Records, QuietTurn
<1>8. WorkRecorded'
  <2>1. \A w \in Works : ~(desk'[k].kind = w /\ desk'[k].at = "wrote") /\ ~(desk[k].kind = w /\ desk[k].at = "wrote")
    BY <1>0 DEF QuietTurn, Works
  <2> QED BY <1>0, <1>1, <1>2, <2>1, WorkKept DEF Records
<1>9. RawRecorded' /\ ViewsAudited'
  BY <1>0, <1>1, <1>2, RawKept DEF Records, SameLog, QuietTurn
<1> QED BY <1>3, <1>4, <1>5, <1>6, <1>7, <1>7e, <1>8, <1>9 DEF ConsoleInv, Records

-----------------------------------------------------------------------------
(* The steps that write or record.                                          *)

\* A desk that reaches its next stage.
LEMMA ReachesTurns ==
  ASSUME ConsoleTypes, OperationsOK, NEW k \in Desks, desk[k].kind # "none", NEW at \in {"granting", "wrote", "recorded"},
         at \in StagesOf(desk[k].kind), Reaches(k, at)
  PROVE  Turns(k) /\ SameOperation(desk'[k], desk[k]) /\ desk'[k].at = at /\ desk'[k].from = desk[k].from
<1>1. at \in Stages /\ OperationIs(desk[k])
  BY DEF Stages, OperationsOK
<1>2. /\ desk' \in [Desks -> OperationRow] /\ \A l \in Desks \ {k} : desk'[l] = desk[l]
      /\ SameOperation(desk'[k], desk[k]) /\ desk'[k].at = at /\ desk'[k].from = desk[k].from
  BY <1>1, ReachesIs
<1>3. OperationIs(desk'[k])
  BY <1>1, <1>2, TurnsIs
<1> QED BY <1>2, <1>3 DEF Turns

\* The log as it is.
LEMMA LogStays == ASSUME ConsoleTypes, UNCHANGED <<log, left>> PROVE SameLog
BY QuietLogIs DEF QuietLog

\* A profile is written: the operation is the only one on it, or its records are torn.
LEMMA ProfileKeeps ==
  ASSUME ConsoleInv, NEW k \in Desks, updateAdminProfile(k) PROVE ConsoleInv'
<1> DEFINE o == desk[k]
<1>0. ConsoleTypes /\ OperationsOK /\ Supers /\ Records /\ OperationIs(o)
  BY DEF ConsoleInv, OperationsOK
<1>1. /\ o.kind = "profile" /\ o.at = "cleared"
      /\ UNCHANGED <<left, book, effects, views, torn, loose, done, plan, entitled, log>>
  BY DEF updateAdminProfile, Keeps
<1>2. CASE Closes(k) /\ UNCHANGED profile
  <2>1. QuietTurn(k)
    BY <1>0, <1>1, <1>2, ClosesQuietly
  <2>2. QuietStep(k)
    BY <1>1, <1>2, <2>1 DEF QuietStep, QuietLog
  <2> QED BY <2>2, QuietKeeps
<1>3. CASE profile' = [profile EXCEPT ![o.target] = o.to] /\ Reaches(k, "wrote")
  <2>0. o.target \in Users /\ o.to \in Profiles
    BY <1>0, <1>1 DEF OperationIs
  <2>1. "wrote" \in StagesOf(o.kind) /\ o.kind # "none"
    BY <1>1 DEF StagesOf, Works, Stages
  <2>2. Turns(k) /\ SameOperation(desk'[k], o) /\ desk'[k].at = "wrote" /\ desk'[k].from = o.from
    BY <1>0, <1>3, <2>1, ReachesTurns
  <2>3. /\ profile' \in [Users -> Profiles \cup {NoProfile}] /\ profile'[o.target] = o.to
        /\ \A u \in Users \ {o.target} : profile'[u] = profile[u]
    BY <1>0, <1>3, <2>0, ConsoleTypesNow
  <2>4. SameLog
    BY <1>0, <1>1, LogStays
  <2>k. desk'[k].kind = "profile" /\ desk'[k].target = o.target /\ desk'[k].to = o.to
    BY <1>1, <2>2 DEF SameOperation
  <2> HIDE DEF o
  <2>5. ConsoleTypes'
    <3>1. LogTypes' /\ desk' \in [Desks -> OperationRow]
      BY <2>2, <2>4 DEF SameLog, Turns
    <3> QED BY <1>0, <1>1, <2>3, <3>1, ConsoleTypesNow, ConsoleTypesAre
  <2>6. OperationsOK'
    BY <1>0, <1>1, <2>2, <2>4, OperationsKept DEF SameLog, OperationsOK
  <2>7. Supers'
    <3>1. OneProfile'
      <4>1. \A l \in Desks : desk'[l].kind = desk[l].kind
        BY <1>1, <2>2, <2>k DEF Turns, o
      <4> QED BY <1>0, <1>1, <4>1 DEF Supers, OneProfile
    <3>2. AnotherIsThere'
      <4>1. ASSUME ~loose, NEW l \in Desks, desk'[l].kind = "profile", desk'[l].at = "cleared" PROVE FALSE
        <5>1. l # k
          BY <2>2, <4>1
        <5>2. desk'[l] = desk[l]
          BY <2>2, <5>1 DEF Turns
        <5> QED BY <1>0, <1>1, <4>1, <5>1, <5>2 DEF Supers, OneProfile, o
      <4> QED BY <1>1, <4>1 DEF AnotherIsThere
    <3>3. ASSUME ~loose PROVE \E u \in Users : IsSuper(profile'[u])
      <4>1. CASE IsSuper(o.to)
        BY <2>0, <2>3, <4>1
      <4>2. CASE ~IsSuper(o.to)
        <5>1. PICK u \in Users : IsSuper(profile[u])
          BY <1>0, <3>3 DEF Supers, SomeSuperAdmin
        <5>2. CASE u # o.target
          BY <2>3, <5>1, <5>2
        <5>3. CASE u = o.target
          <6>1. NeedsAnother(o)
            BY <4>2, <5>1, <5>3 DEF NeedsAnother
          <6>2. OtherSupers(o.target) # {}
            BY <1>0, <1>1, <3>3, <6>1 DEF Supers, AnotherIsThere, o
          <6>3. PICK v \in Users \ {o.target} : IsSuper(profile[v])
            BY <6>2 DEF OtherSupers
          <6> QED BY <2>3, <6>3
        <5> QED BY <5>2, <5>3
      <4> QED BY <4>1, <4>2
    <3>4. SomeSuperAdmin'
      BY <1>1, <3>3 DEF SomeSuperAdmin
    <3> QED BY <3>1, <3>2, <3>4 DEF Supers
  <2>8. ProfileStory'
    <3> SUFFICES ASSUME NEW u \in Users, u \notin torn
                 PROVE  /\ \A l \in Desks :
                             desk'[l].kind = "profile" /\ desk'[l].target = u /\ desk'[l].at \in {"read", "counting", "cleared"}
                               => desk'[l].from = profile'[u]
                        /\ \A l \in Desks : Writes(l, u)' =>
                             desk'[l].to = profile'[u] /\ Story(log, ProfileRows(u), Founders[u], desk'[l].from)
                        /\ (\A l \in Desks : ~Writes(l, u)') => Story(log, ProfileRows(u), Founders[u], profile'[u])
      BY <1>1 DEF ProfileStory, Story, ProfileRows
    <3>1. \A l \in Desks \ {k} : desk'[l] = desk[l]
      BY <2>2 DEF Turns
    <3>2. CASE u # o.target
      <4>1. profile'[u] = profile[u]
        BY <2>3, <3>2
      <4>2. \A l \in Desks : desk'[l].kind = "profile" /\ desk'[l].target = u => desk'[l] = desk[l]
        BY <2>k, <3>1, <3>2
      <4>3. \A l \in Desks : Writes(l, u)' <=> Writes(l, u)
        BY <1>1, <3>1, <3>2, <4>2, <2>k DEF Writes, o
      <4>4. ProfileStory
        BY <1>0 DEF Records
      <4>5. \A l \in Desks :
              desk'[l].kind = "profile" /\ desk'[l].target = u /\ desk'[l].at \in {"read", "counting", "cleared"}
                => desk'[l].from = profile'[u]
        BY <4>1, <4>2, <4>4 DEF ProfileStory
      <4>6. \A l \in Desks : Writes(l, u)' => desk'[l] = desk[l] /\ Writes(l, u)
        BY <4>2, <4>3 DEF Writes
      <4>7. \A l \in Desks : Writes(l, u)' =>
              desk'[l].to = profile'[u] /\ Story(log, ProfileRows(u), Founders[u], desk'[l].from)
        BY <4>1, <4>4, <4>6 DEF ProfileStory
      <4>8. (\A l \in Desks : ~Writes(l, u)') => Story(log, ProfileRows(u), Founders[u], profile'[u])
        BY <4>1, <4>3, <4>4 DEF ProfileStory
      <4> QED BY <4>5, <4>7, <4>8
    <3>3. CASE u = o.target
      <4>1. \A l \in Desks \ {k} : ~(desk[l].kind = "profile" /\ desk[l].target = u)
        BY <1>0, <1>1, <3>3 DEF OperationsOK, Alone, o
      <4>2. \A l \in Desks : ~Writes(l, u)
        BY <1>1, <4>1 DEF Writes, o
      <4>3. o.from = profile[u] /\ Story(log, ProfileRows(u), Founders[u], profile[u])
        BY <1>0, <1>1, <3>3, <4>2 DEF Records, ProfileStory, o
      <4>4. Writes(k, u)'
        BY <2>2, <2>k, <3>3 DEF Writes
      <4>5. \A l \in Desks : desk'[l].kind = "profile" /\ desk'[l].target = u => l = k
        BY <3>1, <4>1
      <4>6. \A l \in Desks : Writes(l, u)' => l = k
        BY <4>5 DEF Writes
      <4>7. desk'[k].to = profile'[u] /\ Story(log, ProfileRows(u), Founders[u], desk'[k].from)
        BY <2>2, <2>3, <2>k, <3>3, <4>3
      <4>8. desk'[k].at \notin {"read", "counting", "cleared"}
        BY <2>2
      <4> QED BY <4>4, <4>5, <4>6, <4>7, <4>8
    <3> QED BY <3>2, <3>3
  <2>9. MemberStory'
    <3>1. ~Books(k)' /\ ~Books(k) /\ desk'[k].kind # "membership"
      BY <1>1, <2>k DEF Books, o
    <3> QED BY <1>0, <1>1, <2>2, <3>1, MemberStoryKept DEF Records
  <2>9e. EntitlementFollows'
    <3>1. desk[k].kind # "membership"
      BY <1>1 DEF o
    <3> QED BY <1>0, <1>1, <2>2, <3>1, EntitlementKept DEF Records
  <2>10. WorkRecorded'
    <3>1. \A w \in Works : desk'[k].kind # w /\ desk[k].kind # w
      BY <1>1, <2>k DEF Works, o
    <3> QED BY <1>0, <1>1, <2>2, <2>4, <3>1, WorkKept DEF Records
  <2>11. RawRecorded' /\ ViewsAudited'
    <3>1. desk'[k].kind # "raw"
      BY <2>k
    <3> QED BY <1>0, <1>1, <2>2, <2>4, <3>1, RawKept DEF Records, SameLog
  <2> QED BY <2>5, <2>6, <2>7, <2>8, <2>9, <2>9e, <2>10, <2>11 DEF ConsoleInv, Records
<1> QED BY <1>2, <1>3 DEF updateAdminProfile

\* The membership is written.
LEMMA MembershipKeeps ==
  ASSUME ConsoleInv, NEW k \in Desks, updateMembership(k) PROVE ConsoleInv'
<1>0. ConsoleTypes /\ OperationsOK /\ Supers /\ Records /\ OperationIs(desk[k])
  BY DEF ConsoleInv, OperationsOK
<1>1. /\ desk[k].kind = "membership" /\ desk[k].at = "read" /\ plan' = desk[k].to /\ Reaches(k, "granting")
      /\ UNCHANGED <<profile, left, book, effects, views, torn, loose, done, log>>
  BY DEF updateMembership, Keeps
<1>2. "granting" \in StagesOf(desk[k].kind)
  BY <1>1 DEF StagesOf, Works, Stages
<1>3. Turns(k) /\ SameOperation(desk'[k], desk[k]) /\ desk'[k].at = "granting" /\ desk'[k].from = desk[k].from
  BY <1>0, <1>1, <1>2, ReachesTurns
<1>4. desk'[k].kind = "membership" /\ desk'[k].to = desk[k].to
  BY <1>1, <1>3 DEF SameOperation
<1>5. SameLog
  BY <1>0, <1>1, LogStays
<1>6. ConsoleTypes'
  <2>1. LogTypes' /\ desk' \in [Desks -> OperationRow]
    BY <1>3, <1>5 DEF SameLog, Turns
  <2> QED BY <1>0, <1>1, <2>1, ConsoleTypesNow, ConsoleTypesAre
<1>7. OperationsOK'
  BY <1>0, <1>1, <1>3, <1>5, OperationsKept DEF SameLog, OperationsOK
<1>8. Supers'
  BY <1>0, <1>1, <1>3, <1>4, SupersKept
<1>9. ProfileStory'
  <2>1. \A u : ~Writes(k, u)' /\ ~Writes(k, u)
    BY <1>1, <1>4 DEF Writes
  <2> QED BY <1>0, <1>1, <1>3, <1>4, <1>5, <2>1, ProfileStoryKept DEF Records
<1>10. MemberStory'
  <2> SUFFICES ASSUME Member \notin torn
               PROVE  /\ \A l \in Desks : desk'[l].kind = "membership" /\ desk'[l].at = "read" => desk'[l].from = plan'
                      /\ \A l \in Desks : Books(l)' => desk'[l].to = plan' /\ Story(book, DOMAIN book, "FREE", desk'[l].from)
                      /\ (\A l \in Desks : ~Books(l)') => Story(book, DOMAIN book, "FREE", plan')
    BY <1>1 DEF MemberStory, Story
  <2>1. \A l \in Desks \ {k} : desk'[l] = desk[l]
    BY <1>3 DEF Turns
  <2>2. \A l \in Desks \ {k} : desk[l].kind # "membership"
    <3>1. \A l \in Desks : desk[l].kind = "membership" => desk[l].target = Member
      BY <1>0 DEF OperationsOK, OperationIs
    <3> QED BY <1>0, <1>1, <3>1 DEF OperationsOK, Alone
  <2>3. \A l \in Desks : desk'[l].kind = "membership" => l = k
    BY <2>1, <2>2
  <2>4. \A l \in Desks : ~Books(l)
    BY <1>1, <2>2 DEF Books
  <2>5. desk[k].from = plan /\ Story(book, DOMAIN book, "FREE", plan)
    BY <1>0, <1>1, <2>4 DEF Records, MemberStory
  <2>6. Books(k)'
    BY <1>3, <1>4 DEF Books
  <2>7. \A l \in Desks : Books(l)' => l = k
    BY <2>3 DEF Books
  <2> QED BY <1>1, <1>3, <1>4, <2>3, <2>5, <2>6, <2>7
<1>10e. EntitlementFollows'
  BY <1>3, <1>4 DEF EntitlementFollows
<1>11. WorkRecorded'
  <2>1. \A w \in Works : desk'[k].kind # w /\ desk[k].kind # w
    BY <1>1, <1>4 DEF Works
  <2> QED BY <1>0, <1>1, <1>3, <1>5, <2>1, WorkKept DEF Records
<1>12. RawRecorded' /\ ViewsAudited'
  BY <1>0, <1>1, <1>3, <1>4, <1>5, RawKept DEF Records, SameLog
<1> QED BY <1>6, <1>7, <1>8, <1>9, <1>10, <1>10e, <1>11, <1>12 DEF ConsoleInv, Records

\* Its entitlements follow.
LEMMA EntitlementsKeep ==
  ASSUME ConsoleInv, NEW k \in Desks, GrantEntitlements(k) PROVE ConsoleInv'
<1>0. ConsoleTypes /\ OperationsOK /\ Supers /\ Records /\ OperationIs(desk[k])
  BY DEF ConsoleInv, OperationsOK
<1>1. /\ desk[k].kind = "membership" /\ desk[k].at = "granting" /\ entitled' = (desk[k].to = "PRO") /\ Reaches(k, "wrote")
      /\ UNCHANGED <<profile, left, book, effects, views, torn, loose, done, plan, log>>
  BY DEF GrantEntitlements, Keeps
<1>2. "wrote" \in StagesOf(desk[k].kind)
  BY <1>1 DEF StagesOf, Works, Stages
<1>3. Turns(k) /\ SameOperation(desk'[k], desk[k]) /\ desk'[k].at = "wrote" /\ desk'[k].from = desk[k].from
  BY <1>0, <1>1, <1>2, ReachesTurns
<1>4. desk'[k].kind = "membership" /\ desk'[k].to = desk[k].to
  BY <1>1, <1>3 DEF SameOperation
<1>5. SameLog
  BY <1>0, <1>1, LogStays
<1>6. ConsoleTypes'
  <2>1. LogTypes' /\ desk' \in [Desks -> OperationRow]
    BY <1>3, <1>5 DEF SameLog, Turns
  <2> QED BY <1>0, <1>1, <2>1, ConsoleTypesNow, ConsoleTypesAre
<1>7. OperationsOK'
  BY <1>0, <1>1, <1>3, <1>5, OperationsKept DEF SameLog, OperationsOK
<1>8. Supers'
  BY <1>0, <1>1, <1>3, <1>4, SupersKept
<1>9. ProfileStory'
  <2>1. \A u : ~Writes(k, u)' /\ ~Writes(k, u)
    BY <1>1, <1>4 DEF Writes
  <2> QED BY <1>0, <1>1, <1>3, <1>4, <1>5, <2>1, ProfileStoryKept DEF Records
<1>10. MemberStory'
  <2>1. Books(k)' /\ Books(k) /\ desk'[k].at # "read"
    BY <1>1, <1>3, <1>4 DEF Books
  <2> QED BY <1>0, <1>1, <1>3, <1>4, <2>1, MemberStoryKept DEF Records
<1>10e. EntitlementFollows'
  <2> SUFFICES ASSUME Member \notin torn PROVE entitled' = (plan = "PRO")
    BY <1>1 DEF EntitlementFollows
  <2>1. desk[k].to = plan
    BY <1>0, <1>1 DEF Records, MemberStory, Books
  <2> QED BY <1>1, <2>1
<1>11. WorkRecorded'
  <2>1. \A w \in Works : desk'[k].kind # w /\ desk[k].kind # w
    BY <1>1, <1>4 DEF Works
  <2> QED BY <1>0, <1>1, <1>3, <1>5, <2>1, WorkKept DEF Records
<1>12. RawRecorded' /\ ViewsAudited'
  BY <1>0, <1>1, <1>3, <1>4, <1>5, RawKept DEF Records, SameLog
<1> QED BY <1>6, <1>7, <1>8, <1>9, <1>10, <1>10e, <1>11, <1>12 DEF ConsoleInv, Records

\* The desks and the rows that are counted are finite.
LEMMA CountsFinite ==
  ASSUME ConsoleTypes, NEW w
  PROVE  /\ IsFiniteSet(WorkRows(w)) /\ IsFiniteSet(Writing(w))
         /\ Cardinality(WorkRows(w)) \in Nat /\ Cardinality(Writing(w)) \in Nat
<1>1. IsFiniteSet(Writing(w))
  BY DesksAssumption, FS_Subset DEF Writing
<1>2. DOMAIN log = 1..Len(log) /\ Len(log) \in Nat
  BY DEF ConsoleTypes
<1>3. IsFiniteSet(1..Len(log))
  BY <1>2, FS_Interval
<1>4. IsFiniteSet(WorkRows(w))
  <2>1. WorkRows(w) \subseteq 1..Len(log)
    BY <1>2 DEF WorkRows
  <2> QED BY <1>3, <2>1, FS_Subset
<1> QED BY <1>1, <1>4, FS_CardinalityType

\* Work is done, and is to be recorded.
LEMMA PerformsKeeps ==
  ASSUME ConsoleInv, NEW k \in Desks, NEW kind \in Works, Performs(k, kind) PROVE ConsoleInv'
<1>0. ConsoleTypes /\ OperationsOK /\ Supers /\ Records /\ OperationIs(desk[k])
  BY DEF ConsoleInv, OperationsOK
<1>1. /\ desk[k].kind = kind /\ desk[k].at = "allowed" /\ effects' = [effects EXCEPT ![kind] = @ + 1] /\ Reaches(k, "wrote")
      /\ UNCHANGED <<profile, left, book, plan, entitled, views, torn, loose, done, log>>
  BY DEF Performs, Keeps
<1>2. "wrote" \in StagesOf(desk[k].kind) /\ desk[k].kind # "none"
  BY <1>1 DEF StagesOf, Works
<1>3. Turns(k) /\ SameOperation(desk'[k], desk[k]) /\ desk'[k].at = "wrote" /\ desk'[k].from = desk[k].from
  BY <1>0, <1>1, <1>2, ReachesTurns
<1>4. desk'[k].kind = kind /\ kind \notin {"profile", "membership", "raw", "none"}
  BY <1>1, <1>3 DEF SameOperation, Works
<1>5. SameLog
  BY <1>0, <1>1, LogStays
<1>e. effects' \in [Works -> Nat] /\ effects'[kind] = effects[kind] + 1 /\ \A w \in Works \ {kind} : effects'[w] = effects[w]
  <2>1. effects \in [Works -> Nat]
    BY <1>0, ConsoleTypesNow
  <2>2. effects[kind] + 1 \in Nat
    BY <2>1
  <2> QED BY <1>1, <2>1, <2>2
<1>6. ConsoleTypes'
  <2>1. LogTypes' /\ desk' \in [Desks -> OperationRow]
    BY <1>3, <1>5 DEF SameLog, Turns
  <2> QED BY <1>0, <1>1, <1>e, <2>1, ConsoleTypesNow, ConsoleTypesAre
<1>7. OperationsOK'
  BY <1>0, <1>1, <1>3, <1>5, OperationsKept DEF SameLog, OperationsOK
<1>8. Supers'
  BY <1>0, <1>1, <1>3, <1>4, SupersKept
<1>9. ProfileStory'
  <2>1. \A u : ~Writes(k, u)' /\ ~Writes(k, u)
    BY <1>1, <1>4 DEF Writes
  <2> QED BY <1>0, <1>1, <1>3, <1>4, <1>5, <2>1, ProfileStoryKept DEF Records
<1>10. MemberStory'
  <2>1. ~Books(k)' /\ ~Books(k)
    BY <1>1, <1>4 DEF Books
  <2> QED BY <1>0, <1>1, <1>3, <1>4, <2>1, MemberStoryKept DEF Records
<1>10e. EntitlementFollows'
  BY <1>0, <1>1, <1>3, <1>4, EntitlementKept DEF Records
<1>11. WorkRecorded'
  <2>1. ASSUME NEW w \in Works, w \notin torn PROVE WorkCounted(w)'
    <3>1. WorkRows(w)' = WorkRows(w) /\ WorkCounted(w)
      BY <1>0, <1>5, <2>1, WorkIs DEF SameLog, Records
    <3>2. CASE w # kind
      <4>1. \A l \in Desks : desk'[l].kind = w /\ desk'[l].at = "wrote" <=> desk[l].kind = w /\ desk[l].at = "wrote"
        BY <1>1, <1>3, <1>4, <3>2 DEF Turns
      <4>2. Writing(w)' = Writing(w)
        BY <4>1 DEF Writing
      <4> QED BY <1>e, <3>1, <3>2, <4>2 DEF WorkCounted
    <3>3. CASE w = kind
      <4>1. Writing(w)' = Writing(w) \cup {k} /\ k \notin Writing(w)
        BY <1>1, <1>3, <1>4, <3>3 DEF Writing, Turns
      <4>2. Cardinality(Writing(w)') = Cardinality(Writing(w)) + 1
        BY <1>0, <4>1, CountsFinite, FS_AddElement
      <4>3. effects'[w] = effects[w] + 1 /\ effects[w] = Cardinality(WorkRows(w)) + Cardinality(Writing(w))
        BY <1>e, <3>1, <3>3 DEF WorkCounted
      <4>4. Cardinality(WorkRows(w)) \in Nat /\ Cardinality(Writing(w)) \in Nat
        BY <1>0, CountsFinite
      <4>5. effects'[w] = Cardinality(WorkRows(w)) + (Cardinality(Writing(w)) + 1)
        BY <4>3, <4>4
      <4> QED BY <3>1, <4>2, <4>5 DEF WorkCounted
    <3> QED BY <3>2, <3>3
  <2> QED BY <1>1, <2>1 DEF WorkRecorded, WorkCounted, WorkRows, Writing
<1>12. RawRecorded' /\ ViewsAudited'
  BY <1>0, <1>1, <1>3, <1>4, <1>5, RawKept DEF Records, SameLog
<1> QED BY <1>6, <1>7, <1>8, <1>9, <1>10, <1>10e, <1>11, <1>12 DEF ConsoleInv, Records

\* An operation that ends without its record has torn the records of what it was about.
LEMMA GivesUp ==
  ASSUME ConsoleInv, NEW k \in Desks, Closes(k), desk[k].kind # "none", desk[k].target \in torn',
         torn' \in {torn, torn \cup {desk[k].target}},
         UNCHANGED <<profile, left, log, book, effects, views, loose, done, plan, entitled>>
  PROVE  ConsoleInv'
<1>0. ConsoleTypes /\ OperationsOK /\ Supers /\ Records /\ OperationIs(desk[k])
  BY DEF ConsoleInv, OperationsOK
<1>1. Turns(k) /\ desk'[k].kind = "none" /\ desk'[k].at = "idle" /\ torn \subseteq torn'
  BY <1>0, ClosesIs, NoOperationIs
<1>2. SameLog
  BY <1>0, LogStays
<1>3. ConsoleTypes'
  <2>1. LogTypes' /\ desk' \in [Desks -> OperationRow]
    BY <1>1, <1>2 DEF SameLog, Turns
  <2>2. torn' \subseteq Users \cup Works \cup {Member}
    BY <1>0, ConsoleTypesNow DEF OperationIs
  <2> QED BY <1>0, <2>1, <2>2, ConsoleTypesNow, ConsoleTypesAre
<1>4. OperationsOK'
  BY <1>0, <1>1, <1>2, OperationsKept DEF SameLog, OperationsOK
<1>5. Supers'
  BY <1>0, <1>1, SupersKept
<1>6. ProfileStory'
  <2>1. \A u \in Users \ torn' : ~Writes(k, u)' /\ ~Writes(k, u)
    BY <1>1 DEF Writes
  <2> QED BY <1>0, <1>1, <1>2, <2>1, ProfileStoryKept DEF Records
<1>7. MemberStory'
  <2>1. Member \notin torn' => ~Books(k)' /\ ~Books(k)
    BY <1>0, <1>1 DEF Books, OperationIs
  <2> QED BY <1>0, <1>1, <2>1, MemberStoryKept DEF Records
<1>7e. EntitlementFollows'
  <2>1. Member \notin torn' => desk[k].kind # "membership"
    BY <1>0 DEF OperationIs
  <2> QED BY <1>0, <1>1, <2>1, EntitlementKept DEF Records
<1>8. WorkRecorded'
  <2>1. \A w \in Works \ torn' : desk'[k].kind # w /\ desk[k].kind # w
    BY <1>0, <1>1 DEF OperationIs, Works
  <2> QED BY <1>0, <1>1, <1>2, <2>1, WorkKept DEF Records
<1>9. RawRecorded' /\ ViewsAudited'
  BY <1>0, <1>1, <1>2, RawKept DEF Records, SameLog
<1> QED BY <1>3, <1>4, <1>5, <1>6, <1>7, <1>7e, <1>8, <1>9 DEF ConsoleInv, Records

\* The row of an operation.
LEMMA RowIs ==
  ASSUME NEW o \in OperationRow, o.kind # "none", OperationIs(o)
  PROVE  /\ Row(o) \in LogRow /\ Row(o).actor = o.actor /\ Row(o).action = o.kind /\ Row(o).target = o.target
         /\ Row(o).from = o.from /\ Row(o).to = o.to /\ o.kind \in Kinds /\ o.actor \in Users
BY DEF Row, LogRow, OperationRow, OperationIs

\* The record of an operation whose actor is there.
LEMMA AuditKeeps ==
  ASSUME ConsoleInv, NEW k \in Desks, createAuditLog(k) PROVE ConsoleInv'
<1> DEFINE row == Row(desk[k])
<1>0. ConsoleTypes /\ OperationsOK /\ Supers /\ Records /\ OperationIs(desk[k]) /\ desk[k] \in OperationRow
  BY DeskIs DEF ConsoleInv, OperationsOK
<1>1. /\ desk[k].at = "wrote" /\ desk[k].kind # "none"
      /\ UNCHANGED <<profile, left, book, effects, views, torn, loose, done, plan, entitled>>
  BY <1>0, NoOperationIs DEF createAuditLog, Quiet, Keeps, OperationIs
<1>2. CASE desk[k].actor \in left
  <2>1. Closes(k) /\ UNCHANGED log
    BY <1>2 DEF createAuditLog
  <2>2. desk[k].target \in torn
    BY <1>0, <1>1, <1>2 DEF OperationsOK, LeftIsTorn
  <2> QED BY <1>1, <2>1, <2>2, GivesUp
<1>3. CASE desk[k].actor \notin left
  <2>0. /\ row \in LogRow /\ row.actor = desk[k].actor /\ row.action = desk[k].kind /\ row.target = desk[k].target
        /\ row.from = desk[k].from /\ row.to = desk[k].to /\ desk[k].kind \in Kinds /\ desk[k].actor \in Users
    BY <1>0, <1>1, RowIs
  <2>1. log' = Append(log, row)
    BY <1>3 DEF createAuditLog, Recorded
  <2>2. \/ desk[k].kind \in {"raw", "membership"} /\ Reaches(k, "recorded")
        \/ desk[k].kind \notin {"raw", "membership"} /\ Closes(k)
    BY <1>3 DEF createAuditLog
  <2> HIDE DEF row
  <2>3. \/ /\ desk[k].kind \in {"raw", "membership"} /\ Turns(k) /\ SameOperation(desk'[k], desk[k])
           /\ desk'[k].at = "recorded" /\ desk'[k].from = desk[k].from
        \/ desk[k].kind \notin {"raw", "membership"} /\ Turns(k) /\ desk'[k].kind = "none" /\ desk'[k].at = "idle"
    <3>1. CASE desk[k].kind \in {"raw", "membership"} /\ Reaches(k, "recorded")
      <4>1. "recorded" \in StagesOf(desk[k].kind)
        BY <3>1 DEF StagesOf, Works, Stages
      <4> QED BY <1>0, <1>1, <3>1, <4>1, ReachesTurns
    <3>2. CASE desk[k].kind \notin {"raw", "membership"} /\ Closes(k)
      BY <1>0, <3>2, ClosesIs, NoOperationIs
    <3> QED BY <2>2, <3>1, <3>2
  <2>4. Turns(k)
    BY <2>3
  <2>5. LogTypes' /\ WorkIsNamed'
    <3>1. row.action \in Works => row.target = row.action
      BY <1>0, <2>0 DEF OperationIs
    <3>2. /\ row.action \in Kinds \cup {"denied"} /\ row.actor \in Users \ left
          /\ row.target \in Users \cup Works \cup {Member}
      BY <1>0, <1>1, <1>3, <2>0 DEF OperationIs
    <3> QED BY <1>0, <1>1, <2>0, <2>1, <3>1, <3>2, RowsAdded DEF OperationsOK
  <2>6. ConsoleTypes'
    <3>1. desk' \in [Desks -> OperationRow]
      BY <2>4 DEF Turns
    <3> QED BY <1>0, <1>1, <2>5, <3>1, ConsoleTypesNow, ConsoleTypesAre
  <2>7. OperationsOK'
    BY <1>0, <1>1, <2>4, <2>5, OperationsKept
  <2>8. Supers'
    BY <1>0, <1>1, <2>3, <2>4, SupersKept
  <2>9. ProfileStory'
    <3> SUFFICES ASSUME NEW u \in Users, u \notin torn
                 PROVE  /\ \A l \in Desks :
                             desk'[l].kind = "profile" /\ desk'[l].target = u /\ desk'[l].at \in {"read", "counting", "cleared"}
                               => desk'[l].from = profile[u]
                        /\ \A l \in Desks : Writes(l, u)' =>
                             desk'[l].to = profile[u] /\ Story(log', ProfileRows(u)', Founders[u], desk'[l].from)
                        /\ (\A l \in Desks : ~Writes(l, u)') => Story(log', ProfileRows(u)', Founders[u], profile[u])
      BY <1>1 DEF ProfileStory, Story
    <3>0. ProfileRows(u) \subseteq DOMAIN log
      BY DEF ProfileRows
    <3>1. \A l \in Desks \ {k} : desk'[l] = desk[l]
      BY <2>4 DEF Turns
    <3>2. /\ DOMAIN log \subseteq Nat /\ Next1 \in Nat /\ log'[Next1] = row
          /\ \A i \in ProfileRows(u) : log'[i] = log[i] /\ i < Next1
      BY <1>0, <2>0, <2>1, <3>0, RowAdded
    <3>k. ~(desk'[k].kind = "profile" /\ desk'[k].at \in {"read", "counting", "cleared", "wrote"})
      BY <2>3
    <3>3. \A l \in Desks :
            desk'[l].kind = "profile" /\ desk'[l].target = u /\ desk'[l].at \in {"read", "counting", "cleared"}
              => desk'[l].from = profile[u]
      BY <1>0, <3>1, <3>k DEF Records, ProfileStory
    <3>4. \A l \in Desks : Writes(l, u)' => l # k /\ Writes(l, u) /\ desk'[l] = desk[l]
      BY <3>1, <3>k DEF Writes
    <3>5. CASE desk[k].kind = "profile" /\ desk[k].target = u
      <4>1. Writes(k, u)
        BY <1>1, <3>5 DEF Writes
      <4>2. desk[k].to = profile[u] /\ Story(log, ProfileRows(u), Founders[u], desk[k].from)
        BY <1>0, <4>1 DEF Records, ProfileStory
      <4>3. ProfileRows(u)' = ProfileRows(u) \cup {Next1}
        BY <1>0, <2>0, <2>1, <3>5, RowsAdded
      <4>4. ProfileRows(u) \in SUBSET Nat
        BY <3>0, <3>2
      <4>5. Story(log', ProfileRows(u) \cup {Next1}, Founders[u], profile[u])
        BY <2>0, <3>2, <4>2, <4>4, StoryGoesOn
      <4>6. \A l \in Desks : ~Writes(l, u)'
        <5>1. \A l \in Desks \ {k} : ~(desk[l].kind = "profile" /\ desk[l].target = u)
          BY <1>0, <3>5 DEF OperationsOK, Alone
        <5> QED BY <3>4, <5>1 DEF Writes
      <4> QED BY <3>3, <4>3, <4>5, <4>6
    <3>6. CASE ~(desk[k].kind = "profile" /\ desk[k].target = u)
      <4>1. ProfileRows(u)' = ProfileRows(u)
        BY <1>0, <2>0, <2>1, <3>6, RowsAdded
      <4>2. \A last : Story(log, ProfileRows(u), Founders[u], last) => Story(log', ProfileRows(u)', Founders[u], last)
        BY <3>2, <4>1, StorySame
      <4>3. \A l \in Desks : Writes(l, u) => l # k /\ Writes(l, u)'
        BY <3>1, <3>6 DEF Writes
      <4>4. \A l \in Desks : Writes(l, u)' =>
              desk'[l].to = profile[u] /\ Story(log', ProfileRows(u)', Founders[u], desk'[l].from)
        BY <1>0, <3>4, <4>2 DEF Records, ProfileStory
      <4>5. (\A l \in Desks : ~Writes(l, u)') => Story(log', ProfileRows(u)', Founders[u], profile[u])
        BY <1>0, <4>2, <4>3 DEF Records, ProfileStory
      <4> QED BY <3>3, <4>4, <4>5
    <3> QED BY <3>5, <3>6
  <2>10. MemberStory'
    <3>1. Books(k)' <=> Books(k)
      BY <1>1, <2>3 DEF Books, SameOperation
    <3>2. Books(k) => desk'[k].to = desk[k].to /\ desk'[k].from = desk[k].from
      BY <2>3 DEF Books, SameOperation
    <3>3. desk'[k].at # "read"
      BY <2>3
    <3> QED BY <1>0, <1>1, <2>4, <3>1, <3>2, <3>3, MemberStoryKept DEF Records
  <2>10e. EntitlementFollows'
    BY <1>0, <1>1, <2>4, EntitlementKept DEF Records
  <2>11. WorkRecorded'
    <3>1. ASSUME NEW w \in Works, w \notin torn PROVE WorkCounted(w)'
      <4>1. WorkCounted(w) /\ w \notin {"raw", "membership", "none"}
        BY <1>0, <3>1, WorkIs DEF Records, Works
      <4>2. CASE w # desk[k].kind
        <5>1. WorkRows(w)' = WorkRows(w)
          BY <1>0, <2>0, <2>1, <4>2, RowsAdded
        <5>2. desk'[k].kind # w
          BY <2>3, <4>1, <4>2 DEF SameOperation
        <5>3. Writing(w)' = Writing(w)
          BY <2>4, <4>2, <5>2 DEF Writing, Turns
        <5> QED BY <1>1, <4>1, <5>1, <5>3 DEF WorkCounted
      <4>3. CASE w = desk[k].kind
        <5>1. WorkRows(w)' = WorkRows(w) \cup {Next1} /\ Next1 \notin WorkRows(w)
          <6>1. Next1 \notin DOMAIN log
            BY <1>0, <2>0, <2>1, RowAdded
          <6>2. Next1 \notin WorkRows(w)
            BY <6>1 DEF WorkRows
          <6>3. WorkRows(w)' = WorkRows(w) \cup {Next1}
            BY <1>0, <2>0, <2>1, <4>3, RowsAdded
          <6> QED BY <6>2, <6>3
        <5>2. desk'[k].kind = "none"
          BY <2>3, <4>1, <4>3
        <5>3. Writing(w)' = Writing(w) \ {k} /\ k \in Writing(w)
          BY <1>1, <2>4, <4>1, <4>3, <5>2 DEF Writing, Turns
        <5>4. Cardinality(WorkRows(w)') = Cardinality(WorkRows(w)) + 1
          BY <1>0, <5>1, CountsFinite, FS_AddElement
        <5>5. Cardinality(Writing(w)') = Cardinality(Writing(w)) - 1
          BY <1>0, <5>3, CountsFinite, FS_RemoveElement
        <5>6. Cardinality(WorkRows(w)) \in Nat /\ Cardinality(Writing(w)) \in Nat
          BY <1>0, CountsFinite
        <5>7. effects'[w] = Cardinality(WorkRows(w)) + Cardinality(Writing(w))
          BY <1>1, <4>1 DEF WorkCounted
        <5>8. effects'[w] = Cardinality(WorkRows(w)') + Cardinality(Writing(w)')
          BY <5>4, <5>5, <5>6, <5>7
        <5> QED BY <5>8 DEF WorkCounted
      <4> QED BY <4>2, <4>3
    <3> QED BY <1>1, <3>1 DEF WorkRecorded, WorkCounted, WorkRows, Writing
  <2>12. RawRecorded' /\ ViewsAudited'
    <3>1. \A a, t : InLog(a, t) => InLog(a, t)'
      BY <1>0, <2>0, <2>1, RowsAdded
    <3>2. desk'[k].kind = "raw" => \A a, t : a = desk'[k].actor /\ t = desk'[k].target => InLog(a, t)'
      <4>1. desk'[k].kind = "raw" => row.action = "raw" /\ row.actor = desk'[k].actor /\ row.target = desk'[k].target
        BY <2>0, <2>3 DEF SameOperation
      <4> QED BY <1>0, <2>0, <2>1, <4>1, RowsAdded
    <3> QED BY <1>0, <1>1, <2>4, <3>1, <3>2, RawKept DEF Records
  <2> QED BY <2>6, <2>7, <2>8, <2>9, <2>10, <2>10e, <2>11, <2>12 DEF ConsoleInv, Records
<1> QED BY <1>2, <1>3

\* A membership is entered in its book.
LEMMA BookKeeps ==
  ASSUME ConsoleInv, NEW k \in Desks, RecordMembership(k) PROVE ConsoleInv'
<1>0. ConsoleTypes /\ OperationsOK /\ Supers /\ Records /\ OperationIs(desk[k]) /\ desk[k] \in OperationRow
  BY DeskIs DEF ConsoleInv, OperationsOK
<1>1. /\ desk[k].kind = "membership" /\ desk[k].at = "recorded" /\ Closes(k)
      /\ UNCHANGED <<profile, left, log, effects, views, torn, loose, done, plan, entitled>>
  BY DEF RecordMembership, Quiet, Keeps
<1>t. desk[k].target = Member
  BY <1>0, <1>1 DEF OperationIs
<1>2. CASE desk[k].actor \in left
  <2>1. UNCHANGED book
    BY <1>2 DEF RecordMembership
  <2>2. desk[k].target \in torn
    BY <1>0, <1>1, <1>2 DEF OperationsOK, LeftIsTorn
  <2> QED BY <1>1, <2>1, <2>2, GivesUp
<1>3. CASE desk[k].actor \notin left
  <2> DEFINE row == [from |-> desk[k].from, to |-> desk[k].to]
             n == Len(book) + 1
  <2>1. book' = Append(book, row)
    BY <1>3 DEF RecordMembership
  <2>2. row \in BookRow /\ row.from = desk[k].from /\ row.to = desk[k].to
    BY <1>0 DEF OperationRow, BookRow
  <2> HIDE DEF row
  <2>3. book \in Seq(BookRow)
    BY <1>0, ConsoleTypesNow
  <2>4. /\ book' \in Seq(BookRow) /\ DOMAIN book' = DOMAIN book \cup {n} /\ book'[n] = row
        /\ \A i \in DOMAIN book : book'[i] = book[i] /\ i < n
        /\ n \in Nat /\ DOMAIN book \subseteq Nat
    BY <2>1, <2>2, <2>3, AppendIs
  <2> HIDE DEF n
  <2>5. Turns(k) /\ desk'[k].kind = "none" /\ desk'[k].at = "idle"
    BY <1>0, <1>1, ClosesIs, NoOperationIs
  <2>6. SameLog
    BY <1>0, <1>1, LogStays
  <2>7. ConsoleTypes'
    <3>1. LogTypes' /\ desk' \in [Desks -> OperationRow]
      BY <2>5, <2>6 DEF SameLog, Turns
    <3> QED BY <1>0, <1>1, <2>4, <3>1, ConsoleTypesNow, ConsoleTypesAre
  <2>8. OperationsOK'
    BY <1>0, <1>1, <2>5, <2>6, OperationsKept DEF SameLog, OperationsOK
  <2>9. Supers'
    BY <1>0, <1>1, <2>5, SupersKept
  <2>10. ProfileStory'
    <3>1. \A u : ~Writes(k, u)' /\ ~Writes(k, u)
      BY <1>1, <2>5 DEF Writes
    <3> QED BY <1>0, <1>1, <2>5, <2>6, <3>1, ProfileStoryKept DEF Records
  <2>11. MemberStory'
    <3> SUFFICES ASSUME Member \notin torn
                 PROVE  /\ \A l \in Desks : desk'[l].kind = "membership" /\ desk'[l].at = "read" => desk'[l].from = plan
                        /\ \A l \in Desks : Books(l)' => desk'[l].to = plan /\ Story(book', DOMAIN book', "FREE", desk'[l].from)
                        /\ (\A l \in Desks : ~Books(l)') => Story(book', DOMAIN book', "FREE", plan)
      BY <1>1 DEF MemberStory, Story
    <3>1. \A l \in Desks \ {k} : desk'[l] = desk[l]
      BY <2>5 DEF Turns
    <3>2. \A l \in Desks \ {k} : desk[l].kind # "membership"
      <4>1. \A l \in Desks : desk[l].kind = "membership" => desk[l].target = Member
        BY <1>0 DEF OperationsOK, OperationIs
      <4> QED BY <1>0, <1>1, <4>1 DEF OperationsOK, Alone
    <3>3. \A l \in Desks : desk'[l].kind # "membership"
      BY <2>5, <3>1, <3>2
    <3>4. \A l \in Desks : ~Books(l)'
      BY <3>3 DEF Books
    <3>5. desk[k].to = plan /\ Story(book, DOMAIN book, "FREE", desk[k].from)
      BY <1>0, <1>1 DEF Records, MemberStory, Books
    <3>6. DOMAIN book \in SUBSET Nat
      BY <2>4
    <3>7. Story(book', DOMAIN book \cup {n}, "FREE", plan)
      BY <2>2, <2>4, <3>5, <3>6, StoryGoesOn
    <3> QED BY <2>4, <3>3, <3>4, <3>7
  <2>11e. EntitlementFollows'
    BY <1>0, <1>1, <2>5, EntitlementKept DEF Records
  <2>12. WorkRecorded'
    <3>1. \A w \in Works : desk'[k].kind # w /\ desk[k].kind # w
      BY <1>1, <2>5 DEF Works
    <3> QED BY <1>0, <1>1, <2>5, <2>6, <3>1, WorkKept DEF Records
  <2>13. RawRecorded' /\ ViewsAudited'
    BY <1>0, <1>1, <2>5, <2>6, RawKept DEF Records, SameLog
  <2> QED BY <2>7, <2>8, <2>9, <2>10, <2>11, <2>11e, <2>12, <2>13 DEF ConsoleInv, Records
<1> QED BY <1>2, <1>3

\* A user's words are shown.
LEMMA RawKeeps ==
  ASSUME ConsoleInv, NEW k \in Desks, getRawUserContent(k) PROVE ConsoleInv'
<1>0. ConsoleTypes /\ OperationsOK /\ Supers /\ Records /\ OperationIs(desk[k]) /\ desk[k] \in OperationRow
  BY DeskIs DEF ConsoleInv, OperationsOK
<1>1. /\ desk[k].kind = "raw" /\ desk[k].at = "recorded" /\ Closes(k)
      /\ views' = views \cup {[actor |-> desk[k].actor, target |-> desk[k].target]}
      /\ UNCHANGED <<profile, left, log, book, effects, torn, loose, done, plan, entitled>>
  BY DEF getRawUserContent
<1>2. Turns(k) /\ desk'[k].kind = "none" /\ desk'[k].at = "idle"
  BY <1>0, <1>1, ClosesIs, NoOperationIs
<1>3. SameLog
  BY <1>0, <1>1, LogStays
<1>4. ConsoleTypes'
  <2>1. LogTypes' /\ desk' \in [Desks -> OperationRow]
    BY <1>2, <1>3 DEF SameLog, Turns
  <2>2. [actor |-> desk[k].actor, target |-> desk[k].target] \in [actor : Users, target : Things]
    BY <1>0, <1>1 DEF OperationIs, OperationRow
  <2>3. views' \in SUBSET [actor : Users, target : Things]
    BY <1>0, <1>1, <2>2, ConsoleTypesNow
  <2> QED BY <1>0, <1>1, <2>1, <2>3, ConsoleTypesNow, ConsoleTypesAre
<1>5. OperationsOK'
  BY <1>0, <1>1, <1>2, <1>3, OperationsKept DEF SameLog, OperationsOK
<1>6. Supers'
  BY <1>0, <1>1, <1>2, SupersKept
<1>7. ProfileStory'
  <2>1. \A u : ~Writes(k, u)' /\ ~Writes(k, u)
    BY <1>1, <1>2 DEF Writes
  <2> QED BY <1>0, <1>1, <1>2, <1>3, <2>1, ProfileStoryKept DEF Records
<1>8. MemberStory'
  <2>1. ~Books(k)' /\ ~Books(k)
    BY <1>1, <1>2 DEF Books
  <2> QED BY <1>0, <1>1, <1>2, <2>1, MemberStoryKept DEF Records
<1>8e. EntitlementFollows'
  BY <1>0, <1>1, <1>2, EntitlementKept DEF Records
<1>9. WorkRecorded'
  <2>1. \A w \in Works : desk'[k].kind # w /\ desk[k].kind # w
    BY <1>1, <1>2 DEF Works
  <2> QED BY <1>0, <1>1, <1>2, <1>3, <2>1, WorkKept DEF Records
<1>10. RawRecorded'
  <2>1. \A l \in Desks : desk'[l].kind = "raw" => desk'[l] = desk[l]
    BY <1>2 DEF Turns
  <2> QED BY <1>0, <1>1, <2>1 DEF Records, RawRecorded, InLog
<1>11. ViewsAudited'
  <2>1. \A v \in views : v.actor \in left \/ InLog(v.actor, v.target)
    BY <1>0, ViewsIs DEF Records
  <2>2. desk[k].actor \in left \/ InLog(desk[k].actor, desk[k].target)
    BY <1>0, <1>1 DEF Records, RawRecorded
  <2>3. ASSUME NEW v \in views' PROVE v.actor \in left \/ InLog(v.actor, v.target)
    <3>1. CASE v \in views
      BY <2>1, <3>1
    <3>2. CASE v = [actor |-> desk[k].actor, target |-> desk[k].target]
      <4>1. v.actor = desk[k].actor /\ v.target = desk[k].target
        BY <3>2
      <4> QED BY <2>2, <4>1
    <3> QED BY <1>1, <2>3, <3>1, <3>2
  <2> QED BY <1>1, <2>3 DEF ViewsAudited, InLog
<1> QED BY <1>4, <1>5, <1>6, <1>7, <1>8, <1>8e, <1>9, <1>10, <1>11 DEF ConsoleInv, Records

\* An operation dies: one that has written leaves its records torn.
LEMMA DiesKeeps ==
  ASSUME ConsoleInv, NEW k \in Desks, OperationDies(k) PROVE ConsoleInv'
<1>0. ConsoleTypes /\ OperationIs(desk[k])
  BY DEF ConsoleInv, OperationsOK
<1>1. /\ Closes(k) /\ desk[k].kind # "none"
      /\ torn' = (IF desk[k].at \in {"granting", "wrote", "recorded"} THEN torn \cup {desk[k].target} ELSE torn)
      /\ UNCHANGED <<profile, left, log, book, effects, views, loose, done, plan, entitled>>
  BY <1>0 DEF OperationDies, OperationIs
<1>2. CASE desk[k].at \in {"granting", "wrote", "recorded"}
  <2>1. torn' = torn \cup {desk[k].target}
    BY <1>1, <1>2
  <2>2. desk[k].target \in torn' /\ torn' \in {torn, torn \cup {desk[k].target}}
    BY <2>1
  <2> QED BY <1>1, <2>2, GivesUp
<1>3. CASE desk[k].at \notin {"granting", "wrote", "recorded"}
  <2>1. QuietTurn(k) /\ torn' = torn
    BY <1>0, <1>1, <1>3, ClosesQuietly
  <2>2. QuietStep(k)
    BY <1>1, <2>1 DEF QuietStep, QuietLog
  <2> QED BY <2>2, QuietKeeps
<1> QED BY <1>2, <1>3

\* An operation begins, beside others.
LEMMA BeginKeeps ==
  ASSUME ConsoleInv, NEW k \in Desks, NEW o \in OperationRow, OperationIs(o), o.kind # "none", o.at = "asked", Begin(k, o)
  PROVE  ConsoleInv'
<1>0. ConsoleTypes /\ OperationsOK /\ Supers /\ Records
  BY DEF ConsoleInv
<1>1. /\ desk[k] = NoOperation /\ o.actor \notin left /\ Sets(k, o) /\ done' = done + 1
      /\ UNCHANGED <<profile, left, log, book, effects, views>> /\ plan' = plan /\ entitled' = entitled
  BY DEF Begin, rewardVars
<1>2. /\ torn' = (IF o.kind \notin Works /\ Busy(o.target, o.kind) THEN torn \cup {o.target} ELSE torn)
      /\ loose' = (loose \/ (o.kind = "profile" /\ \E l \in Desks : desk[l].kind = "profile"))
  BY DEF Begin, BeginsOver
<1>3. desk' \in [Desks -> OperationRow] /\ desk'[k] = o /\ \A l \in Desks \ {k} : desk'[l] = desk[l]
  BY <1>0, <1>1, SetsIs
<1>4. desk[k].kind = "none" /\ desk[k].at = "idle"
  BY <1>1, NoOperationIs
<1>5. torn \subseteq torn' /\ torn' \subseteq torn \cup {o.target}
  BY <1>2
<1>6. SameLog
  BY <1>0, <1>1, LogStays
<1>7. ConsoleTypes'
  <2>1. torn' \subseteq Users \cup Works \cup {Member}
    BY <1>0, <1>5, ConsoleTypesNow DEF OperationIs
  <2>2. loose' \in BOOLEAN
    BY <1>2
  <2>3. done' \in Nat
    <3>1. done \in Nat
      BY <1>0, ConsoleTypesNow
    <3> QED BY <1>1, <3>1
  <2> QED BY <1>0, <1>1, <1>3, <1>6, <2>1, <2>2, <2>3, ConsoleTypesNow, ConsoleTypesAre DEF SameLog
<1>8. OperationsOK'
  <2>1. \A l \in Desks : OperationIs(desk'[l])
    BY <1>0, <1>3 DEF OperationsOK
  <2>2. LeftIsTorn'
    BY <1>0, <1>1, <1>3, <1>5 DEF OperationsOK, LeftIsTorn
  <2>3. ASSUME NEW l \in Desks, l # k, o.kind \in {"profile", "membership", "raw"}, desk[l].kind = o.kind, desk[l].target = o.target
        PROVE  o.target \in torn'
    <3>1. o.kind \notin Works /\ Busy(o.target, o.kind)
      BY <2>3 DEF Busy, Works
    <3> QED BY <1>2, <3>1
  <2>4. Alone'
    <3> SUFFICES ASSUME NEW l \in Desks, NEW m \in Desks, l # m, desk'[l].kind \in {"profile", "membership", "raw"},
                        desk'[m].kind = desk'[l].kind, desk'[m].target = desk'[l].target
                 PROVE  desk'[l].target \in torn'
      BY DEF Alone
    <3>1. CASE l = k
      BY <1>3, <2>3, <3>1
    <3>2. CASE m = k
      BY <1>3, <2>3, <3>2
    <3>3. CASE l # k /\ m # k
      <4>1. desk'[l] = desk[l] /\ desk'[m] = desk[m]
        BY <1>3, <3>3
      <4> QED BY <1>0, <1>5, <4>1 DEF OperationsOK, Alone
    <3> QED BY <3>1, <3>2, <3>3
  <2> QED BY <1>0, <1>6, <2>1, <2>2, <2>4 DEF OperationsOK, SameLog, OperationIs
<1>9. Supers'
  <2>1. OneProfile'
    <3> SUFFICES ASSUME ~loose', NEW l \in Desks, NEW m \in Desks, desk'[l].kind = "profile", desk'[m].kind = "profile"
                 PROVE  l = m
      BY DEF OneProfile
    <3>1. o.kind = "profile" => \A d \in Desks : desk[d].kind # "profile"
      BY <1>2
    <3> QED BY <1>0, <1>2, <1>3, <3>1 DEF Supers, OneProfile
  <2>2. AnotherIsThere'
    <3> SUFFICES ASSUME ~loose', NEW l \in Desks, desk'[l].kind = "profile", desk'[l].at = "cleared", NeedsAnother(desk[l])'
                 PROVE  OtherSupers(desk[l].target)' # {}
      BY DEF AnotherIsThere
    <3>1. desk'[l] = desk[l]
      BY <1>3
    <3>2. NeedsAnother(desk[l]) /\ ~loose
      BY <1>1, <1>2, <3>1 DEF NeedsAnother
    <3>3. OtherSupers(desk[l].target) # {}
      BY <1>0, <3>1, <3>2 DEF Supers, AnotherIsThere
    <3> QED BY <1>1, <3>1, <3>3 DEF OtherSupers
  <2>3. SomeSuperAdmin'
    BY <1>0, <1>1, <1>2 DEF Supers, SomeSuperAdmin
  <2> QED BY <2>1, <2>2, <2>3 DEF Supers
<1>10. ProfileStory'
  <2>1. \A u : \A l \in Desks : Writes(l, u)' <=> Writes(l, u)
    BY <1>3, <1>4 DEF Writes
  <2>2. \A u : \A l \in Desks : Writes(l, u) => desk'[l] = desk[l]
    BY <1>3, <1>4 DEF Writes
  <2>3. \A l \in Desks : desk'[l].at \in {"read", "counting", "cleared"} => desk'[l] = desk[l]
    BY <1>3
  <2> SUFFICES ASSUME NEW u \in Users, u \notin torn'
               PROVE  /\ \A l \in Desks :
                           desk'[l].kind = "profile" /\ desk'[l].target = u /\ desk'[l].at \in {"read", "counting", "cleared"}
                             => desk'[l].from = profile[u]
                      /\ \A l \in Desks : Writes(l, u)' =>
                           desk'[l].to = profile[u] /\ Story(log, ProfileRows(u), Founders[u], desk'[l].from)
                      /\ (\A l \in Desks : ~Writes(l, u)') => Story(log, ProfileRows(u), Founders[u], profile[u])
    BY <1>1 DEF ProfileStory, Story, ProfileRows
  <2>4. u \notin torn
    BY <1>5
  <2>5. \A l \in Desks :
          desk'[l].kind = "profile" /\ desk'[l].target = u /\ desk'[l].at \in {"read", "counting", "cleared"}
            => desk'[l].from = profile[u]
    BY <1>0, <2>3, <2>4 DEF Records, ProfileStory
  <2>6. \A l \in Desks : Writes(l, u)' =>
          desk'[l].to = profile[u] /\ Story(log, ProfileRows(u), Founders[u], desk'[l].from)
    BY <1>0, <2>1, <2>2, <2>4 DEF Records, ProfileStory
  <2>7. (\A l \in Desks : ~Writes(l, u)') => Story(log, ProfileRows(u), Founders[u], profile[u])
    BY <1>0, <2>1, <2>4 DEF Records, ProfileStory
  <2> QED BY <2>5, <2>6, <2>7
<1>11. MemberStory'
  <2>1. \A l \in Desks : (Books(l)' <=> Books(l)) /\ (Books(l) => desk'[l] = desk[l])
    BY <1>3, <1>4 DEF Books
  <2>2. \A l \in Desks : desk'[l].at = "read" => desk'[l] = desk[l]
    BY <1>3
  <2> SUFFICES ASSUME Member \notin torn'
               PROVE  /\ \A l \in Desks : desk'[l].kind = "membership" /\ desk'[l].at = "read" => desk'[l].from = plan
                      /\ \A l \in Desks : Books(l)' => desk'[l].to = plan /\ Story(book, DOMAIN book, "FREE", desk'[l].from)
                      /\ (\A l \in Desks : ~Books(l)') => Story(book, DOMAIN book, "FREE", plan)
    BY <1>1 DEF MemberStory, Story
  <2>3. Member \notin torn
    BY <1>5
  <2>4. \A l \in Desks : desk'[l].kind = "membership" /\ desk'[l].at = "read" => desk'[l].from = plan
    BY <1>0, <2>2, <2>3 DEF Records, MemberStory
  <2>5. \A l \in Desks : Books(l)' => desk'[l].to = plan /\ Story(book, DOMAIN book, "FREE", desk'[l].from)
    BY <1>0, <2>1, <2>3 DEF Records, MemberStory
  <2>6. (\A l \in Desks : ~Books(l)') => Story(book, DOMAIN book, "FREE", plan)
    BY <1>0, <2>1, <2>3 DEF Records, MemberStory
  <2> QED BY <2>4, <2>5, <2>6
<1>11e. EntitlementFollows'
  <2>1. \A l \in Desks : desk[l].at = "granting" => desk'[l] = desk[l]
    BY <1>3, <1>4
  <2>2. Member \notin torn' => Member \notin torn
    BY <1>5
  <2> QED BY <1>0, <1>1, <2>1, <2>2 DEF Records, EntitlementFollows
<1>12. WorkRecorded'
  <2>1. ASSUME NEW w \in Works, w \notin torn' PROVE WorkCounted(w)'
    <3>1. WorkRows(w)' = WorkRows(w)
      BY <1>6 DEF SameLog
    <3>2. Writing(w)' = Writing(w)
      BY <1>3, <1>4 DEF Writing
    <3>3. WorkCounted(w)
      BY <1>0, <1>5, <2>1, WorkIs DEF Records
    <3> QED BY <1>1, <3>1, <3>2, <3>3 DEF WorkCounted
  <2> QED BY <2>1 DEF WorkRecorded, WorkCounted, WorkRows, Writing
<1>13. RawRecorded' /\ ViewsAudited'
  <2>1. \A l \in Desks : desk'[l].at = "recorded" => desk'[l] = desk[l]
    BY <1>3
  <2>2. RawRecorded'
    BY <1>0, <1>1, <2>1 DEF Records, RawRecorded, InLog
  <2>3. ViewsAudited'
    BY <1>0, <1>1 DEF Records, ViewsAudited
  <2> QED BY <2>2, <2>3
<1> QED BY <1>7, <1>8, <1>9, <1>10, <1>11, <1>11e, <1>12, <1>13 DEF ConsoleInv, Records

\* What an administrator asks for.
LEMMA OperationsAre ==
  ASSUME NEW kind \in Kinds, NEW u \in Users, NEW t \in Users \cup Works \cup {Member}, NEW to \in Values,
         kind \in Works => t = kind, kind = "profile" => t \in Users /\ to \in Profiles,
         kind = "membership" => t = Member /\ to \in {"FREE", "PRO"}
  PROVE  /\ Operation(kind, u, t, to) \in OperationRow /\ OperationIs(Operation(kind, u, t, to))
         /\ Operation(kind, u, t, to).kind # "none" /\ Operation(kind, u, t, to).at = "asked"
<1> DEFINE o == Operation(kind, u, t, to)
<1>1. o = [kind |-> kind, at |-> "asked", actor |-> u, target |-> t, to |-> to, from |-> to]
  BY DEF Operation
<1> HIDE DEF o
<1>2. kind # "none"
  BY DEF Kinds, Works
<1>3. o \in OperationRow
  BY <1>1 DEF OperationRow, Stages, Things
<1>4. OperationIs(o)
  BY <1>1, <1>2 DEF OperationIs
<1> QED BY <1>1, <1>2, <1>3, <1>4 DEF o

LEMMA AsksKeeps ==
  ASSUME ConsoleInv, BoardTypes, NEW k \in Desks, Asks(k) PROVE ConsoleInv'
<1>1. PICK u \in Users :
        \/ "profile" \in scene.kinds /\ \E t \in Users, p \in scene.profiles : Begin(k, Operation("profile", u, t, p))
        \/ "raw" \in scene.kinds /\ Begin(k, Operation("raw", u, Member, NoProfile))
        \/ "membership" \in scene.kinds /\ \E p \in {"FREE", "PRO"} : Begin(k, Operation("membership", u, Member, p))
        \/ \E kind \in Works \cap scene.kinds : Begin(k, Operation(kind, u, kind, NoProfile))
  BY DEF Asks
<1>2. ASSUME NEW t \in Users, NEW p \in scene.profiles, Begin(k, Operation("profile", u, t, p)) PROVE ConsoleInv'
  <2>1. p \in Profiles
    BY ProfilesAssumption DEF BoardTypes
  <2>2. "profile" \in Kinds /\ "profile" \notin Works /\ p \in Values
    BY <2>1 DEF Kinds, Works, Values
  <2> DEFINE o == Operation("profile", u, t, p)
  <2>3. o \in OperationRow /\ OperationIs(o) /\ o.kind # "none" /\ o.at = "asked"
    BY <2>1, <2>2, OperationsAre
  <2> HIDE DEF o
  <2>4. Begin(k, o)
    BY <1>2 DEF o
  <2> QED BY <2>3, <2>4, BeginKeeps
<1>3. ASSUME Begin(k, Operation("raw", u, Member, NoProfile)) PROVE ConsoleInv'
  <2>2. "raw" \in Kinds /\ "raw" \notin Works /\ NoProfile \in Values
    BY DEF Kinds, Works, Values
  <2> DEFINE o == Operation("raw", u, Member, NoProfile)
  <2>3. o \in OperationRow /\ OperationIs(o) /\ o.kind # "none" /\ o.at = "asked"
    BY <2>2, OperationsAre
  <2> HIDE DEF o
  <2>4. Begin(k, o)
    BY <1>3 DEF o
  <2> QED BY <2>3, <2>4, BeginKeeps
<1>4. ASSUME NEW p \in {"FREE", "PRO"}, Begin(k, Operation("membership", u, Member, p)) PROVE ConsoleInv'
  <2>2. "membership" \in Kinds /\ "membership" \notin Works /\ p \in Values
    BY DEF Kinds, Works, Values
  <2> DEFINE o == Operation("membership", u, Member, p)
  <2>3. o \in OperationRow /\ OperationIs(o) /\ o.kind # "none" /\ o.at = "asked"
    BY <2>2, OperationsAre
  <2> HIDE DEF o
  <2>4. Begin(k, o)
    BY <1>4 DEF o
  <2> QED BY <2>3, <2>4, BeginKeeps
<1>5. ASSUME NEW kind \in Works, Begin(k, Operation(kind, u, kind, NoProfile)) PROVE ConsoleInv'
  <2>2. kind \in Kinds /\ kind \notin {"profile", "membership"} /\ NoProfile \in Values
    BY DEF Kinds, Works, Values
  <2> DEFINE o == Operation(kind, u, kind, NoProfile)
  <2>3. o \in OperationRow /\ OperationIs(o) /\ o.kind # "none" /\ o.at = "asked"
    BY <2>2, OperationsAre
  <2> HIDE DEF o
  <2>4. Begin(k, o)
    BY <1>5 DEF o
  <2> QED BY <2>3, <2>4, BeginKeeps
<1> QED BY <1>1, <1>2, <1>3, <1>4, <1>5

\* An account is deleted: the rows of this actor are gone, and what they were about is torn.
LEMMA NoRowIs == NoRow \in LogRow /\ NoRow.action = "none"
BY DEF NoRow, LogRow, Things, Values

LEMMA DeleteLog ==
  ASSUME ConsoleTypes, OperationsOK, NEW u \in Users, deleteCurrentUser(u)
  PROVE  /\ LogTypes' /\ DOMAIN log' = DOMAIN log
         /\ \A i \in DOMAIN log : /\ log[i].actor = u => log'[i] = NoRow /\ log[i].target \in torn'
                                  /\ log[i].actor # u => log'[i] = log[i]
<1>1. log' = [i \in DOMAIN log |-> IF log[i].actor = u THEN NoRow ELSE log[i]] /\ left' = left \cup {u}
  BY DEF deleteCurrentUser
<1>2. log \in Seq(LogRow) /\ DOMAIN log = 1..Len(log) /\ Len(log) \in Nat
  BY DEF ConsoleTypes
<1>3. \A i \in DOMAIN log : log[i] \in LogRow
  BY <1>2
<1>4. log' \in [1..Len(log) -> LogRow]
  BY <1>1, <1>2, <1>3, NoRowIs
<1>5. log' \in Seq(LogRow)
  BY <1>2, <1>4
<1>6. DOMAIN log' = DOMAIN log /\ \A i \in DOMAIN log : log'[i] = IF log[i].actor = u THEN NoRow ELSE log[i]
  BY <1>1
<1>7. \A i \in DOMAIN log : log[i] = NoRow \/ (log[i].action \in Kinds \cup {"denied"} /\ log[i].actor \in Users \ left)
  BY DEF ConsoleTypes, AdminTypeOK
<1>8. LogTypes'
  BY <1>1, <1>5, <1>6, <1>7 DEF LogTypes
<1>9. \A i \in DOMAIN log : log[i].actor = u => log[i].target \in torn'
  BY DEF deleteCurrentUser
<1> QED BY <1>6, <1>8, <1>9

LEMMA LeavesKeeps ==
  ASSUME ConsoleInv, NEW u \in Users, deleteCurrentUser(u) PROVE ConsoleInv'
<1>0. ConsoleTypes /\ OperationsOK /\ Supers /\ Records
  BY DEF ConsoleInv
<1>1. /\ left' = left \cup {u} /\ profile' = [profile EXCEPT ![u] = NoProfile]
      /\ loose' = (loose \/ IsSuper(profile[u])) /\ done' = done + 1
      /\ UNCHANGED <<book, effects, desk, views>> /\ plan' = plan /\ entitled' = entitled
  BY DEF deleteCurrentUser, rewardVars
<1>2. /\ LogTypes' /\ DOMAIN log' = DOMAIN log
      /\ \A i \in DOMAIN log : /\ log[i].actor = u => log'[i] = NoRow /\ log[i].target \in torn'
                               /\ log[i].actor # u => log'[i] = log[i]
  BY <1>0, DeleteLog
<1>3. /\ torn \subseteq torn' /\ u \in torn' /\ \A k \in Desks : desk[k].actor = u => desk[k].target \in torn'
  BY DEF deleteCurrentUser
<1>4. torn' \subseteq Users \cup Works \cup {Member}
  <2>1. ASSUME NEW i \in DOMAIN log, log[i].actor = u PROVE log[i].target \in Users \cup Works \cup {Member}
    <3>1. CASE log[i] = NoRow
      BY <2>1, <3>1 DEF NoRow
    <3>2. CASE log[i] # NoRow
      BY <1>0, <3>2 DEF OperationsOK, WorkIsNamed
    <3> QED BY <3>1, <3>2
  <2>2. ASSUME NEW k \in Desks, desk[k].actor = u PROVE desk[k].target \in Users \cup Works \cup {Member}
    <3>1. CASE desk[k].kind = "none"
      BY <1>0, <2>2, <3>1, NoOperationIs DEF OperationsOK, OperationIs
    <3>2. CASE desk[k].kind # "none"
      BY <1>0, <3>2 DEF OperationsOK, OperationIs
    <3> QED BY <3>1, <3>2
  <2>3. torn' = torn \cup {u} \cup {log[i].target : i \in {i \in DOMAIN log : log[i].actor = u}}
                     \cup {desk[k].target : k \in {k \in Desks : desk[k].actor = u}}
    BY DEF deleteCurrentUser
  <2>4. torn \subseteq Users \cup Works \cup {Member}
    BY <1>0, ConsoleTypesNow
  <2> QED BY <2>1, <2>2, <2>3, <2>4
<1>p. /\ profile' \in [Users -> Profiles \cup {NoProfile}] /\ profile'[u] = NoProfile
      /\ \A v \in Users \ {u} : profile'[v] = profile[v]
  <2>1. profile \in [Users -> Profiles \cup {NoProfile}]
    BY <1>0, ConsoleTypesNow
  <2> QED BY <1>1, <2>1
<1>n. ~IsSuper(NoProfile)
  BY DEF NoProfile, IsSuper, SUPER
<1>5. ConsoleTypes'
  <2>1. loose' \in BOOLEAN
    BY <1>1
  <2>2. done' \in Nat
    <3>1. done \in Nat
      BY <1>0, ConsoleTypesNow
    <3> QED BY <1>1, <3>1
  <2>3. left' \subseteq Users
    BY <1>0, <1>1, ConsoleTypesNow
  <2> QED BY <1>0, <1>1, <1>2, <1>4, <1>p, <2>1, <2>2, <2>3, ConsoleTypesNow, ConsoleTypesAre
<1>6. OperationsOK'
  <2>1. LeftIsTorn'
    BY <1>0, <1>1, <1>3 DEF OperationsOK, LeftIsTorn
  <2>2. Alone'
    BY <1>0, <1>1, <1>3 DEF OperationsOK, Alone
  <2>3. WorkIsNamed'
    BY <1>0, <1>2, NoRowIs DEF OperationsOK, WorkIsNamed, Works
  <2>4. \A k \in Desks : OperationIs(desk'[k])
    BY <1>0, <1>1 DEF OperationsOK
  <2> QED BY <2>1, <2>2, <2>3, <2>4 DEF OperationsOK, OperationIs
<1>7. Supers'
  <2>1. OneProfile'
    BY <1>0, <1>1 DEF Supers, OneProfile
  <2>2. ASSUME ~loose' PROVE ~loose /\ \A v \in Users : IsSuper(profile'[v]) <=> IsSuper(profile[v])
    BY <1>1, <1>p, <1>n, <2>2
  <2>3. AnotherIsThere'
    <3> SUFFICES ASSUME ~loose', NEW k \in Desks, desk[k].kind = "profile", desk[k].at = "cleared", NeedsAnother(desk[k])'
                 PROVE  OtherSupers(desk[k].target)' # {}
      BY <1>1 DEF AnotherIsThere
    <3>1. desk[k].target \in Users
      BY <1>0 DEF OperationsOK, OperationIs
    <3>2. NeedsAnother(desk[k])
      BY <1>1, <2>2, <3>1 DEF NeedsAnother
    <3>3. OtherSupers(desk[k].target) # {}
      BY <1>0, <2>2, <3>2 DEF Supers, AnotherIsThere
    <3> QED BY <1>1, <2>2, <3>3 DEF OtherSupers
  <2>4. SomeSuperAdmin'
    BY <1>0, <2>2 DEF Supers, SomeSuperAdmin
  <2> QED BY <2>1, <2>3, <2>4 DEF Supers
<1>8. ProfileStory'
  <2> SUFFICES ASSUME NEW v \in Users, v \notin torn'
               PROVE  /\ \A k \in Desks :
                           desk[k].kind = "profile" /\ desk[k].target = v /\ desk[k].at \in {"read", "counting", "cleared"}
                             => desk[k].from = profile'[v]
                      /\ \A k \in Desks : Writes(k, v) =>
                           desk[k].to = profile'[v] /\ Story(log', ProfileRows(v)', Founders[v], desk[k].from)
                      /\ (\A k \in Desks : ~Writes(k, v)) => Story(log', ProfileRows(v)', Founders[v], profile'[v])
    BY <1>1 DEF ProfileStory, Story, Writes
  <2>1. v \notin torn /\ v # u /\ profile'[v] = profile[v]
    BY <1>3, <1>p
  <2>2. ProfileRows(v)' = ProfileRows(v) /\ \A i \in ProfileRows(v) : log'[i] = log[i]
    BY <1>2, NoRowIs DEF ProfileRows
  <2>3. \A last : Story(log, ProfileRows(v), Founders[v], last) => Story(log', ProfileRows(v)', Founders[v], last)
    BY <2>2, StorySame
  <2> QED BY <1>0, <2>1, <2>3 DEF Records, ProfileStory
<1>9. MemberStory'
  <2>1. Member \notin torn' => Member \notin torn
    BY <1>3
  <2> QED BY <1>0, <1>1, <2>1 DEF Records, MemberStory, Books, Story
<1>9e. EntitlementFollows'
  <2>1. Member \notin torn' => Member \notin torn
    BY <1>3
  <2> QED BY <1>0, <1>1, <2>1 DEF Records, EntitlementFollows
<1>10. WorkRecorded'
  <2>1. ASSUME NEW w \in Works, w \notin torn' PROVE WorkCounted(w)'
    <3>1. \A i \in DOMAIN log : log'[i].action = w <=> log[i].action = w
      BY <1>0, <1>2, <2>1, NoRowIs DEF OperationsOK, WorkIsNamed, Works
    <3>2. WorkRows(w)' = WorkRows(w)
      BY <1>2, <3>1 DEF WorkRows
    <3>3. Writing(w)' = Writing(w)
      BY <1>1 DEF Writing
    <3>4. WorkCounted(w)
      BY <1>0, <1>3, <2>1, WorkIs DEF Records
    <3> QED BY <1>1, <3>2, <3>3, <3>4 DEF WorkCounted
  <2> QED BY <2>1 DEF WorkRecorded, WorkCounted, WorkRows, Writing
<1>11. RawRecorded' /\ ViewsAudited'
  <2>1. \A a, t : a # u /\ InLog(a, t) => InLog(a, t)'
    BY <1>2 DEF InLog
  <2>2. RawRecorded'
    <3> SUFFICES ASSUME NEW k \in Desks, desk[k].kind = "raw", desk[k].at = "recorded", desk[k].actor \notin left'
                 PROVE  InLog(desk[k].actor, desk[k].target)'
      BY <1>1 DEF RawRecorded
    <3> DEFINE a == desk[k].actor
               t == desk[k].target
    <3>1. a # u /\ InLog(a, t)
      BY <1>0, <1>1 DEF Records, RawRecorded
    <3> HIDE DEF a, t
    <3>2. PICK i \in DOMAIN log : log[i].action = "raw" /\ log[i].actor = a /\ log[i].target = t
      BY <3>1 DEF InLog
    <3>3. i \in DOMAIN log' /\ log'[i] = log[i]
      BY <1>2, <3>1, <3>2
    <3> QED BY <1>1, <3>2, <3>3 DEF InLog, a, t
  <2>3. ViewsAudited'
    <3>1. \A v \in views : v.actor \in left \/ InLog(v.actor, v.target)
      BY <1>0, ViewsIs DEF Records
    <3>2. \A v \in views : v.actor \in left' \/ InLog(v.actor, v.target)'
      <4> SUFFICES ASSUME NEW v \in views, v.actor \notin left' PROVE InLog(v.actor, v.target)'
        OBVIOUS
      <4>1. v.actor # u /\ InLog(v.actor, v.target)
        BY <1>1, <3>1
      <4> QED BY <2>1, <4>1
    <3> QED BY <1>1, <3>2 DEF ViewsAudited, InLog
  <2> QED BY <2>2, <2>3
<1> QED BY <1>5, <1>6, <1>7, <1>8, <1>9, <1>9e, <1>10, <1>11 DEF ConsoleInv, Records

-----------------------------------------------------------------------------
(* The whole.                                                               *)

\* A step of the console is one that leaves the board alone but for the membership.
LEMMA ConsoleIsStep ==
  ASSUME BoardTypes, OperationsOK, ConsoleNext PROVE ConsoleStep
<1>0. plan \in {"FREE", "PRO"} /\ entitled \in BOOLEAN /\ faults \in Nat
  BY DEF BoardTypes, RewardsTypeOK
<1> DEFINE Same == UNCHANGED <<store, stone, key, run, crossed, scripted, asked, scene>>
<1>1. ASSUME NEW u \in Users, deleteCurrentUser(u) PROVE ConsoleStep
  BY <1>0, <1>1 DEF deleteCurrentUser, rewardVars, ConsoleStep
<1>2. ASSUME NEW k \in Desks, NEW o, Begin(k, o) PROVE ConsoleStep
  BY <1>0, <1>2 DEF Begin, rewardVars, ConsoleStep
<1>3. ASSUME NEW k \in Desks, Asks(k) PROVE ConsoleStep
  BY <1>2, <1>3 DEF Asks
<1>4. ASSUME NEW k \in Desks, OperationDies(k) PROVE ConsoleStep
  <2>1. faults' = faults + 1
    BY <1>4 DEF OperationDies
  <2>2. faults' \in Nat
    BY <1>0, <2>1
  <2>3. Same /\ UNCHANGED <<plan, entitled>>
    BY <1>4 DEF OperationDies
  <2> QED BY <1>0, <2>2, <2>3 DEF ConsoleStep
<1>5. ASSUME Keeps, UNCHANGED <<plan, entitled, faults>> PROVE ConsoleStep
  BY <1>0, <1>5 DEF Keeps, ConsoleStep
<1>6. ASSUME NEW k \in Desks,
             assertAdminPermission(k) \/ createPermissionDeniedAudit(k) \/ ReadPrevious(k)
             \/ assertCanChangeActiveSuperAdmin(k) \/ CountSuperAdmins(k) \/ createAuditLog(k) \/ RecordMembership(k)
      PROVE  ConsoleStep
  <2>1. Quiet
    BY <1>6 DEF assertAdminPermission, createPermissionDeniedAudit, ReadPrevious, assertCanChangeActiveSuperAdmin,
       CountSuperAdmins, createAuditLog, RecordMembership
  <2> QED BY <1>5, <2>1 DEF Quiet
<1>7. ASSUME NEW k \in Desks, updateAdminProfile(k) PROVE ConsoleStep
  BY <1>5, <1>7 DEF updateAdminProfile
<1>8. ASSUME NEW k \in Desks, updateMembership(k) PROVE ConsoleStep
  <2>1. plan' \in {"FREE", "PRO"}
    BY <1>8 DEF updateMembership, OperationsOK, OperationIs
  <2> QED BY <1>0, <1>8, <2>1 DEF updateMembership, Keeps, ConsoleStep
<1>8a. ASSUME NEW k \in Desks, GrantEntitlements(k) PROVE ConsoleStep
  <2>1. entitled' \in BOOLEAN
    BY <1>8a DEF GrantEntitlements
  <2> QED BY <1>0, <1>8a, <2>1 DEF GrantEntitlements, Keeps, ConsoleStep
<1>9. ASSUME NEW k \in Desks, NEW kind, Performs(k, kind) \/ Refuses(k, kind) PROVE ConsoleStep
  BY <1>5, <1>9 DEF Performs, Refuses, Quiet
<1>10. ASSUME NEW k \in Desks, getRawUserContent(k) PROVE ConsoleStep
  BY <1>0, <1>10 DEF getRawUserContent, ConsoleStep
<1> QED BY <1>1, <1>3, <1>4, <1>6, <1>7, <1>8, <1>8a, <1>9, <1>10
        DEF ConsoleNext, Operates, upsertSystemConfig, cleanupUploads, reconcileQueues, runNotificationScheduler,
            retryEmailLog, refundPaymentOrder

\* It keeps the console.
LEMMA ConsoleInvStep ==
  ASSUME BoardTypes, ConsoleInv, ConsoleNext PROVE ConsoleInv'
<1>0. ConsoleTypes /\ OperationsOK
  BY DEF ConsoleInv
<1>1. ASSUME NEW k \in Desks, QuietStep(k) PROVE ConsoleInv'
  BY <1>1, QuietKeeps
<1>2. ASSUME NEW k \in Desks,
             assertAdminPermission(k) \/ createPermissionDeniedAudit(k) \/ ReadPrevious(k)
             \/ assertCanChangeActiveSuperAdmin(k) \/ CountSuperAdmins(k)
      PROVE  ConsoleInv'
  BY <1>0, <1>1, <1>2, PermissionQuiet, DeniedQuiet, ReadQuiet, CheckQuiet
<1>3. ASSUME NEW k \in Desks, NEW kind \in Works, Performs(k, kind) \/ Refuses(k, kind) PROVE ConsoleInv'
  BY <1>0, <1>1, <1>3, RefusesQuiet, PerformsKeeps
<1>4. ASSUME NEW k \in Desks,
             upsertSystemConfig(k) \/ cleanupUploads(k) \/ reconcileQueues(k) \/ runNotificationScheduler(k)
             \/ retryEmailLog(k) \/ refundPaymentOrder(k)
      PROVE  ConsoleInv'
  BY <1>3, <1>4 DEF upsertSystemConfig, cleanupUploads, reconcileQueues, runNotificationScheduler, retryEmailLog,
     refundPaymentOrder, Works
<1>5. ASSUME NEW k \in Desks,
             updateAdminProfile(k) \/ updateMembership(k) \/ GrantEntitlements(k) \/ createAuditLog(k)
             \/ RecordMembership(k) \/ getRawUserContent(k) \/ OperationDies(k)
      PROVE  ConsoleInv'
  BY <1>5, ProfileKeeps, MembershipKeeps, EntitlementsKeep, AuditKeeps, BookKeeps, RawKeeps, DiesKeeps
<1>6. ASSUME NEW k \in Desks, Operates(k) PROVE ConsoleInv'
  BY <1>2, <1>4, <1>5, <1>6 DEF Operates
<1> QED BY <1>5, <1>6, AsksKeeps, LeavesKeeps DEF ConsoleNext

\* The board keeps the membership.
LEMMA BoardKeepsPlan == ASSUME RewardsNext PROVE plan' = plan /\ entitled' = entitled
<1>1. CASE persistGeneratedPlan \/ Rotate
  BY <1>1 DEF persistGeneratedPlan, Rotate
<1>2. CASE \E r \in Slots : AskBoard(r) \/ RequestDies(r)
  BY <1>2 DEF AskBoard, RequestDies
<1>3. CASE \E r \in Slots : Board(r) \/ FindCard(r)
  BY <1>3 DEF Board, getRewardBoard, BoardShown, UpsertFind, upsertAnchorCard, FindCard, Others
<1>4. CASE \E r \in Slots : createRewardCard(r) \/ updateRewardCard(r) \/ deleteRewardCard(r)
  BY <1>4 DEF createRewardCard, updateRewardCard, deleteRewardCard, Others
<1>5. CASE \E r \in Slots : Script(r)
  BY <1>5 DEF Script, migrateGoals, migrateRewardCards, ScriptEnds, EncryptCard, Others
<1> QED BY <1>1, <1>2, <1>3, <1>4, <1>5 DEF RewardsNext, Serves

LEMMA ConsoleStays ==
  ASSUME ConsoleInv, UNCHANGED adminVars, plan' = plan, entitled' = entitled PROVE ConsoleInv'
<1>1. UNCHANGED <<profile, left, log, book, effects, desk, views, torn, loose, done>>
  BY DEF adminVars
<1>2. ConsoleTypes'
  BY <1>1 DEF ConsoleInv, ConsoleTypes, AdminTypeOK
<1>3. OperationsOK'
  BY <1>1 DEF ConsoleInv, OperationsOK, OperationIs, LeftIsTorn, Alone, WorkIsNamed
<1>4. Supers'
  BY <1>1 DEF ConsoleInv, Supers, OneProfile, AnotherIsThere, SomeSuperAdmin, NeedsAnother, OtherSupers
<1>5. ProfileStory'
  BY <1>1 DEF ConsoleInv, Records, ProfileStory, Writes, ProfileRows, Story
<1>6. MemberStory'
  BY <1>1 DEF ConsoleInv, Records, MemberStory, Books, Story
<1>6e. EntitlementFollows'
  BY <1>1 DEF ConsoleInv, Records, EntitlementFollows
<1>7. WorkRecorded' /\ RawRecorded' /\ ViewsAudited'
  BY <1>1 DEF ConsoleInv, Records, WorkRecorded, RawRecorded, ViewsAudited, InLog
<1> QED BY <1>2, <1>3, <1>4, <1>5, <1>6, <1>6e, <1>7 DEF ConsoleInv, Records

\* The console at the beginning.
LEMMA ConsoleInvInit == ASSUME AdminInit, plan = "FREE", entitled = FALSE PROVE ConsoleInv
<1>1. /\ profile = Founders /\ left = {} /\ log = <<>> /\ book = <<>> /\ effects = [w \in Works |-> 0]
      /\ desk = [k \in Desks |-> NoOperation] /\ views = {} /\ torn = {} /\ loose = FALSE /\ done = 0
  BY DEF AdminInit
<1>2. desk \in [Desks -> OperationRow] /\ \A k \in Desks : desk[k] = NoOperation
  BY <1>1, NoOperationIs
<1>3. \A k \in Desks : desk[k].kind = "none" /\ desk[k].at = "idle"
  BY <1>2, NoOperationIs
<1>4. DOMAIN log = {} /\ DOMAIN book = {} /\ log \in Seq(LogRow) /\ book \in Seq(BookRow)
  BY <1>1
<1>5. ConsoleTypes
  <2>1. AdminTypeOK
    <3>1. profile \in [Users -> Profiles \cup {NoProfile}]
      BY <1>1, FoundersAssumption
    <3>2. effects \in [Works -> Nat]
      BY <1>1
    <3> QED BY <1>1, <1>4, <3>1, <3>2 DEF AdminTypeOK
  <2>2. loose \in BOOLEAN /\ done \in Nat /\ views \in SUBSET [actor : Users, target : Things]
    BY <1>1
  <2> QED BY <1>2, <1>4, <2>1, <2>2 DEF ConsoleTypes
<1>6. OperationsOK
  <2>1. \A k \in Desks : OperationIs(desk[k])
    BY <1>2, NoOperationIs
  <2>2. LeftIsTorn /\ Alone /\ WorkIsNamed
    BY <1>3, <1>4 DEF LeftIsTorn, Alone, WorkIsNamed
  <2> QED BY <2>1, <2>2 DEF OperationsOK
<1>7. Supers
  <2>1. OneProfile /\ AnotherIsThere
    BY <1>3 DEF OneProfile, AnotherIsThere
  <2>2. SomeSuperAdmin
    BY <1>1, FoundersAssumption DEF SomeSuperAdmin
  <2> QED BY <2>1, <2>2 DEF Supers
<1>8. \A first : Story(log, {}, first, first) /\ Story(book, {}, first, first)
  BY DEF Story
<1>9. ProfileStory
  <2>1. \A u : ProfileRows(u) = {}
    BY <1>4 DEF ProfileRows
  <2> QED BY <1>1, <1>3, <1>8, <2>1 DEF ProfileStory, Writes
<1>10. MemberStory
  BY <1>3, <1>4, <1>8 DEF MemberStory, Books
<1>10e. EntitlementFollows
  BY DEF EntitlementFollows
<1>11. WorkRecorded
  <2>1. ASSUME NEW w \in Works PROVE WorkCounted(w)
    <3>1. WorkRows(w) = {} /\ Writing(w) = {}
      BY <1>3, <1>4 DEF WorkRows, Writing
    <3>2. effects[w] = 0 /\ Cardinality({}) = 0
      BY <1>1, FS_EmptySet
    <3> QED BY <3>1, <3>2 DEF WorkCounted
  <2> QED BY <2>1, WorkIs
<1>12. RawRecorded /\ ViewsAudited
  BY <1>1, <1>3 DEF RawRecorded, ViewsAudited
<1> QED BY <1>5, <1>6, <1>7, <1>9, <1>10, <1>10e, <1>11, <1>12 DEF ConsoleInv, Records

\* The invariant at the beginning and over a step.
LEMMA AdministrationInit == Init => AdministrationInv
<1> SUFFICES ASSUME Init PROVE AdministrationInv
  OBVIOUS
<1>1. BoardInv
  BY BoardInvInit DEF Init
<1>2. ConsoleInv
  BY ConsoleInvInit DEF Init, RewardsInit
<1> QED BY <1>1, <1>2 DEF AdministrationInv

LEMMA AdministrationNext == AdministrationInv /\ [Next]_<<rewardVars, adminVars>> => AdministrationInv'
<1> SUFFICES ASSUME AdministrationInv, [Next]_<<rewardVars, adminVars>> PROVE AdministrationInv'
  OBVIOUS
<1>0. BoardInv /\ ConsoleInv /\ BoardTypes /\ OperationsOK
  BY DEF AdministrationInv, BoardInv, CardsOK, ConsoleInv
<1>1. CASE RewardsNext /\ UNCHANGED adminVars
  BY <1>0, <1>1, BoardInvStep, BoardKeepsPlan, ConsoleStays DEF AdministrationInv, BoardStep
<1>2. CASE ConsoleNext
  BY <1>0, <1>2, ConsoleIsStep, BoardInvStep, ConsoleInvStep DEF AdministrationInv, BoardStep
<1>3. CASE UNCHANGED <<rewardVars, adminVars>>
  <2>1. ConsoleStep
    BY <1>0, <1>3 DEF ConsoleStep, rewardVars, BoardTypes, RewardsTypeOK
  <2>2. plan' = plan /\ entitled' = entitled /\ UNCHANGED adminVars
    BY <1>3 DEF rewardVars
  <2> QED BY <1>0, <2>1, <2>2, BoardInvStep, ConsoleStays DEF AdministrationInv, BoardStep
<1> QED BY <1>1, <1>2, <1>3 DEF Next, ConsoleNext

\* The board and the console keep the inductive invariant, for any number of cards, requests, keys,
\* plans, administrators and operations under way.
THEOREM AdministrationInvariant == Spec => []AdministrationInv
<1>1. Init => AdministrationInv
  BY AdministrationInit
<1>2. AdministrationInv /\ [Next]_<<rewardVars, adminVars>> => AdministrationInv'
  BY AdministrationNext
<1> QED BY <1>1, <1>2, PTL DEF Spec

\* The user's cards are those charged, an anchor has one card unless two boards were read at once,
\* and nothing is left plain once the script has ended that read every row (rewards.service.ts,
\* encrypt-sensitive-fields.script.ts).
THEOREM CardsAgreeHolds == Spec => []CardsAgree
<1>1. AdministrationInv => CardsAgree
  BY BoardInvAgrees DEF AdministrationInv
<1> QED BY <1>1, AdministrationInvariant, PTL

\* There is an active super administrator unless changes of profiles overlap or one leaves.  Of
\* what is not torn - by operations that overlapped, one that died with its effect and without its
\* record, an administrator who left (admin.service.ts:1031) - the log tells how each profile and
\* the membership came to be what they are and counts the work that was done, and the entitlement
\* goes with the membership.  Whoever was shown a user's words is named while the account is there.
THEOREM AdministrationHoldsAlways == Spec => []AdministrationHolds
<1>1. AdministrationInv => AdministrationHolds
  <2> SUFFICES ASSUME AdministrationInv PROVE AdministrationHolds
    OBVIOUS
  <2>1. /\ AdminTypeOK /\ SomeSuperAdmin /\ WorkRecorded /\ ViewsAudited /\ ProfileStory /\ MemberStory
        /\ EntitlementFollows
    BY DEF AdministrationInv, ConsoleInv, ConsoleTypes, Supers, Records
  <2>2. ASSUME NEW u \in Users \ torn, \A k \in Desks : desk[k].kind = "profile" /\ desk[k].target = u => desk[k].at # "wrote"
        PROVE  Story(log, ProfileRows(u), Founders[u], profile[u])
    BY <2>1, <2>2 DEF ProfileStory, Writes
  <2>3. ASSUME Member \notin torn, \A k \in Desks : desk[k].kind = "membership" => desk[k].at \notin {"granting", "wrote", "recorded"}
        PROVE  Story(book, DOMAIN book, "FREE", plan)
    BY <2>1, <2>3 DEF MemberStory, Books
  <2>4. AuditReplays
    BY <2>2, <2>3 DEF AuditReplays
  <2> QED BY <2>1, <2>4 DEF AdministrationHolds
<1> QED BY <1>1, AdministrationInvariant, PTL


-----------------------------------------------------------------------------
(* The texts.                                                               *)

\* What may change the text of a card of the user's: an edit, or the script with what it read.
Excused(c) ==
  \E r \in Slots : \/ run[r].kind = "edit" /\ run[r].card = c /\ run[r].at = "found" /\ run'[r] = Idle
                   \/ run[r].kind = "script" /\ run[r].rows[c].source # "none" /\ run[r].rows[c].body # card[c].body
TextChanges(c) == c \in held' /\ decrypt(card'[c].body) # decrypt(card[c].body)

\* An edit ends with the row it writes, and the move of a card keeps its text.
LEMMA UpdateExcused ==
  ASSUME CardsOK, RequestsOK, NEW r \in Slots, updateRewardCard(r), NEW c \in CardIds, TextChanges(c)
  PROVE  Excused(c)
<1>0. BoardTypes
  BY DEF CardsOK
<1>1. \/ UNCHANGED card /\ Ends(r)
      \/ /\ run[r].card \in CardIds /\ Written(run[r].card)
         /\ run[r].kind = "move" => card'[run[r].card].body = card[run[r].card].body
         /\ Touches(r, run[r].card, Reloads(run[r]))
  BY <1>0, UpdateIs DEF RequestsOK
<1>2. card'[c].body # card[c].body
  BY DEF TextChanges
<1>3. /\ run[r].card \in CardIds /\ Written(run[r].card) /\ Touches(r, run[r].card, Reloads(run[r]))
      /\ run[r].kind = "move" => card'[run[r].card].body = card[run[r].card].body
  BY <1>1, <1>2
<1>4. run[r].card = c
  BY <1>2, <1>3 DEF Written
<1>5. run[r].kind = "edit" /\ run[r].at = "found"
  BY <1>2, <1>3, <1>4 DEF updateRewardCard
<1>6. run'[r] = Idle
  BY <1>0, <1>3, <1>5, ReloadsIs, TouchesIs
<1> QED BY <1>4, <1>5, <1>6 DEF Excused

\* The script writes what it read of the row.
LEMMA ScriptExcused ==
  ASSUME CardsOK, RequestsOK, NEW r \in Slots, NEW d \in CardIds, EncryptCard(r, d), NEW c \in CardIds, TextChanges(c)
  PROVE  Excused(c)
<1>0. BoardTypes /\ Carries(run[r])
  BY DEF CardsOK, RequestsOK
<1>1. card'[c].body.text # card[c].body.text
  BY DEF TextChanges, decrypt
<1>2. /\ run[r].kind = "script" /\ Legible(run[r].rows[d].body)
      /\ Written(d) /\ card'[d].body.text = run[r].rows[d].body.text
  BY <1>0, <1>1, EncryptCardIs
<1>3. c = d
  BY <1>1, <1>2 DEF Written
<1>4. run[r].rows[c].body # card[c].body
  BY <1>1, <1>2, <1>3
<1>5. run[r].rows[c].source # "none"
  BY <1>0, <1>2, <1>3, NoCardHas DEF Carries
<1> QED BY <1>2, <1>4, <1>5 DEF Excused

\* Nothing else changes them: a board writes on the cards of anchors, a new card is nobody's yet.
LEMMA CustomKeeps ==
  ASSUME CardsOK, RequestsOK, BoardStep, NEW c \in held, TextChanges(c) PROVE Excused(c)
<1>0. /\ BoardTypes /\ NeverReused /\ c \in CardIds /\ card[c].source = CUSTOM
      /\ card'[c].body # card[c].body /\ c \in held'
  BY DEF CardsOK, HeldAreCustom, TextChanges
<1>1. card' # card
  BY <1>0
<1>2. CASE UNCHANGED store
  BY <1>1, <1>2 DEF store
<1>3. ASSUME NEW r \in Slots, NEW t \in run[r].todo, upsertAnchorCard(r, t) PROVE Excused(c)
  <2>1. t.source \in {FINAL, MILESTONE}
    BY <1>0, StoreIs DEF RequestRow, TodoSets, Todo
  <2>2. Carries(run[r]) /\ Finds(run[r])
    BY DEF RequestsOK
  <2>3. PICK d \in CardIds :
          /\ \A e \in CardIds \ {d} : card'[e] = card[e]
          /\ card[d] = NoCard \/ card[d].source = t.source
    BY <1>0, <1>3, <2>2, UpsertIs
  <2>4. card[d].source # CUSTOM
    BY <2>1, <2>3, NoCardHas DEF CUSTOM, FINAL, MILESTONE
  <2> QED BY <1>0, <2>3, <2>4
<1>4. ASSUME NEW r \in Slots, createRewardCard(r) PROVE Excused(c)
  <2>1. Fresh \in CardIds /\ \A e \in CardIds \ {Fresh} : card'[e] = card[e]
    BY <1>0, <1>1, <1>4, CreateIs DEF RequestsOK, store
  <2>2. Fresh \notin held
    BY <1>0, <2>1, FreshIs
  <2> QED BY <1>0, <2>1, <2>2
<1>5. ASSUME NEW r \in Slots, updateRewardCard(r) PROVE Excused(c)
  BY <1>0, <1>5, UpdateExcused
<1>6. ASSUME NEW r \in Slots, deleteRewardCard(r) PROVE Excused(c)
  <2>1. (\A e \in CardIds \ {run[r].card} : card'[e] = card[e]) /\ held' = held \ {run[r].card}
    BY <1>0, <1>1, <1>6, DeleteIs DEF RequestsOK
  <2> QED BY <1>0, <2>1
<1>7. ASSUME NEW r \in Slots, migrateGoals(r) PROVE Excused(c)
  BY <1>1, <1>7 DEF migrateGoals
<1>8. ASSUME NEW r \in Slots, NEW d \in CardIds, EncryptCard(r, d) PROVE Excused(c)
  BY <1>0, <1>8, ScriptExcused
<1> QED BY <1>2, <1>3, <1>4, <1>5, <1>6, <1>7, <1>8, Writers

\* A board that ends, and is not cut off, has been shown.
Finished(r) == run[r].kind = "board" /\ run[r].at = "syncing" /\ run'[r] = Idle /\ faults' = faults

\* It ends by a step of its own.
LEMMA IdleIsIdle == Idle.at = "idle"
BY DEF Idle

LEMMA OthersGoOn ==
  ASSUME NEW r \in Slots, OnlySlot(r), NEW s \in Slots, Finished(s) PROVE s = r
<1>1. run'[s].at # run[s].at
  BY IdleIsIdle DEF Finished
<1> QED BY <1>1 DEF OnlySlot, Alike

\* And by no step but that one, whatever the other requests do meanwhile.
LEMMA FinishedIsShown ==
  ASSUME CardsOK, RequestsOK, RewardsNext, NEW s \in Slots, Finished(s) PROVE BoardShown(s)
<1>0. StoreKept /\ BoardTypes /\ run[s].kind = "board" /\ run[s].at = "syncing" /\ run'[s].at = "idle" /\ faults' = faults
  <2>1. StoreKept
    BY StoreStep DEF BoardStep
  <2> QED BY <2>1, IdleIsIdle DEF CardsOK, Finished
<1>1. ASSUME NEW r \in Slots, Advances(r) PROVE s = r
  BY <1>1, OthersGoOn DEF Advances
<1>2. CASE persistGeneratedPlan \/ Rotate
  BY <1>0, <1>2 DEF persistGeneratedPlan, Rotate
<1>3. ASSUME NEW r \in Slots, AskBoard(r) PROVE BoardShown(s)
  <2>1. s = r
    BY <1>0, <1>1, <1>3, AskGood
  <2>2. run[r] = Idle
    BY <1>3 DEF AskBoard
  <2> QED BY <1>0, <2>1, <2>2, IdleIsIdle
<1>4. ASSUME NEW r \in Slots, RequestDies(r) PROVE BoardShown(s)
  <2>1. faults' = faults + 1 /\ faults \in Nat
    BY <1>0, <1>4 DEF RequestDies, BoardTypes
  <2> QED BY <1>0, <2>1
<1>5. ASSUME NEW r \in Slots, BoardShown(r) \/ ScriptEnds(r) PROVE BoardShown(s)
  <2>1. Ends(r)
    BY <1>5 DEF BoardShown, ScriptEnds
  <2>2. s = r
    BY <1>0, <1>1, <2>1, EndsGood
  <2> QED BY <1>0, <1>5, <2>2 DEF ScriptEnds
<1>6. ASSUME NEW r \in Slots, getRewardBoard(r) PROVE BoardShown(s)
  <2>1. s = r
    BY <1>1, <1>6, BoardGood
  <2> QED BY <1>0, <1>6, <2>1 DEF getRewardBoard
<1>7. ASSUME NEW r \in Slots, NEW t \in run[r].todo, UpsertFind(r, t) PROVE BoardShown(s)
  <2>1. Advances(r) /\ run'[r].at = run[r].at
    BY <1>7, FindGood
  <2> QED BY <1>0, <1>1, <2>1
<1>8. ASSUME NEW r \in Slots, NEW t \in run[r].todo, upsertAnchorCard(r, t) PROVE BoardShown(s)
  <2>1. Advances(r) /\ run'[r].at = run[r].at
    BY <1>0, <1>8, UpsertGood
  <2> QED BY <1>0, <1>1, <2>1
<1>9. ASSUME NEW r \in Slots, createRewardCard(r) PROVE BoardShown(s)
  <2>1. Ends(r) \/ (Fresh \in CardIds /\ Moves(r, Reloads(run[r])))
    BY <1>0, <1>9, CreateIs DEF CardsOK, RequestsOK
  <2>2. s = r
    BY <1>0, <1>1, <2>1, EndsGood, ReloadsGood
  <2> QED BY <1>0, <1>9, <2>2 DEF createRewardCard
<1>10. ASSUME NEW r \in Slots, FindCard(r) PROVE BoardShown(s)
  <2>1. s = r
    BY <1>0, <1>1, <1>10, FindCardGood
  <2> QED BY <1>0, <1>10, <2>1 DEF FindCard
<1>11. ASSUME NEW r \in Slots, updateRewardCard(r) PROVE BoardShown(s)
  <2>1. Ends(r) \/ (run[r].card \in CardIds /\ Touches(r, run[r].card, Reloads(run[r])))
    BY <1>0, <1>11, UpdateIs DEF RequestsOK
  <2>2. s = r
    BY <1>0, <1>1, <2>1, EndsGood, ReloadsGood
  <2> QED BY <1>0, <1>11, <2>2 DEF updateRewardCard
<1>12. ASSUME NEW r \in Slots, deleteRewardCard(r) PROVE BoardShown(s)
  <2>1. Ends(r) \/ (run[r].card \in CardIds /\ Moves(r, Reloads(run[r])))
    BY <1>0, <1>12, DeleteIs DEF RequestsOK
  <2>2. s = r
    BY <1>0, <1>1, <2>1, EndsGood, ReloadsGood
  <2> QED BY <1>0, <1>12, <2>2 DEF deleteRewardCard
<1>13. ASSUME NEW r \in Slots, migrateGoals(r) PROVE BoardShown(s)
  <2>1. s = r
    BY <1>0, <1>1, <1>13, MigrateGoalsGood
  <2> QED BY <1>0, <1>13, <2>1 DEF migrateGoals
<1>14. ASSUME NEW r \in Slots, migrateRewardCards(r) PROVE BoardShown(s)
  <2>1. s = r
    BY <1>0, <1>1, <1>14, MigrateCardsGood
  <2> QED BY <1>0, <1>14, <2>1 DEF migrateRewardCards
<1>15. ASSUME NEW r \in Slots, NEW c \in CardIds, EncryptCard(r, c) PROVE BoardShown(s)
  <2>1. s = r
    BY <1>0, <1>1, <1>15, EncryptCardGood
  <2> QED BY <1>0, <1>15, <2>1 DEF EncryptCard
<1> QED
  BY <1>2, <1>3, <1>4, <1>5, <1>6, <1>7, <1>8, <1>9, <1>10, <1>11, <1>12, <1>13, <1>14, <1>15
     DEF RewardsNext, Serves, Board, Script

\* Nothing waits any more on a board that is shown.
LEMMA ShownIsSettled ==
  ASSUME BoardInv, NEW r \in Slots, BoardShown(r), ~crossed, run[r].anchors = Anchors, NEW a \in Anchors
  PROVE  \E c \in CardIds : CardsOf(a.source, a.ref) = {c} /\ (c \in run[r].touched \/ decrypt(card[c].body) = a.text)
<1>1. Syncing(r) /\ ~Waits(r, a)
  BY DEF BoardShown, Syncing, Waits
<1>2. Settled(r, a)
  BY <1>1 DEF BoardInv, Shows
<1> QED BY <1>2 DEF Settled, decrypt

\* A step is one of the board, one of the console, or none.
LEMMA NextIs ==
  ASSUME [Next]_<<rewardVars, adminVars>> PROVE RewardsNext \/ ConsoleNext \/ UNCHANGED rewardVars
BY DEF Next, ConsoleNext

\* A card of the user's keeps its text but for an edit and what the script read of it; a board that is
\* shown has each reward of the goal once and in the goal's words, if nothing crossed it
\* (rewards.service.ts, encrypt-sensitive-fields.script.ts).
THEOREM TextsKeptHolds == Spec => TextsKept
<1>1. AdministrationInv /\ [Next]_<<rewardVars, adminVars>> =>
        [\A c \in held : c \in held' /\ decrypt(card'[c].body) # decrypt(card[c].body) =>
           \E r \in Slots : \/ run[r].kind = "edit" /\ run[r].card = c /\ run[r].at = "found" /\ run'[r] = Idle
                            \/ run[r].kind = "script" /\ run[r].rows[c].source # "none"
                               /\ run[r].rows[c].body # card[c].body]_card
  <2> SUFFICES ASSUME AdministrationInv, [Next]_<<rewardVars, adminVars>>, card' # card,
                      NEW c \in held, c \in held', decrypt(card'[c].body) # decrypt(card[c].body)
               PROVE  Excused(c)
    BY DEF Excused
  <2>1. CardsOK /\ RequestsOK /\ BoardTypes /\ OperationsOK
    BY DEF AdministrationInv, BoardInv, CardsOK, ConsoleInv
  <2>2. RewardsNext \/ ConsoleNext
    BY NextIs DEF rewardVars, store
  <2>3. BoardStep
    BY <2>1, <2>2, ConsoleIsStep DEF BoardStep
  <2> QED BY <2>1, <2>3, CustomKeeps DEF TextChanges
<1>2. AdministrationInv /\ [Next]_<<rewardVars, adminVars>> =>
        [\A r \in Slots :
           run[r].kind = "board" /\ run[r].at = "syncing" /\ run'[r] = Idle /\ faults' = faults
           /\ ~crossed /\ run[r].anchors = Anchors =>
             \A a \in Anchors : \E c \in CardIds :
               CardsOf(a.source, a.ref) = {c} /\ (c \in run[r].touched \/ decrypt(card[c].body) = a.text)]_run
  <2> SUFFICES ASSUME AdministrationInv, [Next]_<<rewardVars, adminVars>>, run' # run, NEW r \in Slots, Finished(r),
                      ~crossed, run[r].anchors = Anchors, NEW a \in Anchors
               PROVE  \E c \in CardIds :
                        CardsOf(a.source, a.ref) = {c} /\ (c \in run[r].touched \/ decrypt(card[c].body) = a.text)
    BY DEF Finished
  <2>1. CardsOK /\ RequestsOK /\ BoardTypes /\ OperationsOK /\ BoardInv
    BY DEF AdministrationInv, BoardInv, CardsOK, ConsoleInv
  <2>2. RewardsNext
    <3>1. RewardsNext \/ ConsoleNext
      BY NextIs DEF rewardVars
    <3>2. ~ConsoleStep
      BY DEF ConsoleStep
    <3> QED BY <2>1, <3>1, <3>2, ConsoleIsStep
  <2>3. BoardShown(r)
    BY <2>1, <2>2, FinishedIsShown
  <2> QED BY <2>1, <2>3, ShownIsSettled
<1> QED BY <1>1, <1>2, AdministrationInvariant, PTL DEF Spec, TextsKept, CustomKept, BoardIsCurrent
=============================================================================
