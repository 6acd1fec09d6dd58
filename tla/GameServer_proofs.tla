------------------------- MODULE GameServer_proofs --------------------------
(***************************************************************************)
(* What holds of the game server for any number of connections, matches,   *)
(* slots and teams and any clocks: first of the matches, then of the raw   *)
(* pointers between connections and matches.                               *)
(***************************************************************************)
EXTENDS GameServer, CollectionLemmas

-----------------------------------------------------------------------------
(* The shape of the data.                                                   *)

Players == UNION {[D -> Player] : D \in SUBSET Slots}

LEMMA PlayersShape ==
    ASSUME NEW f
    PROVE  f \in Players <=> DOMAIN f \subseteq Slots /\ f \in [DOMAIN f -> Player]
  BY DEF Players

LEMMA EmplaceAtShape ==
    ASSUME NEW f \in Players, NEW i \in Slots, NEW p \in Player
    PROVE  /\ EmplaceAt(f, i, p) \in Players
           /\ DOMAIN EmplaceAt(f, i, p) = DOMAIN f \cup {i}
           /\ EmplaceAt(f, i, p)[i] = p
           /\ \A j \in DOMAIN f \ {i} : EmplaceAt(f, i, p)[j] = f[j]
  BY PlayersShape DEF EmplaceAt

LEMMA HumanSeatShape ==
    ASSUME NEW f \in Players, NEW i \in Slots, NEW team \in Teams
    PROVE  LET seat == [team |-> team, ai |-> FALSE, ready |-> FALSE] IN
           /\ EmplaceAt(f, i, seat) \in Players
           /\ DOMAIN EmplaceAt(f, i, seat) = DOMAIN f \cup {i}
           /\ EmplaceAt(f, i, seat)[i] = seat
           /\ \A j \in DOMAIN f \ {i} : EmplaceAt(f, i, seat)[j] = f[j]
<1> DEFINE seat == [team |-> team, ai |-> FALSE, ready |-> FALSE]
<1>1. seat \in Player
  BY DEF Player
<1> HIDE DEF seat
<1>2. /\ EmplaceAt(f, i, seat) \in Players
      /\ DOMAIN EmplaceAt(f, i, seat) = DOMAIN f \cup {i}
      /\ EmplaceAt(f, i, seat)[i] = seat
      /\ \A j \in DOMAIN f \ {i} : EmplaceAt(f, i, seat)[j] = f[j]
  BY <1>1, EmplaceAtShape
<1>3. QED
  BY <1>2 DEF seat

LEMMA RemoveSlotShape ==
    ASSUME NEW f \in Players, NEW i
    PROVE  /\ RemoveSlot(f, i) \in Players
           /\ DOMAIN RemoveSlot(f, i) = DOMAIN f \ {i}
           /\ \A j \in DOMAIN f \ {i} : RemoveSlot(f, i)[j] = f[j]
  BY PlayersShape DEF RemoveSlot

LEMMA FirstFreeSlot ==
    ASSUME NEW data \in Data, FreeSlots(data) # {}
    PROVE  \E i \in FreeSlots(data) : \A j \in FreeSlots(data) : i <= j
<1>1. FreeSlots(data) \in SUBSET Nat
  BY PlayersAssumption DEF FreeSlots, Slots
<1>2. QED
  BY <1>1, MinOfNaturals

\* AddAIPlayer leaves everyone where they are.
LEMMA AddAIPlayerShape ==
    ASSUME NEW data \in Data, NEW team \in Teams
    PROVE  /\ AddAIPlayer(data, team) \in Data
           /\ AddAIPlayer(data, team).started = data.started
           /\ AddAIPlayer(data, team).winningTeam = data.winningTeam
           /\ AddAIPlayer(data, team).countdown = data.countdown
           /\ AddAIPlayer(data, team).roundTimer = data.roundTimer
           /\ \A j \in DOMAIN AddAIPlayer(data, team).players :
                 IF j \in DOMAIN data.players
                 THEN AddAIPlayer(data, team).players[j] = data.players[j]
                 ELSE AddAIPlayer(data, team).players[j] = [team |-> team, ai |-> TRUE, ready |-> TRUE]
           /\ DOMAIN data.players \subseteq DOMAIN AddAIPlayer(data, team).players
<1>1. CASE FreeSlots(data) = {}
  BY <1>1 DEF AddAIPlayer, Data
<1>2. CASE FreeSlots(data) # {}
  <2> DEFINE slot == CHOOSE i \in FreeSlots(data) : \A j \in FreeSlots(data) : i <= j
             bot == [team |-> team, ai |-> TRUE, ready |-> TRUE]
             list == EmplaceAt(data.players, slot, bot)
  <2>1. slot \in FreeSlots(data)
    BY <1>2, FirstFreeSlot
  <2>2. slot \in Slots /\ slot \notin DOMAIN data.players
    BY <2>1 DEF FreeSlots
  <2>3. bot \in Player /\ data.players \in Players
    BY DEF Player, Data, Players
  <2> HIDE DEF slot, bot
  <2>4. /\ list \in Players
        /\ DOMAIN list = DOMAIN data.players \cup {slot}
        /\ list[slot] = bot
        /\ \A j \in DOMAIN data.players \ {slot} : list[j] = data.players[j]
    BY <2>2, <2>3, EmplaceAtShape
  <2>5. AddAIPlayer(data, team) = [data EXCEPT !.players = list]
    BY <1>2 DEF AddAIPlayer, slot, bot
  <2> HIDE DEF list
  <2>6. /\ AddAIPlayer(data, team) \in Data
        /\ AddAIPlayer(data, team).players = list
        /\ AddAIPlayer(data, team).started = data.started
        /\ AddAIPlayer(data, team).winningTeam = data.winningTeam
        /\ AddAIPlayer(data, team).countdown = data.countdown
        /\ AddAIPlayer(data, team).roundTimer = data.roundTimer
    BY <2>4, <2>5 DEF Data, Players
  <2>7. QED
    BY <2>2, <2>4, <2>6 DEF bot
<1>3. QED
  BY <1>1, <1>2

-----------------------------------------------------------------------------
(* Every operation on a match keeps its type and MatchInv.                  *)

LEMMA InstanceShape ==
    ASSUME NEW game \in Instance
    PROVE  /\ game.entries \in Seq(Entry)
           /\ Len(game.entries) \in Nat
           /\ DOMAIN game.entries = 1 .. Len(game.entries)
           /\ \A i \in DOMAIN game.entries :
                 game.entries[i] \in Entry /\ game.entries[i].index \in Slots
           /\ game.data \in Data
           /\ game.data.players \in Players
<1>1. game.entries \in Seq(Entry) /\ game.data \in Data
  BY DEF Instance
<1>2. game.data.players \in Players
  BY <1>1 DEF Data, Players
<1>3. \A i \in 1 .. Len(game.entries) : game.entries[i] \in Entry
  BY <1>1, ElementOfSeq
<1>4. \A e \in Entry : e.index \in Slots
  BY DEF Entry
<1>5. QED
  BY <1>1, <1>2, <1>3, <1>4, LenProperties

\* Where EntryOf points: the first entry of the client, or 0 for none.
LEMMA EntryOfProperties ==
    ASSUME NEW game \in Instance, NEW c
    PROVE  /\ EntryOf(game, c) \in 0 .. Len(game.entries)
           /\ EntryOf(game, c) = 0 <=> \A i \in DOMAIN game.entries : game.entries[i].client # c
           /\ EntryOf(game, c) # 0 => /\ EntryOf(game, c) \in DOMAIN game.entries
                                      /\ game.entries[EntryOf(game, c)].client = c
<1> DEFINE I == {i \in 1 .. Len(game.entries) : game.entries[i].client = c}
           k == EntryOf(game, c)
<1>1. game.entries \in Seq(Entry) /\ DOMAIN game.entries = 1 .. Len(game.entries)
  BY DEF Instance
<1>2. k = IF I # {} THEN Min(I) ELSE 0
  BY DEF EntryOf, SelectInSeq
<1>3. I \in SUBSET (1 .. Len(game.entries))
  OBVIOUS
<1> HIDE DEF k
<1>4. (k = 0 <=> I = {}) /\ (k # 0 => k \in I)
  <2> HIDE DEF I
  <2>1. QED BY <1>1, <1>2, <1>3, FirstMatch
<1>5. Len(game.entries) \in Nat
  BY <1>1, LenProperties
<1>6. QED
  BY <1>1, <1>4, <1>5 DEF k

LEMMA NewInstanceOK ==
    NewInstance \in Instance /\ MatchInv(NewInstance)
<1>1. InitialData \in Data
  <2>1. InitialData.players \in Players
    BY PlayersShape DEF InitialData
  <2>2. QED
    BY <2>1, ClocksAssumption, TeamsAssumption DEF InitialData, Data, Players, Undecided
<1>2. NewInstance \in Instance
  BY <1>1, TimersAssumption, PlayersAssumption DEF NewInstance, Instance, States
<1>3. MatchInv(NewInstance)
  BY DEF NewInstance, InitialData, MatchInv, EntriesOwnTheirSlots, StartedIsLoaded,
         DecidedByClock, IdsAreDrawnInOrder, Undecided
<1>4. QED
  BY <1>2, <1>3

LEMMA JoinPlayerOK ==
    ASSUME NEW game \in Instance, NEW c \in Clients, NEW token \in Tokens, NEW team \in Teams
    PROVE  /\ JoinPlayer(game, c, token, team) \in Instance
           /\ MatchInv(game) => MatchInv(JoinPlayer(game, c, token, team))
           /\ ~AcceptsPlayer(game) => JoinPlayer(game, c, token, team).entries = game.entries
           /\ AcceptsPlayer(game) =>
                 JoinPlayer(game, c, token, team).entries =
                    Append(game.entries, [client |-> c, index |-> game.nextId,
                                          token |-> token, loaded |-> FALSE])
<1> DEFINE next == JoinPlayer(game, c, token, team)
           entry == [client |-> c, index |-> game.nextId, token |-> token, loaded |-> FALSE]
           seat == [team |-> team, ai |-> FALSE, ready |-> FALSE]
           list == EmplaceAt(game.data.players, game.nextId, seat)
<1>1. game.nextId \in 0 .. MaxPlayers /\ MaxPlayers \in Nat
  BY PlayersAssumption DEF Instance
<1>2. CASE game.nextId = MaxPlayers
  BY <1>1, <1>2 DEF JoinPlayer, AcceptsPlayer
<1>3. CASE game.nextId # MaxPlayers /\ game.data.started
  <2>1. next = [game EXCEPT !.nextId = @ + 1]
    BY <1>3 DEF JoinPlayer
  <2>2. next \in Instance /\ next.entries = game.entries /\ next.nextId = game.nextId + 1
    BY <1>1, <1>3, <2>1 DEF Instance
  <2>3. next.data = game.data /\ next.state = game.state
    BY <2>1 DEF Instance
  <2>4. ASSUME MatchInv(game) PROVE MatchInv(next)
    <3>1. \A i \in DOMAIN game.entries : game.entries[i].index \in Int
      BY InstanceShape DEF Slots
    <3>2. IdsAreDrawnInOrder(next)
      BY <1>1, <2>2, <2>4, <3>1 DEF MatchInv, IdsAreDrawnInOrder
    <3>3. QED
      BY <2>2, <2>3, <2>4, <3>2 DEF MatchInv, EntriesOwnTheirSlots, StartedIsLoaded
  <2>5. QED
    BY <1>3, <2>2, <2>4 DEF AcceptsPlayer
<1>4. CASE game.nextId # MaxPlayers /\ ~game.data.started
  <2>1. game.nextId \in Slots /\ seat \in Player /\ game.data.players \in Players
    BY <1>1, <1>4 DEF Slots, Player, Instance, Data, Players
  <2>2. /\ list \in Players
        /\ DOMAIN list = DOMAIN game.data.players \cup {game.nextId}
        /\ list[game.nextId] = seat
        /\ \A j \in DOMAIN game.data.players \ {game.nextId} : list[j] = game.data.players[j]
    BY <2>1, HumanSeatShape
  <2>3. next = [game EXCEPT !.nextId = @ + 1,
                            !.data = [game.data EXCEPT !.players = list],
                            !.entries = Append(@, entry)]
    BY <1>4 DEF JoinPlayer, ConstructPlayer
  <2> HIDE DEF list, next
  <2>4. [game.data EXCEPT !.players = list] \in Data
    BY <2>2 DEF Instance, Data, Players
  <2>5. entry \in Entry
    BY <2>1 DEF Entry
  <2>6. Append(game.entries, entry) \in Seq(Entry)
    BY <2>5 DEF Instance
  <2>7. next \in Instance
    <3> DEFINE data == [game.data EXCEPT !.players = list]
               entries == Append(game.entries, entry)
    <3>1. game.nextId + 1 \in 0 .. MaxPlayers
      BY <1>1, <1>4
    <3>2. data \in Data /\ entries \in Seq(Entry)
      BY <2>4, <2>6
    <3>3. next = [game EXCEPT !.nextId = @ + 1, !.data = data, !.entries = entries]
      BY <2>3
    <3> HIDE DEF data, entries
    <3>4. QED
      BY <3>1, <3>2, <3>3 DEF Instance
  <2>8. /\ next.entries = Append(game.entries, entry)
        /\ next.nextId = game.nextId + 1
        /\ next.state = game.state
        /\ next.data.players = list
        /\ next.data.started = game.data.started
        /\ next.data.winningTeam = game.data.winningTeam
    BY <2>3 DEF Instance, Data
  <2>9. /\ Len(game.entries) \in Nat
        /\ DOMAIN game.entries = 1 .. Len(game.entries)
        /\ DOMAIN next.entries = 1 .. Len(game.entries) + 1
        /\ \A i \in DOMAIN game.entries : next.entries[i] = game.entries[i]
        /\ next.entries[Len(game.entries) + 1] = entry
    BY <2>5, <2>8 DEF Instance
  <2>10. ASSUME MatchInv(game) PROVE MatchInv(next)
    <3> DEFINE old == game.entries
               new == next.entries
    <3>1. \A i \in DOMAIN old : old[i].index \in Int /\ old[i].index < game.nextId
      BY <2>10, InstanceShape DEF Slots, MatchInv, IdsAreDrawnInOrder
    <3>2. \A i \in DOMAIN new : i \in DOMAIN old \/ (i = Len(old) + 1 /\ i \notin DOMAIN old)
      BY <2>9
    <3>3. IdsAreDrawnInOrder(next)
      BY <1>1, <2>8, <2>9, <3>1, <3>2 DEF IdsAreDrawnInOrder
    <3>4. \A i \in DOMAIN old :
             /\ new[i].index \in DOMAIN list
             /\ list[new[i].index] = game.data.players[new[i].index]
      <4> TAKE i \in DOMAIN old
      <4>1. new[i] = old[i] /\ old[i].index # game.nextId
        BY <1>1, <2>9, <3>1
      <4>2. old[i].index \in DOMAIN game.data.players
        BY <2>10 DEF MatchInv, EntriesOwnTheirSlots
      <4>3. QED BY <2>2, <4>1, <4>2
    <3>5. EntriesOwnTheirSlots(next)
      <4>1. ASSUME NEW i \in DOMAIN new
            PROVE  /\ new[i].index \in DOMAIN list
                   /\ ~list[new[i].index].ai
                   /\ list[new[i].index].ready = new[i].loaded
        <5>1. CASE i \in DOMAIN old
          <6>1. /\ ~game.data.players[old[i].index].ai
                /\ game.data.players[old[i].index].ready = old[i].loaded
            BY <2>10, <5>1 DEF MatchInv, EntriesOwnTheirSlots
          <6>2. new[i] = old[i]
            BY <2>9, <5>1
          <6>3. QED BY <3>4, <5>1, <6>1, <6>2
        <5>2. CASE i = Len(old) + 1
          <6>1. new[i].index = game.nextId /\ new[i].loaded = FALSE
            BY <2>9, <5>2
          <6>2. game.nextId \in DOMAIN list /\ list[game.nextId] = seat
            BY <2>2
          <6>3. seat.ai = FALSE /\ seat.ready = FALSE
            OBVIOUS
          <6> HIDE DEF seat
          <6>4. QED BY <6>1, <6>2, <6>3
        <5>3. QED BY <3>2, <5>1, <5>2
      <4>2. ASSUME NEW i \in DOMAIN new, NEW j \in DOMAIN new, new[i].index = new[j].index
            PROVE  i = j
        <5>1. CASE i \in DOMAIN old /\ j \in DOMAIN old
          BY <2>9, <2>10, <4>2, <5>1 DEF MatchInv, EntriesOwnTheirSlots
        <5>2. CASE i = Len(old) + 1 /\ j \in DOMAIN old
          BY <1>1, <2>9, <3>1, <4>2, <5>2
        <5>3. CASE i \in DOMAIN old /\ j = Len(old) + 1
          BY <1>1, <2>9, <3>1, <4>2, <5>3
        <5>4. QED BY <3>2, <5>1, <5>2, <5>3
      <4>3. ASSUME NEW s \in DOMAIN list
            PROVE  list[s].ai \/ \E i \in DOMAIN new : new[i].index = s
        <5>1. CASE s = game.nextId
          BY <2>9, <5>1
        <5>2. CASE s # game.nextId
          <6>1. s \in DOMAIN game.data.players /\ list[s] = game.data.players[s]
            BY <2>2, <5>2
          <6>2. game.data.players[s].ai \/ \E i \in DOMAIN old : old[i].index = s
            BY <2>10, <6>1 DEF MatchInv, EntriesOwnTheirSlots
          <6>3. QED BY <2>9, <6>1, <6>2
        <5>3. QED BY <5>1, <5>2
      <4>4. QED
        BY <2>8, <4>1, <4>2, <4>3 DEF EntriesOwnTheirSlots
    <3>6. StartedIsLoaded(next) /\ DecidedByClock(next.data)
      BY <1>4, <2>8, <2>10 DEF MatchInv, StartedIsLoaded, DecidedByClock
    <3>7. QED
      BY <3>3, <3>5, <3>6 DEF MatchInv
  <2>11. QED
    BY <1>1, <1>4, <2>7, <2>8, <2>10 DEF AcceptsPlayer, next
<1>5. QED
  BY <1>2, <1>3, <1>4

LEMMA PlayerLeftShape ==
    ASSUME NEW data \in Data
    PROVE  /\ PlayerLeft(data) \in Data
           /\ PlayerLeft(data).players = data.players
           /\ PlayerLeft(data).started = data.started
           /\ DecidedByClock(data) => DecidedByClock(PlayerLeft(data))
<1>1. Undecided \in Undecided .. MaxTeams
  BY TeamsAssumption DEF Undecided
<1>2. PlayerLeft(data) = data \/ PlayerLeft(data) = EndGame(data, Undecided)
  BY DEF PlayerLeft
<1>3. QED
  BY <1>1, <1>2 DEF EndGame, Data, DecidedByClock

\* Where the entry at position j of the shortened list came from.
Origin(k, j) == IF j < k THEN j ELSE j + 1

LEMMA RemovePlayerOK ==
    ASSUME NEW game \in Instance, NEW c,
           NEW k, k = EntryOf(game, c)
    PROVE  /\ RemovePlayer(game, c) \in Instance
           /\ MatchInv(game) => MatchInv(RemovePlayer(game, c))
           /\ RemovePlayer(game, c).nextId = game.nextId
           /\ RemovePlayer(game, c).data.started = game.data.started
           /\ k = 0 => RemovePlayer(game, c) = game
           /\ k # 0 =>
                /\ DOMAIN RemovePlayer(game, c).entries = 1 .. Len(game.entries) - 1
                /\ \A j \in DOMAIN RemovePlayer(game, c).entries :
                      /\ Origin(k, j) \in DOMAIN game.entries \ {k}
                      /\ RemovePlayer(game, c).entries[j] = game.entries[Origin(k, j)]
<1>1. CASE k = 0
  BY <1>1 DEF RemovePlayer
<1>2. CASE k # 0
  <2> DEFINE e == game.entries[k]
             data == IF e.loaded THEN PlayerLeft(game.data) ELSE game.data
             list == RemoveSlot(data.players, e.index)
             new == RemoveAt(game.entries, k)
             next == RemovePlayer(game, c)
             old == game.entries
  <2>1. k \in DOMAIN old /\ k \in 1 .. Len(old) /\ e \in Entry
    BY <1>2, EntryOfProperties, InstanceShape
  <2>2. next = [game EXCEPT !.data = [data EXCEPT !.players = list], !.entries = new]
    BY <1>2 DEF RemovePlayer
  <2>3. /\ data \in Data
        /\ data.players = game.data.players
        /\ data.started = game.data.started
        /\ DecidedByClock(game.data) => DecidedByClock(data)
    BY PlayerLeftShape, InstanceShape
  <2> HIDE DEF next, data
  <2>4. /\ list \in Players
        /\ DOMAIN list = DOMAIN game.data.players \ {e.index}
        /\ \A s \in DOMAIN game.data.players \ {e.index} : list[s] = game.data.players[s]
    <3> DEFINE f == game.data.players
               x == e.index
    <3>1. f \in Players
      BY InstanceShape
    <3>2. list = RemoveSlot(f, x)
      BY <2>3
    <3> HIDE DEF list, f, x
    <3>3. /\ RemoveSlot(f, x) \in Players
          /\ DOMAIN RemoveSlot(f, x) = DOMAIN f \ {x}
          /\ \A s \in DOMAIN f \ {x} : RemoveSlot(f, x)[s] = f[s]
      BY <3>1, RemoveSlotShape
    <3>4. QED BY <3>2, <3>3 DEF f, x
  <2> HIDE DEF list
  <2>5. /\ new \in Seq(Entry)
        /\ Len(new) = Len(old) - 1
        /\ \A j \in 1 .. k - 1 : new[j] = old[j]
        /\ \A j \in k .. Len(old) - 1 : new[j] = old[j + 1]
    BY <2>1, InstanceShape, RemoveAtProperties
  <2>6. DOMAIN new = 1 .. Len(old) - 1
    BY <2>5, LenProperties
  <2> HIDE DEF new
  <2>7. \A j \in DOMAIN new :
           Origin(k, j) \in DOMAIN old \ {k} /\ new[j] = old[Origin(k, j)]
    <3> TAKE j \in DOMAIN new
    <3>1. j \in 1 .. Len(old) - 1 /\ Len(old) \in Nat /\ DOMAIN old = 1 .. Len(old)
      BY <2>6, InstanceShape
    <3>2. CASE j < k
      BY <2>1, <2>5, <3>1, <3>2 DEF Origin
    <3>3. CASE ~(j < k)
      BY <2>1, <2>5, <3>1, <3>3 DEF Origin
    <3>4. QED BY <3>2, <3>3
  <2>8. [data EXCEPT !.players = list] \in Data
    BY <2>3, <2>4 DEF Data, Players
  <2>9. next \in Instance
    BY <2>2, <2>5, <2>8 DEF Instance
  <2>10. /\ next.entries = new /\ next.state = game.state /\ next.nextId = game.nextId
         /\ next.data = [data EXCEPT !.players = list]
    BY <2>2 DEF Instance
  <2>11. /\ next.data.players = list
         /\ next.data.started = game.data.started
         /\ next.data.winningTeam = data.winningTeam
         /\ next.data.countdown = data.countdown
         /\ next.data.roundTimer = data.roundTimer
    BY <2>3, <2>10 DEF Data
  <2>12. ASSUME MatchInv(game) PROVE MatchInv(next)
    <3>1. \A i, j \in DOMAIN new : Origin(k, i) = Origin(k, j) => i = j
      BY <2>1, <2>6, InstanceShape DEF Origin
    <3>2. \A j \in DOMAIN new : new[j].index # e.index
      BY <2>1, <2>7, <2>12 DEF MatchInv, EntriesOwnTheirSlots
    <3>3. \A j \in DOMAIN new :
             /\ new[j].index \in DOMAIN list
             /\ list[new[j].index] = game.data.players[new[j].index]
      BY <2>4, <2>7, <2>12, <3>2 DEF MatchInv, EntriesOwnTheirSlots
    <3>4. \A i \in DOMAIN old : i # k => \E j \in DOMAIN new : Origin(k, j) = i
      <4> TAKE i \in DOMAIN old
      <4> HAVE i # k
      <4>1. i \in 1 .. Len(old) /\ Len(old) \in Nat
        BY InstanceShape
      <4>2. CASE i < k
        BY <2>1, <2>6, <4>1, <4>2 DEF Origin
      <4>3. CASE i > k
        <5>1. i - 1 \in DOMAIN new /\ Origin(k, i - 1) = i
          BY <2>1, <2>6, <4>1, <4>3 DEF Origin
        <5>2. QED BY <5>1
      <4>4. QED BY <2>1, <4>1, <4>2, <4>3
    <3>5. EntriesOwnTheirSlots(next)
      <4>1. ASSUME NEW j \in DOMAIN new
            PROVE  /\ new[j].index \in DOMAIN list
                   /\ ~list[new[j].index].ai
                   /\ list[new[j].index].ready = new[j].loaded
        BY <2>7, <2>12, <3>3, <4>1 DEF MatchInv, EntriesOwnTheirSlots
      <4>2. ASSUME NEW i \in DOMAIN new, NEW j \in DOMAIN new, new[i].index = new[j].index
            PROVE  i = j
        <5>1. Origin(k, i) = Origin(k, j)
          BY <2>7, <2>12, <4>2 DEF MatchInv, EntriesOwnTheirSlots
        <5>2. QED BY <3>1, <5>1
      <4>3. ASSUME NEW s \in DOMAIN list
            PROVE  list[s].ai \/ \E j \in DOMAIN new : new[j].index = s
        <5>1. s \in DOMAIN game.data.players /\ s # e.index /\ list[s] = game.data.players[s]
          BY <2>4
        <5>2. CASE game.data.players[s].ai
          BY <5>1, <5>2
        <5>3. CASE ~game.data.players[s].ai
          <6>1. PICK i \in DOMAIN old : old[i].index = s
            BY <2>12, <5>1, <5>3 DEF MatchInv, EntriesOwnTheirSlots
          <6>2. i # k
            BY <5>1, <6>1
          <6>3. PICK j \in DOMAIN new : Origin(k, j) = i
            BY <3>4, <6>2
          <6>4. QED BY <2>7, <6>1, <6>3
        <5>4. QED BY <5>2, <5>3
      <4>4. QED
        BY <2>10, <2>11, <4>1, <4>2, <4>3 DEF EntriesOwnTheirSlots
    <3>6. StartedIsLoaded(next)
      BY <2>4, <2>7, <2>10, <2>11, <2>12 DEF MatchInv, StartedIsLoaded
    <3>7. DecidedByClock(next.data)
      BY <2>3, <2>11, <2>12 DEF MatchInv, DecidedByClock
    <3>8. IdsAreDrawnInOrder(next)
      BY <2>7, <2>10, <2>12 DEF MatchInv, IdsAreDrawnInOrder
    <3>9. QED
      BY <3>5, <3>6, <3>7, <3>8 DEF MatchInv
  <2>13. QED
    BY <1>2, <2>6, <2>7, <2>9, <2>10, <2>11, <2>12 DEF next
<1>3. QED
  BY <1>1, <1>2

LEMMA HandlePlayerLoadedOK ==
    ASSUME NEW game \in Instance, NEW c, NEW token
    PROVE  LET next == HandlePlayerLoaded(game, c, token) IN
           /\ MatchInv(game) => next \in Instance /\ MatchInv(next)
           /\ DOMAIN next.entries = DOMAIN game.entries
           /\ \A i \in DOMAIN game.entries : next.entries[i].client = game.entries[i].client
           /\ next.nextId = game.nextId
           /\ next.data.started = game.data.started
<1> DEFINE k == EntryOf(game, c)
           next == HandlePlayerLoaded(game, c, token)
           old == game.entries
           slot == old[k].index
           new == [old EXCEPT ![k].loaded = TRUE]
           list == [game.data.players EXCEPT ![slot].ready = TRUE]
<1>1. CASE next = game
  BY <1>1
<1>2. CASE next # game
  <2>1. k # 0 /\ k \in DOMAIN old
    BY <1>2, EntryOfProperties DEF HandlePlayerLoaded
  <2>2. next = [game EXCEPT !.entries = new, !.data = [game.data EXCEPT !.players = list]]
    BY <1>2 DEF HandlePlayerLoaded, PlayerReady
  <2> HIDE DEF next, k
  <2>3. /\ DOMAIN new = DOMAIN old
        /\ \A i \in DOMAIN old \ {k} : new[i] = old[i]
        /\ new[k] = [old[k] EXCEPT !.loaded = TRUE]
    BY <2>1
  <2>4. /\ new[k].client = old[k].client /\ new[k].index = old[k].index
        /\ new[k].loaded = TRUE /\ new[k] \in Entry
    BY <2>1, <2>3, InstanceShape DEF Entry
  <2>5. new \in Seq(Entry)
    BY <2>1, <2>4, InstanceShape, ExceptSeq
  <2> HIDE DEF new
  <2>6. next.entries = new /\ next.nextId = game.nextId /\ next.state = game.state
    BY <2>2 DEF Instance
  <2>7. next.data = [game.data EXCEPT !.players = list]
    BY <2>2 DEF Instance
  <2>8. /\ next.data.players = list
        /\ next.data.started = game.data.started
        /\ next.data.winningTeam = game.data.winningTeam
        /\ next.data.countdown = game.data.countdown
        /\ next.data.roundTimer = game.data.roundTimer
    BY <2>7 DEF Instance, Data
  <2>9. ASSUME MatchInv(game) PROVE next \in Instance /\ MatchInv(next)
    <3> DEFINE players == game.data.players
    <3>1. slot \in DOMAIN players /\ ~players[slot].ai
      BY <2>1, <2>9 DEF MatchInv, EntriesOwnTheirSlots
    <3>2. players \in [DOMAIN players -> Player] /\ DOMAIN players \subseteq Slots
      BY InstanceShape, PlayersShape
    <3> HIDE DEF slot, players
    <3>3. /\ DOMAIN list = DOMAIN players
          /\ list[slot] = [players[slot] EXCEPT !.ready = TRUE]
          /\ \A s \in DOMAIN players \ {slot} : list[s] = players[s]
      BY <3>1 DEF players
    <3>4. /\ list[slot] \in Player /\ list[slot].ready = TRUE
          /\ list[slot].ai = players[slot].ai
      <4>1. players[slot] \in Player
        BY <3>1, <3>2
      <4>2. \A p \in Player : /\ [p EXCEPT !.ready = TRUE] \in Player
                             /\ [p EXCEPT !.ready = TRUE].ready = TRUE
                             /\ [p EXCEPT !.ready = TRUE].ai = p.ai
        BY DEF Player
      <4>3. QED BY <3>3, <4>1, <4>2
    <3>5. list = [s \in DOMAIN players |-> list[s]]
      BY <3>1 DEF players
    <3>6. list \in Players
      <4> HIDE DEF list
      <4>1. \A s \in DOMAIN players : list[s] \in Player
        BY <3>2, <3>3, <3>4
      <4>2. list \in [DOMAIN list -> Player]
        BY <3>3, <3>5, <4>1
      <4>3. QED BY <3>2, <3>3, <4>2, PlayersShape
    <3> HIDE DEF list
    <3>7. next \in Instance
      <4>1. [game.data EXCEPT !.players = list] \in Data
        BY <3>6, InstanceShape DEF Data, Players
      <4>2. QED BY <2>2, <2>5, <4>1 DEF Instance
    <3>8. \A i, j \in DOMAIN new : new[i].index = new[j].index => i = j
      <4>1. \A i \in DOMAIN old : new[i].index = old[i].index
        BY <2>3, <2>4
      <4>2. \A i, j \in DOMAIN old : old[i].index = old[j].index => i = j
        BY <2>9 DEF MatchInv, EntriesOwnTheirSlots
      <4>3. QED BY <2>3, <4>1, <4>2
    <3>9. ASSUME NEW i \in DOMAIN new
          PROVE  /\ new[i].index \in DOMAIN list
                 /\ ~list[new[i].index].ai
                 /\ list[new[i].index].ready = new[i].loaded
      <4>1. CASE i = k
        BY <2>4, <3>1, <3>3, <3>4, <4>1 DEF slot
      <4>2. CASE i # k
        <5>1. new[i] = old[i] /\ old[i].index # slot
          BY <2>1, <2>3, <2>9, <3>9, <4>2 DEF MatchInv, EntriesOwnTheirSlots, slot
        <5>2. /\ old[i].index \in DOMAIN players /\ ~players[old[i].index].ai
              /\ players[old[i].index].ready = old[i].loaded
          BY <2>3, <2>9, <3>9 DEF MatchInv, EntriesOwnTheirSlots, players
        <5>3. QED BY <3>3, <5>1, <5>2
      <4>3. QED BY <4>1, <4>2
    <3>10. ASSUME NEW s \in DOMAIN list
           PROVE  list[s].ai \/ \E i \in DOMAIN new : new[i].index = s
      <4>1. CASE s = slot
        BY <2>1, <2>3, <2>4, <4>1 DEF slot
      <4>2. CASE s # slot
        <5>1. s \in DOMAIN players /\ list[s] = players[s]
          BY <3>3, <4>2
        <5>2. players[s].ai \/ \E i \in DOMAIN old : old[i].index = s
          BY <2>9, <5>1 DEF MatchInv, EntriesOwnTheirSlots, players
        <5>3. QED BY <2>3, <2>4, <5>1, <5>2
      <4>3. QED BY <4>1, <4>2
    <3>11. EntriesOwnTheirSlots(next)
      BY <2>6, <2>8, <3>8, <3>9, <3>10 DEF EntriesOwnTheirSlots
    <3>12. StartedIsLoaded(next)
      <4>1. ASSUME game.data.started
            PROVE  /\ \A i \in DOMAIN new : new[i].loaded
                   /\ \A s \in DOMAIN list : list[s].ready
        BY <2>3, <2>4, <2>9, <3>3, <3>4, <4>1 DEF MatchInv, StartedIsLoaded, players
      <4>2. QED BY <2>6, <2>8, <2>9, <4>1 DEF MatchInv, StartedIsLoaded
    <3>13. DecidedByClock(next.data)
      BY <2>8, <2>9 DEF MatchInv, DecidedByClock
    <3>14. IdsAreDrawnInOrder(next)
      BY <2>3, <2>4, <2>6, <2>9 DEF MatchInv, IdsAreDrawnInOrder
    <3>15. QED
      BY <3>7, <3>11, <3>12, <3>13, <3>14 DEF MatchInv
  <2>10. QED
    BY <2>3, <2>4, <2>6, <2>8, <2>9 DEF next
<1>3. QED
  BY <1>1, <1>2

\* next differs from game in nothing an invariant of the match looks at.
LEMMA SameMatch ==
    ASSUME NEW game, NEW next, MatchInv(game),
           next.entries = game.entries, next.nextId = game.nextId,
           next.data.players = game.data.players,
           next.data.started <=> next.state = "kPlaying",
           next.data.started =>
              /\ \A i \in DOMAIN game.entries : game.entries[i].loaded
              /\ \A s \in DOMAIN game.data.players : game.data.players[s].ready,
           DecidedByClock(next.data)
    PROVE  MatchInv(next)
<1>1. EntriesOwnTheirSlots(next)
  BY DEF MatchInv, EntriesOwnTheirSlots
<1>2. StartedIsLoaded(next)
  BY DEF StartedIsLoaded
<1>3. QED
  BY <1>1, <1>2 DEF MatchInv, IdsAreDrawnInOrder

LEMMA CountDownOK ==
    ASSUME NEW game \in Instance
    PROVE  /\ CountDown(game) \in Instance
           /\ MatchInv(game) => MatchInv(CountDown(game))
           /\ CountDown(game).entries = game.entries
<1> DEFINE next == CountDown(game)
           timer == IF game.loadTimer > 0 THEN game.loadTimer - 1 ELSE game.loadTimer
<1>1. timer \in Nat
  BY DEF Instance
<1>2. next = [game EXCEPT !.loadTimer = timer]
  BY DEF CountDown
<1> HIDE DEF timer, next
<1>3. /\ next \in Instance /\ next.entries = game.entries /\ next.nextId = game.nextId
      /\ next.data = game.data /\ next.state = game.state
  BY <1>1, <1>2 DEF Instance
<1>4. ASSUME MatchInv(game) PROVE MatchInv(next)
  BY <1>3, <1>4, SameMatch DEF MatchInv, StartedIsLoaded
<1>5. QED
  BY <1>3, <1>4 DEF next

LEMMA FillWithOneBotOK ==
    ASSUME NEW game \in Instance, NEW team \in Teams
    PROVE  /\ FillWithOneBot(game, team) \in Instance
           /\ MatchInv(game) => MatchInv(FillWithOneBot(game, team))
           /\ FillWithOneBot(game, team).entries = game.entries
<1> DEFINE next == FillWithOneBot(game, team)
           filled == AddAIPlayer(game.data, team)
           old == game.data.players
           list == filled.players
<1>1. game.data \in Data
  BY InstanceShape
<1>2. /\ filled \in Data
      /\ filled.started = game.data.started
      /\ filled.winningTeam = game.data.winningTeam
      /\ filled.countdown = game.data.countdown
      /\ filled.roundTimer = game.data.roundTimer
  BY <1>1, AddAIPlayerShape
<1>3. /\ DOMAIN old \subseteq DOMAIN list
      /\ \A s \in DOMAIN old : list[s] = old[s]
      /\ \A s \in DOMAIN list \ DOMAIN old :
            list[s] = [team |-> team, ai |-> TRUE, ready |-> TRUE]
  BY <1>1, AddAIPlayerShape
<1>4. next = [game EXCEPT !.data = filled]
  BY DEF FillWithOneBot
<1> HIDE DEF filled, next
<1>5. /\ next \in Instance /\ next.entries = game.entries /\ next.nextId = game.nextId
      /\ next.data = filled /\ next.state = game.state
  BY <1>2, <1>4 DEF Instance
<1> HIDE DEF list, old
<1>6. \A s \in DOMAIN list \ DOMAIN old : list[s].ai = TRUE /\ list[s].ready = TRUE
  BY <1>3
<1>7. ASSUME MatchInv(game) PROVE MatchInv(next)
  <2>1. EntriesOwnTheirSlots(next)
    <3>1. ASSUME NEW i \in DOMAIN game.entries
          PROVE  /\ game.entries[i].index \in DOMAIN list
                 /\ ~list[game.entries[i].index].ai
                 /\ list[game.entries[i].index].ready = game.entries[i].loaded
      BY <1>3, <1>7 DEF MatchInv, EntriesOwnTheirSlots, old
    <3>2. ASSUME NEW s \in DOMAIN list
          PROVE  list[s].ai \/ \E i \in DOMAIN game.entries : game.entries[i].index = s
      <4>1. CASE s \in DOMAIN old
        BY <1>3, <1>7, <4>1 DEF MatchInv, EntriesOwnTheirSlots, old
      <4>2. CASE s \notin DOMAIN old
        BY <1>6, <4>2
      <4>3. QED BY <4>1, <4>2
    <3>3. QED
      BY <1>5, <1>7, <3>1, <3>2 DEF MatchInv, EntriesOwnTheirSlots, list
  <2>2. StartedIsLoaded(next)
    <3>1. ASSUME game.data.started, NEW s \in DOMAIN list PROVE list[s].ready
      <4>1. CASE s \in DOMAIN old
        BY <1>3, <1>7, <3>1, <4>1 DEF MatchInv, StartedIsLoaded, old
      <4>2. CASE s \notin DOMAIN old
        BY <1>6, <4>2
      <4>3. QED BY <4>1, <4>2
    <3>2. QED
      BY <1>2, <1>5, <1>7, <3>1 DEF MatchInv, StartedIsLoaded, list
  <2>3. DecidedByClock(next.data)
    BY <1>2, <1>5, <1>7 DEF MatchInv, DecidedByClock
  <2>4. IdsAreDrawnInOrder(next)
    BY <1>5, <1>7 DEF MatchInv, IdsAreDrawnInOrder
  <2>5. QED
    BY <2>1, <2>2, <2>3, <2>4 DEF MatchInv
<1>8. QED
  BY <1>5, <1>7 DEF next

\* The step that starts a match: with every slot ready, every entry is loaded.
LEMMA ChangeStateOK ==
    ASSUME NEW game \in Instance
    PROVE  /\ ChangeState(game) \in Instance
           /\ MatchInv(game) => MatchInv(ChangeState(game))
           /\ ChangeState(game).entries = game.entries
<1> DEFINE next == ChangeState(game)
<1>1. CASE next = game
  BY <1>1
<1>2. CASE /\ game.state = "kWaitingForPlayers"
           /\ next = [game EXCEPT !.state = "kWaitingForLoad", !.loadTimer = WaitForLoad]
  <2> HIDE DEF next
  <2>1. /\ next \in Instance /\ next.entries = game.entries /\ next.nextId = game.nextId
        /\ next.data = game.data /\ next.state = "kWaitingForLoad"
    BY <1>2, TimersAssumption DEF Instance, States
  <2>2. ASSUME MatchInv(game) PROVE MatchInv(next)
    BY <1>2, <2>1, <2>2, SameMatch DEF MatchInv, StartedIsLoaded
  <2>3. QED
    BY <2>1, <2>2 DEF next
<1>3. CASE /\ IsReadyToStartGame(game.data)
           /\ game.state = "kWaitingForLoad"
           /\ next = [game EXCEPT !.state = "kPlaying", !.sendTimer = 0, !.data = StartGame(@)]
  <2> HIDE DEF next
  <2> DEFINE data == StartGame(game.data)
  <2>1. /\ data \in Data /\ data.players = game.data.players
        /\ data.started = TRUE /\ data.winningTeam = game.data.winningTeam
    <3>1. MaxCountdown \in 0 .. MaxCountdown /\ MaxRoundTimer \in 0 .. MaxRoundTimer
      BY ClocksAssumption
    <3>2. game.data \in Data
      BY InstanceShape
    <3>3. data = [game.data EXCEPT !.started = TRUE, !.countdown = MaxCountdown,
                                   !.roundTimer = MaxRoundTimer]
      BY DEF StartGame
    <3> HIDE DEF data
    <3>4. QED BY <3>1, <3>2, <3>3 DEF Data
  <2> HIDE DEF data
  <2>2. next = [game EXCEPT !.state = "kPlaying", !.sendTimer = 0, !.data = data]
    BY <1>3 DEF data
  <2>3. /\ next \in Instance /\ next.entries = game.entries /\ next.nextId = game.nextId
        /\ next.data = data /\ next.state = "kPlaying"
    <3>1. 0 \in 0 .. ServerUpdateRate /\ "kPlaying" \in States
      BY TimersAssumption DEF States
    <3>2. data \in Data
      BY <2>1
    <3>3. QED BY <2>2, <3>1, <3>2 DEF Instance
  <2>4. ASSUME MatchInv(game) PROVE MatchInv(next)
    <3>1. \A s \in DOMAIN game.data.players : game.data.players[s].ready
      BY <1>3 DEF IsReadyToStartGame
    <3>2. \A i \in DOMAIN game.entries : game.entries[i].loaded
      BY <2>4, <3>1 DEF MatchInv, EntriesOwnTheirSlots
    <3>3. game.data.winningTeam = Undecided
      BY <1>3, <2>4 DEF MatchInv, DecidedByClock, StartedIsLoaded
    <3>4. DecidedByClock(next.data)
      BY <2>1, <2>3, <3>3 DEF DecidedByClock
    <3>5. QED
      BY <2>1, <2>3, <2>4, <3>1, <3>2, <3>4, SameMatch
  <2>5. QED
    BY <2>3, <2>4 DEF next
<1>4. QED
  BY <1>1, <1>2, <1>3 DEF ChangeState, StartWaitForLoad, StartWhenReady

LEMMA FinishUpdateOK ==
    ASSUME NEW game \in Instance
    PROVE  /\ FinishUpdate(game) \in Instance
           /\ MatchInv(game) => MatchInv(FinishUpdate(game))
           /\ FinishUpdate(game).entries = game.entries
<1> DEFINE next == FinishUpdate(game)
           timer == IF SendsSnapshot(game) THEN ServerUpdateRate ELSE game.sendTimer - 1
           data == UpdateController(game.data)
<1>1. timer \in 0 .. ServerUpdateRate
  BY TimersAssumption DEF SendsSnapshot, Instance
<1>2. next = [game EXCEPT !.sendTimer = timer, !.data = data]
  BY DEF FinishUpdate
<1>3. /\ data \in Data /\ data.players = game.data.players
      /\ data.started = game.data.started
      /\ DecidedByClock(game.data) => DecidedByClock(data)
  <2>1. game.data \in Data
    BY InstanceShape
  <2>2. CASE data = game.data
    BY <2>1, <2>2
  <2>3. CASE game.data.countdown > 0 /\ data = [game.data EXCEPT !.countdown = @ - 1]
             /\ game.data.winningTeam = Undecided
    BY <2>1, <2>3, ClocksAssumption DEF Data, DecidedByClock
  <2>4. CASE game.data.roundTimer > 0 /\ data = [game.data EXCEPT !.roundTimer = @ - 1]
             /\ game.data.winningTeam = Undecided
    BY <2>1, <2>4, ClocksAssumption DEF Data, DecidedByClock
  <2>5. CASE /\ game.data.started
             /\ ~(game.data.countdown > 0) /\ ~(game.data.roundTimer > 0)
             /\ data = [game.data EXCEPT !.winningTeam = MaxTeams]
    <3>1. MaxTeams \in Undecided .. MaxTeams
      BY TeamsAssumption DEF Undecided
    <3>2. game.data.countdown = 0 /\ game.data.roundTimer = 0
      BY <2>1, <2>5, ClocksAssumption DEF Data
    <3>3. QED BY <2>1, <2>5, <3>1, <3>2 DEF Data, DecidedByClock
  <2>6. QED
    BY <2>2, <2>3, <2>4, <2>5 DEF UpdateController, EndGame
<1> HIDE DEF next, timer, data
<1>4. /\ next \in Instance /\ next.entries = game.entries /\ next.nextId = game.nextId
      /\ next.data = data /\ next.state = game.state
  BY <1>1, <1>2, <1>3 DEF Instance
<1>5. ASSUME MatchInv(game) PROVE MatchInv(next)
  BY <1>3, <1>4, <1>5, SameMatch DEF MatchInv, StartedIsLoaded
<1>6. QED
  BY <1>4, <1>5 DEF next

-----------------------------------------------------------------------------
(* The invariant of the server: every match is good, and the thread stands  *)
(* at a match that exists.                                                  *)

GoodMatch(game) == game \in Instance /\ MatchInv(game)

GoodMatches(f) == \A g \in DOMAIN f : GoodMatch(f[g])

ThreadOK ==
    /\ pc \in {"kick", "fill", "advance"} => current \in DOMAIN games
    /\ pc = "kick" => cursor <= GetNumPlayers(games[current])

ServerInv == TypeOK /\ GoodMatches(games) /\ ThreadOK

LEMMA OneMatchChanges ==
    ASSUME NEW f, GoodMatches(f), NEW g \in DOMAIN f, NEW game, GoodMatch(game),
           NEW next, next = [f EXCEPT ![g] = game]
    PROVE  /\ DOMAIN next = DOMAIN f
           /\ GoodMatches(next)
           /\ next[g] = game
           /\ \A h \in DOMAIN f \ {g} : next[h] = f[h]
  BY DEF GoodMatches

LEMMA TypeOfMatches ==
    ASSUME GoodMatches(games), DOMAIN games \subseteq GameIds
    PROVE  \A g \in DOMAIN games : games[g] \in Instance
  BY DEF GoodMatches, GoodMatch

\* Every operation of the server on a match keeps it good.
LEMMA GoodOperations ==
    ASSUME NEW game, GoodMatch(game)
    PROVE  /\ \A c : GoodMatch(RemovePlayer(game, c))
           /\ \A c, token : GoodMatch(HandlePlayerLoaded(game, c, token))
           /\ \A c \in Clients, token \in Tokens, team \in Teams :
                 GoodMatch(JoinPlayer(game, c, token, team))
           /\ GoodMatch(CountDown(game))
           /\ \A team \in Teams : GoodMatch(FillWithOneBot(game, team))
           /\ GoodMatch(ChangeState(game))
           /\ GoodMatch(FinishUpdate(game))
<1>1. \A c : GoodMatch(RemovePlayer(game, c))
  BY RemovePlayerOK DEF GoodMatch
<1>2. \A c, token : GoodMatch(HandlePlayerLoaded(game, c, token))
  BY HandlePlayerLoadedOK DEF GoodMatch
<1>3. \A c \in Clients, token \in Tokens, team \in Teams :
         GoodMatch(JoinPlayer(game, c, token, team))
  BY JoinPlayerOK DEF GoodMatch
<1>4. GoodMatch(CountDown(game))
  BY CountDownOK DEF GoodMatch
<1>5. \A team \in Teams : GoodMatch(FillWithOneBot(game, team))
  BY FillWithOneBotOK DEF GoodMatch
<1>6. GoodMatch(ChangeState(game)) /\ GoodMatch(FinishUpdate(game))
  BY ChangeStateOK, FinishUpdateOK DEF GoodMatch
<1>7. QED
  BY <1>1, <1>2, <1>3, <1>4, <1>5, <1>6

\* A player leaves its match by at most one entry.
LEMMA RemovePlayerShortens ==
    ASSUME NEW game \in Instance, NEW c
    PROVE  GetNumPlayers(RemovePlayer(game, c)) \in
              {GetNumPlayers(game), GetNumPlayers(game) - 1}
<1>1. CASE EntryOf(game, c) = 0
  BY <1>1, RemovePlayerOK
<1>2. CASE EntryOf(game, c) # 0
  <2>1. RemovePlayer(game, c) \in Instance
    BY RemovePlayerOK
  <2>2. DOMAIN RemovePlayer(game, c).entries = 1 .. Len(game.entries) - 1
    BY <1>2, RemovePlayerOK
  <2>3. DOMAIN RemovePlayer(game, c).entries = 1 .. Len(RemovePlayer(game, c).entries)
    BY <2>1, InstanceShape
  <2>4. Len(game.entries) \in Nat \ {0}
    BY <1>2, EntryOfProperties, InstanceShape
  <2>5. Len(RemovePlayer(game, c).entries) \in Nat
    BY <2>1, InstanceShape
  <2>6. QED BY <2>2, <2>3, <2>4, <2>5 DEF GetNumPlayers
<1>3. QED
  BY <1>1, <1>2

LEMMA InvInit == Init => ServerInv
<1> SUFFICES ASSUME Init PROVE ServerInv
  OBVIOUS
<1>1. DOMAIN games = {}
  BY DEF Init
<1>2. TypeOK
  BY <1>1 DEF Init, TypeOK
<1>3. GoodMatches(games)
  BY <1>1 DEF GoodMatches
<1>4. ThreadOK
  BY DEF Init, ThreadOK
<1>5. QED
  BY <1>2, <1>3, <1>4 DEF ServerInv

\* The shape most steps have: one match changes or none, the thread stays.
LEMMA OneMatchStep ==
    ASSUME ServerInv, NEW g \in DOMAIN games, NEW game, GoodMatch(game),
           games' = [games EXCEPT ![g] = game]
    PROVE  /\ DOMAIN games' = DOMAIN games
           /\ GoodMatches(games')
           /\ \A h \in DOMAIN games' : games'[h] \in Instance
           /\ games'[g] = game
           /\ \A h \in DOMAIN games \ {g} : games'[h] = games[h]
  BY OneMatchChanges DEF ServerInv, GoodMatches, GoodMatch

LEMMA RemoveFromGameStep ==
    ASSUME ServerInv, NEW c, RemoveFromGame(c)
    PROVE  /\ inst' \in [Clients -> GameIds \cup {None}]
           /\ DOMAIN games' = DOMAIN games
           /\ GoodMatches(games')
           /\ \A h \in DOMAIN games' : games'[h] \in Instance
           /\ \A h \in DOMAIN games :
                 GetNumPlayers(games'[h]) \in {GetNumPlayers(games[h]), GetNumPlayers(games[h]) - 1}
<1>1. CASE inst[c] = None
  BY <1>1 DEF RemoveFromGame, ServerInv, TypeOK
<1>2. CASE inst[c] # None
  <2> DEFINE g == inst[c]
             game == RemovePlayer(games[g], c)
  <2>1. /\ g \in DOMAIN games
        /\ games' = [games EXCEPT ![g] = game]
        /\ inst' = [inst EXCEPT ![c] = None]
    BY <1>2 DEF RemoveFromGame, Live
  <2>2. GoodMatch(games[g])
    BY <2>1 DEF ServerInv, GoodMatches
  <2>3. GoodMatch(game)
    BY <2>2, GoodOperations
  <2>4. GetNumPlayers(game) \in {GetNumPlayers(games[g]), GetNumPlayers(games[g]) - 1}
    BY <2>2, RemovePlayerShortens DEF GoodMatch
  <2> HIDE DEF game
  <2>5. /\ DOMAIN games' = DOMAIN games
        /\ GoodMatches(games')
        /\ \A h \in DOMAIN games' : games'[h] \in Instance
        /\ games'[g] = game
        /\ \A h \in DOMAIN games \ {g} : games'[h] = games[h]
    BY <2>1, <2>3, OneMatchStep
  <2>6. inst' \in [Clients -> GameIds \cup {None}]
    BY <2>1 DEF ServerInv, TypeOK
  <2>7. QED
    BY <2>4, <2>5, <2>6
<1>3. QED
  BY <1>1, <1>2

LEMMA InvConnections ==
    ASSUME ServerInv, NEW c \in Clients, Connect(c) \/ CleanupClient(c) \/ HandleClientInput(c)
    PROVE  ServerInv'
<1>1. CASE Connect(c)
  BY <1>1 DEF Connect, InNetwork, ServerInv, TypeOK, ThreadOK, threadVars
<1>2. CASE CleanupClient(c) /\ ~HasStaleInstance(c)
  <2>1. /\ RemoveFromGame(c)
        /\ conn' = [conn EXCEPT ![c] = "free"]
        /\ refused' = refused \ {c}
        /\ UNCHANGED <<threadVars, broken, displaced>>
        /\ pc = "network"
    BY <1>2 DEF CleanupClient, InNetwork
  <2>2. /\ inst' \in [Clients -> GameIds \cup {None}]
        /\ DOMAIN games' = DOMAIN games
        /\ GoodMatches(games')
        /\ \A h \in DOMAIN games' : games'[h] \in Instance
    BY <2>1, RemoveFromGameStep
  <2>3. QED
    BY <2>1, <2>2 DEF ServerInv, TypeOK, ThreadOK, threadVars
<1>3. CASE CleanupClient(c) /\ HasStaleInstance(c)
  BY <1>3 DEF CleanupClient, UseStalePointer, ServerInv, TypeOK, ThreadOK
<1>4. CASE HandleClientInput(c)
  BY <1>4 DEF HandleClientInput, DisconnectClient, UseStalePointer,
              ServerInv, TypeOK, ThreadOK, threadVars
<1>5. QED
  BY <1>1, <1>2, <1>3, <1>4

\* A join puts one good match into the map, or replaces it.
LEMMA InvPutInGame ==
    ASSUME ServerInv, NEW c \in Clients, NEW g \in GameIds, NEW game, GoodMatch(game),
           NEW attached, PutInGame(c, g, game, attached)
    PROVE  /\ DOMAIN games' \subseteq GameIds /\ DOMAIN games \subseteq DOMAIN games'
           /\ GoodMatches(games')
           /\ \A h \in DOMAIN games' : games'[h] \in Instance
           /\ refused' \subseteq Clients /\ displaced' \subseteq GameIds
<1>1. PICK token \in Tokens, team \in GetRandomTeam(game.data.players) :
         games' = [h \in DOMAIN games \cup {g} |->
                      IF h = g THEN JoinPlayer(game, c, token, team) ELSE games[h]]
  BY DEF PutInGame
<1>2. team \in Teams
  BY <1>1 DEF GetRandomTeam
<1> DEFINE joined == JoinPlayer(game, c, token, team)
<1>3. GoodMatch(joined)
  BY <1>2, GoodOperations
<1> HIDE DEF joined
<1>4. games' = [h \in DOMAIN games \cup {g} |-> IF h = g THEN joined ELSE games[h]]
  BY <1>1 DEF joined
<1>5. DOMAIN games' = DOMAIN games \cup {g} /\ GoodMatches(games')
  BY <1>3, <1>4 DEF ServerInv, GoodMatches
<1>6. DOMAIN games' \subseteq GameIds
  BY <1>5 DEF ServerInv, TypeOK
<1>7. refused' \subseteq Clients /\ displaced' \subseteq GameIds
  BY DEF PutInGame, ServerInv, TypeOK
<1>8. QED
  BY <1>5, <1>6, <1>7 DEF GoodMatches, GoodMatch

LEMMA InvJoin ==
    ASSUME ServerInv, NEW c \in Clients, NEW id, NEW validName, NEW knownStage,
           HandleJoinGame(c, id, validName, knownStage)
    PROVE  ServerInv'
<1>1. pc = "network"
  BY DEF HandleJoinGame, Receives, InNetwork
<1>2. CASE DisconnectClient(c)
  BY <1>2 DEF DisconnectClient, ServerInv, TypeOK, ThreadOK, threadVars
<1>3. ASSUME NEW g \in GameIds, NEW game, GoodMatch(game), AttachAndPut(c, g, game)
      PROVE  ServerInv'
  <2>1. /\ inst' = [inst EXCEPT ![c] = g]
        /\ PutInGame(c, g, game, TRUE)
        /\ UNCHANGED <<conn, threadVars, broken>>
    BY <1>3 DEF AttachAndPut
  <2>2. inst' \in [Clients -> GameIds \cup {None}]
    BY <2>1 DEF ServerInv, TypeOK
  <2>3. QED
    BY <1>1, <1>3, <2>1, <2>2, InvPutInGame DEF ServerInv, TypeOK, ThreadOK, threadVars
<1>4. \A g \in DOMAIN games : g \in GameIds /\ GoodMatch(games[g])
  BY DEF ServerInv, TypeOK, GoodMatches
<1>5. CASE JoinAnyGame(c, knownStage)
  <2>1. GoodMatch(NewInstance)
    BY NewInstanceOK DEF GoodMatch
  <2>2. QED
    BY <1>2, <1>3, <1>4, <1>5, <2>1 DEF JoinAnyGame
<1>6. CASE id \in DOMAIN games /\ PutInGame(c, id, games[id], FALSE)
           /\ UNCHANGED <<connVars, threadVars, broken>>
  BY <1>1, <1>4, <1>6, InvPutInGame DEF ServerInv, TypeOK, ThreadOK, threadVars, connVars
<1>7. QED
  BY <1>2, <1>5, <1>6 DEF HandleJoinGame, JoinGameById, Live

LEMMA InvFinishLoading ==
    ASSUME ServerInv, NEW c \in Clients, NEW token \in Tokens, HandleFinishLoading(c, token)
    PROVE  ServerInv'
<1>1. CASE DisconnectClient(c) \/ UseStalePointer
  BY <1>1 DEF DisconnectClient, UseStalePointer, ServerInv, TypeOK, ThreadOK, threadVars
<1>2. CASE ~DisconnectClient(c) /\ ~UseStalePointer
  <2> DEFINE g == inst[c]
             game == HandlePlayerLoaded(games[g], c, token)
  <2>1. /\ g \in DOMAIN games /\ pc = "network"
        /\ games' = [games EXCEPT ![g] = game]
        /\ UNCHANGED <<connVars, threadVars, broken, refused, displaced>>
    BY <1>2 DEF HandleFinishLoading, HasStaleInstance, Live, Receives, InNetwork
  <2>2. GoodMatch(games[g])
    BY <2>1 DEF ServerInv, GoodMatches
  <2>3. GoodMatch(game)
    BY <2>2, GoodOperations
  <2> HIDE DEF game, g
  <2>4. /\ DOMAIN games' = DOMAIN games
        /\ GoodMatches(games')
        /\ \A h \in DOMAIN games' : games'[h] \in Instance
    BY <2>1, <2>3, OneMatchStep
  <2>5. QED
    BY <2>1, <2>4 DEF ServerInv, TypeOK, ThreadOK, threadVars, connVars
<1>3. QED
  BY <1>1, <1>2

LEMMA InvKick ==
    ASSUME ServerInv, KickIfNotLoaded
    PROVE  ServerInv'
<1> DEFINE e == games[current].entries[cursor]
<1>1. pc = "kick" /\ cursor > 0 /\ cursor \in Nat /\ current \in DOMAIN games
      /\ cursor <= GetNumPlayers(games[current])
  BY DEF KickIfNotLoaded, At, ServerInv, TypeOK, ThreadOK
<1>2. CASE UseStalePointer
  BY <1>2 DEF UseStalePointer, ServerInv, TypeOK, ThreadOK
<1>3. CASE cursor' = cursor - 1
           /\ UNCHANGED <<connVars, matchVars, pc, current, remaining, dead, broken>>
  BY <1>1, <1>3, InstanceShape DEF ServerInv, TypeOK, ThreadOK, connVars, matchVars, GetNumPlayers
<1>4. CASE /\ RemoveFromGame(e.client)
           /\ conn' = [conn EXCEPT ![e.client] = "closing"]
           /\ cursor' = cursor - 1
           /\ UNCHANGED <<pc, current, remaining, dead, broken, refused, displaced>>
  <2> DEFINE c == e.client
  <2>1. /\ RemoveFromGame(c)
        /\ conn' = [conn EXCEPT ![c] = "closing"]
    BY <1>4
  <2> HIDE DEF c, e
  <2>2. /\ inst' \in [Clients -> GameIds \cup {None}]
        /\ DOMAIN games' = DOMAIN games
        /\ GoodMatches(games')
        /\ \A h \in DOMAIN games' : games'[h] \in Instance
        /\ \A h \in DOMAIN games :
              GetNumPlayers(games'[h]) \in {GetNumPlayers(games[h]), GetNumPlayers(games[h]) - 1}
    BY <2>1, RemoveFromGameStep
  <2>3. conn' \in [Clients -> {"free", "open", "closing"}]
    BY <2>1 DEF ServerInv, TypeOK
  <2>4. cursor' \in Nat /\ cursor' <= GetNumPlayers(games'[current])
    <3>1. GetNumPlayers(games[current]) \in Nat
      BY <1>1, InstanceShape DEF ServerInv, TypeOK, GetNumPlayers
    <3>2. cursor' = cursor - 1
      BY <1>4
    <3>3. QED BY <1>1, <2>2, <3>1, <3>2
  <2>5. QED
    BY <1>1, <1>4, <2>2, <2>3, <2>4 DEF ServerInv, TypeOK, ThreadOK
<1>5. QED
  BY <1>2, <1>3, <1>4 DEF KickIfNotLoaded

LEMMA InvTick ==
    ASSUME ServerInv, Tick
    PROVE  ServerInv'
<1>1. CASE StartTick
  BY <1>1 DEF StartTick, At, connVars, matchVars, ServerInv, TypeOK, ThreadOK
<1>2. CASE UpdateNextGame
  <2>1. PICK g \in remaining :
          LET game == games[g]
              waiting == game.state # "kPlaying"
              expired == waiting /\ game.loadTimer = 0
          IN  /\ current' = g
              /\ remaining' = remaining \ {g}
              /\ games' = [games EXCEPT ![g] = IF waiting THEN CountDown(@) ELSE @]
              /\ pc' = IF ~expired THEN "advance"
                       ELSE IF game.state = "kWaitingForLoad" THEN "kick" ELSE "fill"
              /\ cursor' = IF expired THEN GetNumPlayers(game) ELSE 0
    BY <1>2 DEF UpdateNextGame
  <2> DEFINE game == IF games[g].state # "kPlaying" THEN CountDown(games[g]) ELSE games[g]
  <2>2. g \in DOMAIN games /\ GoodMatch(games[g])
    BY DEF ServerInv, TypeOK, GoodMatches
  <2>3. GoodMatch(game) /\ GetNumPlayers(game) = GetNumPlayers(games[g])
    BY <2>2, GoodOperations, CountDownOK DEF GoodMatch, GetNumPlayers
  <2>4. games' = [games EXCEPT ![g] = game]
    BY <2>1
  <2> HIDE DEF game
  <2>5. /\ DOMAIN games' = DOMAIN games
        /\ GoodMatches(games')
        /\ \A h \in DOMAIN games' : games'[h] \in Instance
        /\ games'[g] = game
    BY <2>2, <2>3, <2>4, OneMatchStep
  <2>6. /\ current' = g /\ remaining' = remaining \ {g}
        /\ pc' \in {"advance", "kick", "fill"}
        /\ cursor' \in {0, GetNumPlayers(game)}
    BY <2>1, <2>3
  <2>7. GetNumPlayers(game) \in Nat
    BY <2>3, InstanceShape DEF GetNumPlayers, GoodMatch
  <2>8. ThreadOK'
    BY <2>2, <2>5, <2>6, <2>7 DEF ThreadOK
  <2>9. TypeOK'
    BY <1>2, <2>2, <2>5, <2>6, <2>7 DEF UpdateNextGame, connVars, ServerInv, TypeOK
  <2>10. QED
    BY <2>5, <2>8, <2>9 DEF ServerInv
<1>3. CASE KickIfNotLoaded
  BY <1>3, InvKick
<1>4. CASE FinishKicking \/ FinishFilling
  BY <1>4 DEF FinishKicking, FinishFilling, At, connVars, matchVars, ServerInv, TypeOK, ThreadOK
<1>5. CASE AddBot
  <2>1. PICK team \in GetRandomTeam(games[current].data.players) :
           games' = [games EXCEPT ![current] = FillWithOneBot(@, team)]
    BY <1>5 DEF AddBot
  <2>2. team \in Teams
    BY DEF GetRandomTeam
  <2> DEFINE game == FillWithOneBot(games[current], team)
  <2>3. pc = "fill" /\ current \in DOMAIN games
    BY <1>5 DEF AddBot, At, ServerInv, ThreadOK
  <2>4. GoodMatch(game) /\ games' = [games EXCEPT ![current] = game]
    BY <2>1, <2>2, <2>3, GoodOperations DEF ServerInv, GoodMatches
  <2> HIDE DEF game
  <2>5. /\ DOMAIN games' = DOMAIN games
        /\ GoodMatches(games')
        /\ \A h \in DOMAIN games' : games'[h] \in Instance
    BY <2>3, <2>4, OneMatchStep
  <2>6. QED
    BY <1>5, <2>3, <2>5 DEF AddBot, connVars, threadVars, ServerInv, TypeOK, ThreadOK
<1>6. CASE AdvanceGame
  <2>1. CASE UseStalePointer
    BY <2>1 DEF UseStalePointer, ServerInv, TypeOK, ThreadOK
  <2>2. CASE ~UseStalePointer
    <3> DEFINE game == FinishUpdate(ChangeState(games[current]))
    <3>1. pc = "advance" /\ current \in DOMAIN games
      BY <1>6 DEF AdvanceGame, At, ServerInv, ThreadOK
    <3>2. GoodMatch(ChangeState(games[current]))
      BY <3>1, GoodOperations DEF ServerInv, GoodMatches
    <3>3. GoodMatch(game)
      BY <3>2, GoodOperations
    <3>4. /\ games' = [games EXCEPT ![current] = game]
          /\ dead' \in {dead \cup {current}, dead}
          /\ pc' = "next"
          /\ UNCHANGED <<connVars, current, remaining, cursor, broken, refused, displaced>>
      BY <1>6, <2>2 DEF AdvanceGame
    <3> HIDE DEF game
    <3>5. /\ DOMAIN games' = DOMAIN games
          /\ GoodMatches(games')
          /\ \A h \in DOMAIN games' : games'[h] \in Instance
      BY <3>1, <3>3, <3>4, OneMatchStep
    <3>6. QED
      BY <3>1, <3>4, <3>5 DEF connVars, ServerInv, TypeOK, ThreadOK
  <2>3. QED
    BY <2>1, <2>2
<1>7. CASE EraseDeadGames
  <2>1. games' = [g \in DOMAIN games \ dead |-> games[g]]
    BY <1>7 DEF EraseDeadGames
  <2>2. DOMAIN games' \subseteq DOMAIN games /\ \A g \in DOMAIN games' : games'[g] = games[g]
    BY <2>1
  <2>3. GoodMatches(games')
    BY <2>2 DEF ServerInv, GoodMatches
  <2>4. QED
    BY <1>7, <2>2, <2>3 DEF EraseDeadGames, connVars, ServerInv, TypeOK, ThreadOK
<1>8. QED
  BY <1>1, <1>2, <1>3, <1>4, <1>5, <1>6, <1>7 DEF Tick

LEMMA InvNext == ServerInv /\ [Next]_vars => ServerInv'
<1> SUFFICES ASSUME ServerInv, [Next]_vars
             PROVE  ServerInv'
  OBVIOUS
<1>1. CASE Tick
  BY <1>1, InvTick
<1>2. CASE Network
  <2>1. PICK c \in Clients :
          \/ Connect(c) \/ CleanupClient(c) \/ HandleClientInput(c)
          \/ \E id \in JoinIds, validName, knownStage \in BOOLEAN :
                HandleJoinGame(c, id, validName, knownStage)
          \/ \E token \in Tokens : HandleFinishLoading(c, token)
    BY <1>2 DEF Network
  <2>2. QED
    BY <2>1, InvConnections, InvJoin, InvFinishLoading
<1>3. CASE UNCHANGED vars
  BY <1>3 DEF vars, ServerInv, TypeOK, ThreadOK
<1>4. QED
  BY <1>1, <1>2, <1>3 DEF Next

LEMMA Invariance == Spec => []ServerInv
  BY InvInit, InvNext, PTL DEF Spec

-----------------------------------------------------------------------------
(* What the invariant says of the server.                                   *)

\* Type correctness of the server for any number of clients, matches, slots
\* and teams, any clocks, and joins by id as well as joins of any match.
THEOREM ServerTypeCorrect == Spec => []TypeOK
<1>1. ServerInv => TypeOK
  BY DEF ServerInv
<1>2. QED
  BY Invariance, <1>1, PTL

\* The entries of a match (GameInstance) and its slots (GameController) name
\* the same people after every join, load, leave, kick and bot.
THEOREM EntriesAlwaysOwnSlots == Spec => []EntriesOwnSlots
<1>1. ServerInv => EntriesOwnSlots
  BY DEF ServerInv, GoodMatches, GoodMatch, MatchInv, EntriesOwnSlots
<1>2. QED
  BY Invariance, <1>1, PTL

\* No started match holds a player who has not finished loading.
THEOREM StartedMatchesAreLoaded == Spec => []StartedMatchIsLoaded
<1>1. ServerInv => StartedMatchIsLoaded
  BY DEF ServerInv, GoodMatches, GoodMatch, MatchInv, StartedMatchIsLoaded
<1>2. QED
  BY Invariance, <1>1, PTL

\* No match gets a result before both its clocks have run out.
THEOREM MatchesAreDecidedByTheClock == Spec => []DecidedByTheClock
<1>1. ServerInv => DecidedByTheClock
  BY DEF ServerInv, GoodMatches, GoodMatch, MatchInv, DecidedByTheClock
<1>2. QED
  BY Invariance, <1>1, PTL

\* The loop that kicks stays inside the list it erases from.
THEOREM KickingStaysInList == Spec => []KickIndexInList
<1>1. ServerInv => KickIndexInList
  BY DEF ServerInv, ThreadOK, KickIndexInList, Live, GetNumPlayers
<1>2. QED
  BY Invariance, <1>1, PTL

-----------------------------------------------------------------------------
(* Results.                                                                 *)

KeepsResult(game, next) ==
    game.data.winningTeam # Undecided => next.data.winningTeam = game.data.winningTeam

\* The only operation that could withdraw a result is PlayerLeft; a decided
\* match has started and the leaving player still has its slot, so it does not.
LEMMA RemovePlayerKeepsResult ==
    ASSUME NEW game, GoodMatch(game), NEW c
    PROVE  KeepsResult(game, RemovePlayer(game, c))
<1> DEFINE k == EntryOf(game, c)
           e == game.entries[k]
           data == IF e.loaded THEN PlayerLeft(game.data) ELSE game.data
<1>1. CASE k = 0
  BY <1>1 DEF RemovePlayer, KeepsResult
<1>2. CASE k # 0 /\ game.data.winningTeam # Undecided
  <2>1. k \in DOMAIN game.entries
    BY <1>2, EntryOfProperties DEF GoodMatch
  <2>2. e.index \in DOMAIN game.data.players /\ game.data.started
    BY <1>2, <2>1 DEF GoodMatch, MatchInv, EntriesOwnTheirSlots, DecidedByClock
  <2>3. PlayerLeft(game.data) = game.data
    BY <2>2 DEF PlayerLeft
  <2>4. RemovePlayer(game, c) =
          [game EXCEPT !.data = [game.data EXCEPT !.players = RemoveSlot(@, e.index)],
                       !.entries = RemoveAt(@, k)]
    BY <1>2, <2>3 DEF RemovePlayer
  <2>5. QED
    BY <2>4 DEF KeepsResult, GoodMatch, Instance, Data
<1>3. QED
  BY <1>1, <1>2 DEF KeepsResult

LEMMA OperationsKeepResult ==
    ASSUME NEW game, GoodMatch(game)
    PROVE  /\ \A c : KeepsResult(game, RemovePlayer(game, c))
           /\ \A c, token : KeepsResult(game, HandlePlayerLoaded(game, c, token))
           /\ \A c, token, team : KeepsResult(game, JoinPlayer(game, c, token, team))
           /\ KeepsResult(game, CountDown(game))
           /\ \A team \in Teams : KeepsResult(game, FillWithOneBot(game, team))
           /\ KeepsResult(game, FinishUpdate(ChangeState(game)))
<1>1. \A c : KeepsResult(game, RemovePlayer(game, c))
  BY RemovePlayerKeepsResult
<1>2. \A c, token : KeepsResult(game, HandlePlayerLoaded(game, c, token))
  BY DEF HandlePlayerLoaded, PlayerReady, KeepsResult, GoodMatch, Instance, Data
<1>3. \A c, token, team : KeepsResult(game, JoinPlayer(game, c, token, team))
  BY DEF JoinPlayer, ConstructPlayer, KeepsResult, GoodMatch, Instance, Data
<1>4. KeepsResult(game, CountDown(game))
  BY DEF CountDown, KeepsResult, GoodMatch, Instance
<1>5. ASSUME NEW team \in Teams PROVE KeepsResult(game, FillWithOneBot(game, team))
  <2>1. FillWithOneBot(game, team).data = AddAIPlayer(game.data, team)
    BY DEF FillWithOneBot, GoodMatch, Instance
  <2>2. game.data \in Data
    BY InstanceShape DEF GoodMatch
  <2>3. AddAIPlayer(game.data, team).winningTeam = game.data.winningTeam
    BY <2>2, AddAIPlayerShape
  <2>4. QED BY <2>1, <2>3 DEF KeepsResult
<1>6. KeepsResult(game, FinishUpdate(ChangeState(game)))
  <2> DEFINE next == ChangeState(game)
  <2>1. next.data = game.data \/ next.data = StartGame(game.data)
    BY DEF ChangeState, StartWaitForLoad, StartWhenReady, GoodMatch, Instance
  <2>2. next.data.winningTeam = game.data.winningTeam
    BY <2>1 DEF StartGame, GoodMatch, Instance, Data
  <2>3. next \in Instance
    BY ChangeStateOK DEF GoodMatch
  <2> HIDE DEF next
  <2>4. FinishUpdate(next).data = UpdateController(next.data)
    BY <2>3 DEF FinishUpdate, Instance
  <2>5. next.data.winningTeam # Undecided => UpdateController(next.data) = next.data
    BY DEF UpdateController
  <2>6. QED BY <2>2, <2>4, <2>5 DEF KeepsResult, next
<1>7. QED
  BY <1>1, <1>2, <1>3, <1>4, <1>5, <1>6

ResultsKept ==
    \A g \in DOMAIN games \cap DOMAIN games' : KeepsResult(games[g], games'[g])

\* A step that changes one match by one of its operations keeps every result.
LEMMA OneMatchKeepsResults ==
    ASSUME NEW g \in DOMAIN games, NEW game, KeepsResult(games[g], game),
           games' = [games EXCEPT ![g] = game]
    PROVE  ResultsKept
  BY DEF ResultsKept, KeepsResult

LEMMA RemoveFromGameKeepsResults ==
    ASSUME ServerInv, NEW c, RemoveFromGame(c)
    PROVE  ResultsKept
<1>1. CASE inst[c] = None
  BY <1>1 DEF RemoveFromGame, ResultsKept, KeepsResult
<1>2. CASE inst[c] # None
  <2> DEFINE g == inst[c]
             game == RemovePlayer(games[g], c)
  <2>1. g \in DOMAIN games /\ games' = [games EXCEPT ![g] = game]
    BY <1>2 DEF RemoveFromGame, Live
  <2>2. KeepsResult(games[g], game)
    BY <2>1, OperationsKeepResult DEF ServerInv, GoodMatches
  <2> HIDE DEF g, game
  <2>3. QED BY <2>1, <2>2, OneMatchKeepsResults
<1>3. QED
  BY <1>1, <1>2

LEMMA PutInGameKeepsResults ==
    ASSUME ServerInv, NEW c \in Clients, NEW g, NEW game, NEW attached,
           g \in DOMAIN games => game = games[g],
           PutInGame(c, g, game, attached)
    PROVE  ResultsKept
<1>1. PICK token \in Tokens, team \in GetRandomTeam(game.data.players) :
         games' = [h \in DOMAIN games \cup {g} |->
                      IF h = g THEN JoinPlayer(game, c, token, team) ELSE games[h]]
  BY DEF PutInGame
<1>2. ASSUME NEW h \in DOMAIN games PROVE KeepsResult(games[h], games'[h])
  <2>1. CASE h = g
    BY <1>1, <2>1, OperationsKeepResult DEF ServerInv, GoodMatches
  <2>2. CASE h # g
    BY <1>1, <2>2 DEF KeepsResult
  <2>3. QED BY <2>1, <2>2
<1>3. QED
  BY <1>2 DEF ResultsKept

LEMMA StepsKeepResults == ServerInv /\ [Next]_vars => ResultsKept
<1> SUFFICES ASSUME ServerInv, [Next]_vars
             PROVE  ResultsKept
  OBVIOUS
<1>1. CASE UNCHANGED games
  BY <1>1 DEF ResultsKept, KeepsResult
<1>2. ASSUME NEW c \in Clients, CleanupClient(c) PROVE ResultsKept
  BY <1>1, <1>2, RemoveFromGameKeepsResults DEF CleanupClient, UseStalePointer
<1>3. ASSUME NEW c \in Clients, NEW id, NEW validName, NEW knownStage,
             HandleJoinGame(c, id, validName, knownStage)
      PROVE  ResultsKept
  <2>1. CASE DisconnectClient(c)
    BY <1>1, <2>1 DEF DisconnectClient
  <2>2. ASSUME NEW g, NEW game, NEW attached, g \in DOMAIN games => game = games[g],
               PutInGame(c, g, game, attached)
        PROVE  ResultsKept
    BY <2>2, PutInGameKeepsResults
  <2>3. QED
    BY <1>3, <2>1, <2>2 DEF HandleJoinGame, JoinAnyGame, JoinGameById, AttachAndPut, Live
<1>4. ASSUME NEW c \in Clients, NEW token, HandleFinishLoading(c, token) PROVE ResultsKept
  <2>1. CASE games' = [games EXCEPT ![inst[c]] = HandlePlayerLoaded(@, c, token)]
             /\ inst[c] \in DOMAIN games
    <3> DEFINE g == inst[c]
               game == HandlePlayerLoaded(games[g], c, token)
    <3>1. g \in DOMAIN games /\ games' = [games EXCEPT ![g] = game]
      BY <2>1
    <3>2. KeepsResult(games[g], game)
      BY <3>1, OperationsKeepResult DEF ServerInv, GoodMatches
    <3> HIDE DEF g, game
    <3>3. QED BY <3>1, <3>2, OneMatchKeepsResults
  <2>2. QED
    BY <1>1, <1>4, <2>1 DEF HandleFinishLoading, DisconnectClient, UseStalePointer,
                            HasStaleInstance, Live
<1>5. CASE UpdateNextGame
  <2>1. PICK g \in remaining :
           games' = [games EXCEPT ![g] = IF games[g].state # "kPlaying" THEN CountDown(@) ELSE @]
    BY <1>5 DEF UpdateNextGame
  <2> DEFINE game == IF games[g].state # "kPlaying" THEN CountDown(games[g]) ELSE games[g]
  <2>2. g \in DOMAIN games /\ games' = [games EXCEPT ![g] = game]
    BY <2>1 DEF ServerInv, TypeOK
  <2>3. KeepsResult(games[g], game)
    <3>1. KeepsResult(games[g], CountDown(games[g])) /\ KeepsResult(games[g], games[g])
      BY <2>2, OperationsKeepResult DEF ServerInv, GoodMatches, KeepsResult
    <3>2. QED BY <3>1
  <2> HIDE DEF game
  <2>4. QED BY <2>2, <2>3, OneMatchKeepsResults
<1>6. CASE KickIfNotLoaded
  BY <1>1, <1>6, RemoveFromGameKeepsResults DEF KickIfNotLoaded, UseStalePointer, matchVars
<1>7. CASE AddBot
  <2>1. PICK team \in GetRandomTeam(games[current].data.players) :
           games' = [games EXCEPT ![current] = FillWithOneBot(@, team)]
    BY <1>7 DEF AddBot
  <2> DEFINE game == FillWithOneBot(games[current], team)
  <2>2. current \in DOMAIN games /\ games' = [games EXCEPT ![current] = game]
    BY <1>7, <2>1 DEF AddBot, At, ServerInv, ThreadOK
  <2>3. KeepsResult(games[current], game)
    BY <2>2, OperationsKeepResult DEF ServerInv, GoodMatches, GetRandomTeam
  <2> HIDE DEF game
  <2>4. QED BY <2>2, <2>3, OneMatchKeepsResults
<1>8. CASE AdvanceGame
  <2> DEFINE game == FinishUpdate(ChangeState(games[current]))
  <2>1. UNCHANGED games \/ games' = [games EXCEPT ![current] = game]
    BY <1>8 DEF AdvanceGame, UseStalePointer
  <2>2. current \in DOMAIN games
    BY <1>8 DEF AdvanceGame, At, ServerInv, ThreadOK
  <2>3. KeepsResult(games[current], game)
    BY <2>2, OperationsKeepResult DEF ServerInv, GoodMatches
  <2> HIDE DEF game
  <2>4. QED BY <1>1, <2>1, <2>2, <2>3, OneMatchKeepsResults
<1>9. CASE EraseDeadGames
  BY <1>9 DEF EraseDeadGames, ResultsKept, KeepsResult
<1>10. CASE StartTick \/ FinishKicking \/ FinishFilling
  BY <1>1, <1>10 DEF StartTick, FinishKicking, FinishFilling, matchVars
<1>11. ASSUME NEW c \in Clients, Connect(c) \/ HandleClientInput(c) PROVE ResultsKept
  BY <1>1, <1>11 DEF Connect, HandleClientInput, DisconnectClient, UseStalePointer
<1>12. QED
  BY <1>1, <1>2, <1>3, <1>4, <1>5, <1>6, <1>7, <1>8, <1>9, <1>10, <1>11
     DEF Next, Tick, Network, vars

\* A result, once given, stays until the match is erased.
THEOREM ResultsAreFinal == Spec => ResultIsFinal
<1>1. ServerInv /\ [Next]_vars => [ResultsKept]_vars
  BY StepsKeepResults
<1>2. ResultsKept <=> \A g \in DOMAIN games \cap DOMAIN games' :
                         games[g].data.winningTeam # Undecided
                            => games'[g].data.winningTeam = games[g].data.winningTeam
  BY DEF ResultsKept, KeepsResult
<1>3. QED
  BY Invariance, <1>1, <1>2, PTL DEF Spec, ResultIsFinal

-----------------------------------------------------------------------------
(* Room for bots.                                                           *)

\* A match has a free slot for every team that has no player.
HasRoom(game) ==
    Cardinality(EmptyTeams(game.data.players)) <= Cardinality(FreeSlots(game.data))

LEMMA SeatsAndTeamsAreFinite ==
    /\ IsFiniteSet(Teams) /\ Cardinality(Teams) = MaxTeams
    /\ IsFiniteSet(Slots) /\ Cardinality(Slots) = MaxPlayers
    /\ \A players : IsFiniteSet(EmptyTeams(players)) /\ Cardinality(EmptyTeams(players)) \in Nat
    /\ \A data : IsFiniteSet(FreeSlots(data)) /\ Cardinality(FreeSlots(data)) \in Nat
<1>1. IsFiniteSet(Teams) /\ Cardinality(Teams) = MaxTeams
  BY FS_Interval, TeamsAssumption DEF Teams
<1>2. IsFiniteSet(Slots) /\ Cardinality(Slots) = MaxPlayers
  BY FS_Interval, PlayersAssumption DEF Slots
<1>3. \A players : EmptyTeams(players) \in SUBSET Teams
  BY DEF EmptyTeams
<1>4. \A data : FreeSlots(data) \in SUBSET Slots
  BY DEF FreeSlots
<1>5. QED
  BY <1>1, <1>2, <1>3, <1>4, FS_Subset, FS_CardinalityType

\* A team without players is one that is nobody's.
LEMMA EmptyTeamsAreNobodys ==
    ASSUME NEW players \in Players, NEW t \in Teams
    PROVE  /\ TeamCount(players, t) \in Nat
           /\ t \in EmptyTeams(players) <=> \A i \in DOMAIN players : players[i].team # t
<1> DEFINE members == {i \in DOMAIN players : players[i].team = t}
<1>1. members \in SUBSET Slots
  BY PlayersShape
<1>2. IsFiniteSet(members)
  BY <1>1, SeatsAndTeamsAreFinite, FS_Subset
<1>3. members = {} <=> \A i \in DOMAIN players : players[i].team # t
  OBVIOUS
<1>4. TeamCount(players, t) = Cardinality(members)
  BY DEF TeamCount
<1> HIDE DEF members
<1>5. QED
  BY <1>2, <1>3, <1>4, FS_EmptySet, FS_CardinalityType DEF EmptyTeams

\* While a team is empty GetRandomTeam returns an empty one.
LEMMA RandomTeamIsEmpty ==
    ASSUME NEW players \in Players, EmptyTeams(players) # {}, NEW team \in GetRandomTeam(players)
    PROVE  team \in EmptyTeams(players)
<1>1. PICK u \in Teams : TeamCount(players, u) = 0
  BY DEF EmptyTeams
<1>2. team \in Teams /\ TeamCount(players, team) <= TeamCount(players, u)
  BY DEF GetRandomTeam
<1>3. TeamCount(players, team) \in Nat
  BY <1>2, EmptyTeamsAreNobodys
<1>4. QED
  BY <1>1, <1>2, <1>3 DEF EmptyTeams

\* Seating somebody of a random team in a free slot takes one slot, and one
\* empty team when there is one.
LEMMA SeatingKeepsRoom ==
    ASSUME NEW game, NEW next, game.data.players \in Players, next.data.players \in Players,
           HasRoom(game),
           NEW team \in GetRandomTeam(game.data.players),
           NEW slot \in Slots, slot \notin DOMAIN game.data.players,
           DOMAIN next.data.players = DOMAIN game.data.players \cup {slot},
           next.data.players[slot].team = team,
           \A j \in DOMAIN game.data.players :
              next.data.players[j].team = game.data.players[j].team
    PROVE  HasRoom(next)
<1> DEFINE old == game.data.players
           new == next.data.players
<1>1. team \in Teams
  BY DEF GetRandomTeam
<1>2. \A t \in Teams : t \in EmptyTeams(new) <=> t \in EmptyTeams(old) /\ t # team
  BY EmptyTeamsAreNobodys
<1>3. EmptyTeams(new) = EmptyTeams(old) \ {team}
  BY <1>2 DEF EmptyTeams
<1>4. FreeSlots(next.data) = FreeSlots(game.data) \ {slot} /\ slot \in FreeSlots(game.data)
  BY DEF FreeSlots
<1>5. Cardinality(FreeSlots(next.data)) = Cardinality(FreeSlots(game.data)) - 1
  BY <1>4, SeatsAndTeamsAreFinite, FS_RemoveElement
<1>6. CASE EmptyTeams(old) = {}
  <2>1. Cardinality(EmptyTeams(new)) = 0
    BY <1>3, <1>6, FS_EmptySet
  <2>2. QED BY <2>1, SeatsAndTeamsAreFinite DEF HasRoom
<1>7. CASE EmptyTeams(old) # {}
  <2>1. team \in EmptyTeams(old)
    BY <1>7, RandomTeamIsEmpty
  <2>2. Cardinality(EmptyTeams(new)) = Cardinality(EmptyTeams(old)) - 1
    <3> DEFINE E == EmptyTeams(old)
    <3>1. IsFiniteSet(E) /\ team \in E
      BY <2>1, SeatsAndTeamsAreFinite
    <3> HIDE DEF E
    <3>2. \A x \in E : Cardinality(E \ {x}) = Cardinality(E) - 1
      BY <3>1, FS_RemoveElement
    <3>3. QED BY <1>3, <3>1, <3>2 DEF E
  <2>3. QED BY <1>5, <2>2, SeatsAndTeamsAreFinite DEF HasRoom
<1>8. QED
  BY <1>6, <1>7

\* Emptying a slot gives one slot back and empties at most one team.
LEMMA VacatingKeepsRoom ==
    ASSUME NEW game, NEW next, game.data.players \in Players, HasRoom(game),
           NEW slot \in DOMAIN game.data.players,
           next.data.players = RemoveSlot(game.data.players, slot)
    PROVE  HasRoom(next)
<1> DEFINE old == game.data.players
           new == next.data.players
           team == old[slot].team
<1>1. slot \in Slots /\ new \in Players /\ DOMAIN new = DOMAIN old \ {slot}
      /\ \A j \in DOMAIN old \ {slot} : new[j] = old[j]
  <2>1. DOMAIN old \subseteq Slots
    BY PlayersShape
  <2>2. /\ RemoveSlot(old, slot) \in Players
        /\ DOMAIN RemoveSlot(old, slot) = DOMAIN old \ {slot}
        /\ \A j \in DOMAIN old \ {slot} : RemoveSlot(old, slot)[j] = old[j]
    BY RemoveSlotShape
  <2>3. QED BY <2>1, <2>2
<1>2. \A t \in Teams : t \in EmptyTeams(new) => t \in EmptyTeams(old) \/ t = team
  BY <1>1, EmptyTeamsAreNobodys
<1>3. EmptyTeams(new) \in SUBSET (EmptyTeams(old) \cup {team})
  BY <1>2 DEF EmptyTeams
<1>4. Cardinality(EmptyTeams(new)) <= Cardinality(EmptyTeams(old)) + 1
  <2>1. /\ IsFiniteSet(EmptyTeams(old) \cup {team})
        /\ Cardinality(EmptyTeams(old) \cup {team}) <= Cardinality(EmptyTeams(old)) + 1
    <3> DEFINE E == EmptyTeams(old)
    <3>1. IsFiniteSet(E) /\ Cardinality(E) \in Nat
      BY SeatsAndTeamsAreFinite
    <3> HIDE DEF E, team
    <3>2. /\ IsFiniteSet(E \cup {team})
          /\ Cardinality(E \cup {team}) = IF team \in E THEN Cardinality(E) ELSE Cardinality(E) + 1
      BY <3>1, FS_AddElement
    <3>3. Cardinality(E \cup {team}) <= Cardinality(E) + 1
      BY <3>1, <3>2
    <3>4. QED BY <3>2, <3>3 DEF E
  <2>2. Cardinality(EmptyTeams(new)) <= Cardinality(EmptyTeams(old) \cup {team})
    BY <1>3, <2>1, FS_Subset
  <2>3. Cardinality(EmptyTeams(old) \cup {team}) \in Nat
    BY <2>1, FS_CardinalityType
  <2>4. QED BY <2>1, <2>2, <2>3, SeatsAndTeamsAreFinite
<1>5. FreeSlots(next.data) = FreeSlots(game.data) \cup {slot} /\ slot \notin FreeSlots(game.data)
  BY <1>1 DEF FreeSlots
<1>6. Cardinality(FreeSlots(next.data)) = Cardinality(FreeSlots(game.data)) + 1
  BY <1>5, SeatsAndTeamsAreFinite, FS_AddElement
<1>7. QED
  BY <1>4, <1>6, SeatsAndTeamsAreFinite DEF HasRoom

\* Nobody comes, goes or changes the team.
LEMMA SameSeatsKeepRoom ==
    ASSUME NEW game, NEW next, game.data.players \in Players, next.data.players \in Players,
           HasRoom(game),
           DOMAIN next.data.players = DOMAIN game.data.players,
           \A j \in DOMAIN game.data.players :
              next.data.players[j].team = game.data.players[j].team
    PROVE  HasRoom(next)
<1>1. \A t \in Teams : t \in EmptyTeams(next.data.players) <=> t \in EmptyTeams(game.data.players)
  BY EmptyTeamsAreNobodys
<1>2. EmptyTeams(next.data.players) = EmptyTeams(game.data.players)
  BY <1>1 DEF EmptyTeams
<1>3. FreeSlots(next.data) = FreeSlots(game.data)
  BY DEF FreeSlots
<1>4. QED
  BY <1>2, <1>3 DEF HasRoom

LEMMA NewInstanceHasRoom ==
    ASSUME MaxTeams <= MaxPlayers
    PROVE  HasRoom(NewInstance)
<1>1. EmptyTeams(NewInstance.data.players) \in SUBSET Teams
  BY DEF EmptyTeams
<1>2. Cardinality(EmptyTeams(NewInstance.data.players)) <= MaxTeams
  BY <1>1, SeatsAndTeamsAreFinite, FS_Subset
<1>3. FreeSlots(NewInstance.data) = Slots
  BY DEF FreeSlots, NewInstance, InitialData
<1>4. QED
  BY <1>2, <1>3, SeatsAndTeamsAreFinite, TeamsAssumption, PlayersAssumption DEF HasRoom

LEMMA OperationsKeepRoom ==
    ASSUME NEW game, GoodMatch(game), HasRoom(game)
    PROVE  /\ \A c : HasRoom(RemovePlayer(game, c))
           /\ \A c, token : HasRoom(HandlePlayerLoaded(game, c, token))
           /\ \A c \in Clients, token \in Tokens, team \in GetRandomTeam(game.data.players) :
                 \/ AcceptsPlayer(game) /\ game.nextId \in DOMAIN game.data.players
                 \/ HasRoom(JoinPlayer(game, c, token, team))
           /\ HasRoom(CountDown(game))
           /\ \A team \in GetRandomTeam(game.data.players) : HasRoom(FillWithOneBot(game, team))
           /\ HasRoom(FinishUpdate(ChangeState(game)))
<1>1. game \in Instance /\ game.data \in Data /\ game.data.players \in Players
  BY InstanceShape DEF GoodMatch
<1>2. ASSUME NEW next \in Instance, next.data.players = game.data.players
      PROVE  HasRoom(next)
  BY <1>1, <1>2, SameSeatsKeepRoom
<1>3. ASSUME NEW c PROVE HasRoom(RemovePlayer(game, c))
  <2> DEFINE k == EntryOf(game, c)
             e == game.entries[k]
             data == IF e.loaded THEN PlayerLeft(game.data) ELSE game.data
             next == RemovePlayer(game, c)
  <2>1. CASE k = 0
    BY <2>1 DEF RemovePlayer
  <2>2. CASE k # 0
    <3>1. k \in DOMAIN game.entries
      BY <1>1, <2>2, EntryOfProperties
    <3>2. e.index \in DOMAIN game.data.players
      BY <3>1 DEF GoodMatch, MatchInv, EntriesOwnTheirSlots
    <3>3. data \in Data /\ data.players = game.data.players
      BY <1>1, PlayerLeftShape
    <3>4. next = [game EXCEPT !.data = [data EXCEPT !.players = RemoveSlot(@, e.index)],
                              !.entries = RemoveAt(@, k)]
      BY <2>2 DEF RemovePlayer
    <3> HIDE DEF data, e, k, next
    <3>5. next.data = [data EXCEPT !.players = RemoveSlot(@, e.index)]
      BY <1>1, <3>4 DEF Instance
    <3>6. next.data.players = RemoveSlot(game.data.players, e.index)
      BY <3>3, <3>5 DEF Data
    <3>7. HasRoom(next)
      BY <1>1, <3>2, <3>6, VacatingKeepsRoom
    <3>8. QED BY <3>7 DEF next
  <2>3. QED
    BY <2>1, <2>2
<1>4. ASSUME NEW c, NEW token PROVE HasRoom(HandlePlayerLoaded(game, c, token))
  <2> DEFINE next == HandlePlayerLoaded(game, c, token)
             seats == game.data.players
  <2>1. next \in Instance
    BY GoodOperations DEF GoodMatch
  <2>2. /\ DOMAIN next.data.players = DOMAIN seats
        /\ \A j \in DOMAIN seats : next.data.players[j].team = seats[j].team
    <3>1. CASE next = game
      BY <3>1
    <3>2. CASE next # game
      <4> DEFINE i == EntryOf(game, c)
                 s == game.entries[i].index
      <4>1. next = [game EXCEPT !.entries[i].loaded = TRUE, !.data = PlayerReady(@, s)]
        BY <3>2 DEF HandlePlayerLoaded
      <4> HIDE DEF next, i, s
      <4>2. next.data = [game.data EXCEPT !.players[s].ready = TRUE]
        BY <1>1, <4>1 DEF Instance, PlayerReady
      <4>3. next.data.players = [seats EXCEPT ![s].ready = TRUE]
        BY <1>1, <4>2 DEF Data
      <4>4. \A j \in DOMAIN seats : seats[j] \in Player
        BY <1>1, PlayersShape
      <4>5. QED BY <4>3, <4>4 DEF Player
    <3>3. QED BY <3>1, <3>2
  <2>3. next.data.players \in Players
    BY <2>1, InstanceShape
  <2> HIDE DEF next
  <2>4. HasRoom(next)
    BY <1>1, <2>2, <2>3, SameSeatsKeepRoom
  <2>5. QED BY <2>4 DEF next
<1>5. ASSUME NEW c \in Clients, NEW token \in Tokens, NEW team \in GetRandomTeam(game.data.players)
      PROVE  \/ AcceptsPlayer(game) /\ game.nextId \in DOMAIN game.data.players
             \/ HasRoom(JoinPlayer(game, c, token, team))
  <2> DEFINE next == JoinPlayer(game, c, token, team)
             seats == game.data.players
             seat == [team |-> team, ai |-> FALSE, ready |-> FALSE]
  <2>1. team \in Teams
    BY DEF GetRandomTeam
  <2>2. next \in Instance
    BY <1>1, <2>1, JoinPlayerOK
  <2>3. game.nextId \in 0 .. MaxPlayers
    BY <1>1 DEF Instance
  <2>4. CASE ~AcceptsPlayer(game)
    <3>1. game.nextId = MaxPlayers \/ game.data.started
      BY <2>3, <2>4, PlayersAssumption DEF AcceptsPlayer
    <3>2. next.data.players = game.data.players
      BY <1>1, <3>1 DEF JoinPlayer, Instance
    <3>3. QED BY <1>2, <2>2, <3>2
  <2>5. CASE AcceptsPlayer(game) /\ game.nextId \notin DOMAIN seats
    <3>1. game.nextId \in Slots
      BY <2>3, <2>5, PlayersAssumption DEF AcceptsPlayer, Slots
    <3>2. next.data = ConstructPlayer(game.data, game.nextId, team)
      BY <1>1, <2>5 DEF JoinPlayer, AcceptsPlayer, Instance
    <3>3. next.data.players = EmplaceAt(seats, game.nextId, seat)
      BY <1>1, <3>2 DEF ConstructPlayer, Data
    <3>4. /\ next.data.players \in Players
          /\ DOMAIN next.data.players = DOMAIN seats \cup {game.nextId}
          /\ next.data.players[game.nextId] = seat
          /\ \A j \in DOMAIN seats \ {game.nextId} : next.data.players[j] = seats[j]
      <4> DEFINE list == EmplaceAt(seats, game.nextId, seat)
      <4>1. /\ list \in Players
            /\ DOMAIN list = DOMAIN seats \cup {game.nextId}
            /\ list[game.nextId] = seat
            /\ \A j \in DOMAIN seats \ {game.nextId} : list[j] = seats[j]
        BY <1>1, <2>1, <3>1, HumanSeatShape
      <4> HIDE DEF list, next
      <4>2. QED BY <3>3, <4>1 DEF list
    <3>5. next.data.players[game.nextId].team = team
      BY <3>4
    <3>6. \A j \in DOMAIN seats : next.data.players[j].team = seats[j].team
      BY <2>5, <3>4
    <3> HIDE DEF next
    <3>7. HasRoom(next)
      BY <1>1, <2>5, <3>1, <3>4, <3>5, <3>6, SeatingKeepsRoom
    <3>8. QED BY <3>7 DEF next
  <2>6. QED
    BY <2>4, <2>5
<1>6. HasRoom(CountDown(game))
  <2>1. CountDown(game) \in Instance /\ CountDown(game).data = game.data
    BY <1>1, CountDownOK DEF CountDown, Instance
  <2>2. QED BY <1>2, <2>1
<1>7. ASSUME NEW team \in GetRandomTeam(game.data.players) PROVE HasRoom(FillWithOneBot(game, team))
  <2> DEFINE next == FillWithOneBot(game, team)
             seats == game.data.players
             slot == CHOOSE i \in FreeSlots(game.data) : \A j \in FreeSlots(game.data) : i <= j
             bot == [team |-> team, ai |-> TRUE, ready |-> TRUE]
  <2>1. team \in Teams
    BY DEF GetRandomTeam
  <2>2. next \in Instance
    BY <1>1, <2>1, FillWithOneBotOK
  <2>3. next.data = AddAIPlayer(game.data, team)
    BY <1>1 DEF FillWithOneBot, Instance
  <2>4. CASE FreeSlots(game.data) = {}
    BY <1>2, <2>2, <2>3, <2>4 DEF AddAIPlayer
  <2>5. CASE FreeSlots(game.data) # {}
    <3>1. slot \in Slots /\ slot \notin DOMAIN seats
      BY <1>1, <2>5, FirstFreeSlot DEF FreeSlots
    <3>2. bot \in Player
      BY <2>1 DEF Player
    <3>3. next.data = [game.data EXCEPT !.players = EmplaceAt(@, slot, bot)]
      BY <2>3, <2>5 DEF AddAIPlayer
    <3> HIDE DEF slot, bot, next
    <3>4. next.data.players = EmplaceAt(seats, slot, bot)
      BY <1>1, <3>3 DEF Data
    <3>5. /\ next.data.players \in Players
          /\ DOMAIN next.data.players = DOMAIN seats \cup {slot}
          /\ next.data.players[slot] = bot
          /\ \A j \in DOMAIN seats \ {slot} : next.data.players[j] = seats[j]
      BY <1>1, <3>1, <3>2, <3>4, EmplaceAtShape
    <3>6. next.data.players[slot].team = team
      BY <3>5 DEF bot
    <3>7. \A j \in DOMAIN seats : next.data.players[j].team = seats[j].team
      BY <3>1, <3>5
    <3>8. HasRoom(next)
      BY <1>1, <3>1, <3>5, <3>6, <3>7, SeatingKeepsRoom
    <3>9. QED BY <3>8 DEF next
  <2>6. QED
    BY <2>4, <2>5
<1>8. HasRoom(FinishUpdate(ChangeState(game)))
  <2> DEFINE middle == ChangeState(game)
             next == FinishUpdate(middle)
  <2>1. middle \in Instance /\ next \in Instance
    BY GoodOperations DEF GoodMatch
  <2>2. middle.data = game.data \/ middle.data = StartGame(game.data)
    BY <1>1 DEF ChangeState, StartWaitForLoad, StartWhenReady, Instance
  <2>3. middle.data.players = game.data.players
    BY <1>1, <2>2 DEF StartGame, Data
  <2> HIDE DEF middle
  <2>4. next.data = UpdateController(middle.data)
    BY <2>1 DEF FinishUpdate, Instance
  <2>5. next.data.players = middle.data.players
    BY <2>1, <2>4 DEF UpdateController, EndGame, Instance, Data
  <2>6. HasRoom(next)
    BY <1>2, <2>1, <2>3, <2>5
  <2>7. QED BY <2>6 DEF middle
<1>9. QED
  BY <1>3, <1>4, <1>5, <1>6, <1>7, <1>8

\* A step that changes one match by an operation that keeps its room.
LEMMA OneMatchKeepsRoom ==
    ASSUME EveryTeamCanBeFilled, NEW g \in DOMAIN games, NEW game,
           HasRoom(games[g]) => HasRoom(game),
           games' = [games EXCEPT ![g] = game], displaced' = displaced
    PROVE  EveryTeamCanBeFilled'
  BY DEF EveryTeamCanBeFilled, HasRoom

LEMMA RemoveFromGameKeepsRoom ==
    ASSUME ServerInv, EveryTeamCanBeFilled, NEW c, RemoveFromGame(c), displaced' = displaced
    PROVE  EveryTeamCanBeFilled'
<1>1. CASE inst[c] = None
  BY <1>1 DEF RemoveFromGame, EveryTeamCanBeFilled
<1>2. CASE inst[c] # None
  <2> DEFINE g == inst[c]
             game == RemovePlayer(games[g], c)
  <2>1. g \in DOMAIN games /\ games' = [games EXCEPT ![g] = game]
    BY <1>2 DEF RemoveFromGame, Live
  <2>2. HasRoom(games[g]) => HasRoom(game)
    BY <2>1, OperationsKeepRoom DEF ServerInv, GoodMatches
  <2> HIDE DEF g, game
  <2>3. QED BY <2>1, <2>2, OneMatchKeepsRoom
<1>3. QED
  BY <1>1, <1>2

LEMMA PutInGameKeepsRoom ==
    ASSUME ServerInv, EveryTeamCanBeFilled, MaxTeams <= MaxPlayers,
           NEW c \in Clients, NEW g, NEW game, NEW attached,
           g \in DOMAIN games => game = games[g],
           g \notin DOMAIN games => game = NewInstance,
           PutInGame(c, g, game, attached)
    PROVE  EveryTeamCanBeFilled'
<1>1. PICK token \in Tokens, team \in GetRandomTeam(game.data.players) :
         games' = [h \in DOMAIN games \cup {g} |->
                      IF h = g THEN JoinPlayer(game, c, token, team) ELSE games[h]]
  BY DEF PutInGame
<1>2. GoodMatch(game)
  BY NewInstanceOK DEF ServerInv, GoodMatches, GoodMatch
<1>3. displaced' = IF ~Live(g) THEN displaced \ {g}
                   ELSE IF AcceptsPlayer(game) /\ game.nextId \in DOMAIN game.data.players
                        THEN displaced \cup {g} ELSE displaced
  BY DEF PutInGame
<1>4. ASSUME NEW h \in DOMAIN games' \ displaced', h # g PROVE HasRoom(games'[h])
  BY <1>1, <1>3, <1>4 DEF EveryTeamCanBeFilled, HasRoom
<1>5. ASSUME g \in DOMAIN games' \ displaced' PROVE HasRoom(games'[g])
  <2>1. HasRoom(game)
    <3>1. CASE g \in DOMAIN games
      BY <1>3, <1>5, <3>1 DEF EveryTeamCanBeFilled, HasRoom, Live
    <3>2. CASE g \notin DOMAIN games
      BY <3>2, NewInstanceHasRoom
    <3>3. QED BY <3>1, <3>2
  <2>2. ~(AcceptsPlayer(game) /\ game.nextId \in DOMAIN game.data.players)
    <3>1. CASE g \in DOMAIN games
      BY <1>3, <1>5, <3>1 DEF Live
    <3>2. CASE g \notin DOMAIN games
      BY <3>2 DEF NewInstance, InitialData
    <3>3. QED BY <3>1, <3>2
  <2>3. HasRoom(JoinPlayer(game, c, token, team))
    BY <1>2, <2>1, <2>2, OperationsKeepRoom
  <2>4. QED BY <1>1, <2>3
<1>6. QED
  BY <1>4, <1>5 DEF EveryTeamCanBeFilled, HasRoom

LEMMA StepsKeepRoom ==
    ServerInv /\ EveryTeamCanBeFilled /\ MaxTeams <= MaxPlayers /\ [Next]_vars
        => EveryTeamCanBeFilled'
<1> SUFFICES ASSUME ServerInv, EveryTeamCanBeFilled, MaxTeams <= MaxPlayers, [Next]_vars
             PROVE  EveryTeamCanBeFilled'
  OBVIOUS
<1>1. CASE UNCHANGED <<games, displaced>>
  BY <1>1 DEF EveryTeamCanBeFilled
<1>2. ASSUME NEW c \in Clients, CleanupClient(c) PROVE EveryTeamCanBeFilled'
  BY <1>1, <1>2, RemoveFromGameKeepsRoom DEF CleanupClient, UseStalePointer
<1>3. ASSUME NEW c \in Clients, NEW id, NEW validName, NEW knownStage,
             HandleJoinGame(c, id, validName, knownStage)
      PROVE  EveryTeamCanBeFilled'
  <2>1. CASE DisconnectClient(c)
    BY <1>1, <2>1 DEF DisconnectClient
  <2>2. ASSUME NEW g, NEW game, NEW attached, g \in DOMAIN games => game = games[g],
               g \notin DOMAIN games => game = NewInstance, PutInGame(c, g, game, attached)
        PROVE  EveryTeamCanBeFilled'
    BY <2>2, PutInGameKeepsRoom
  <2>3. QED
    BY <1>3, <2>1, <2>2 DEF HandleJoinGame, JoinAnyGame, JoinGameById, AttachAndPut, Live
<1>4. ASSUME NEW c \in Clients, NEW token, HandleFinishLoading(c, token) PROVE EveryTeamCanBeFilled'
  <2>1. CASE /\ games' = [games EXCEPT ![inst[c]] = HandlePlayerLoaded(@, c, token)]
             /\ inst[c] \in DOMAIN games /\ displaced' = displaced
    <3> DEFINE g == inst[c]
               game == HandlePlayerLoaded(games[g], c, token)
    <3>1. g \in DOMAIN games /\ games' = [games EXCEPT ![g] = game]
      BY <2>1
    <3>2. HasRoom(games[g]) => HasRoom(game)
      BY <3>1, OperationsKeepRoom DEF ServerInv, GoodMatches
    <3> HIDE DEF g, game
    <3>3. QED BY <2>1, <3>1, <3>2, OneMatchKeepsRoom
  <2>2. QED
    BY <1>1, <1>4, <2>1 DEF HandleFinishLoading, DisconnectClient, UseStalePointer,
                            HasStaleInstance, Live
<1>5. CASE UpdateNextGame
  <2>1. PICK g \in remaining :
           games' = [games EXCEPT ![g] = IF games[g].state # "kPlaying" THEN CountDown(@) ELSE @]
    BY <1>5 DEF UpdateNextGame
  <2> DEFINE game == IF games[g].state # "kPlaying" THEN CountDown(games[g]) ELSE games[g]
  <2>2. g \in DOMAIN games /\ games' = [games EXCEPT ![g] = game]
    BY <2>1 DEF ServerInv, TypeOK
  <2>3. HasRoom(games[g]) => HasRoom(game)
    BY <2>2, OperationsKeepRoom DEF ServerInv, GoodMatches
  <2>4. displaced' = displaced
    BY <1>5 DEF UpdateNextGame
  <2> HIDE DEF game
  <2>5. QED BY <2>2, <2>3, <2>4, OneMatchKeepsRoom
<1>6. CASE KickIfNotLoaded
  BY <1>1, <1>6, RemoveFromGameKeepsRoom DEF KickIfNotLoaded, UseStalePointer, matchVars
<1>7. CASE AddBot
  <2>1. PICK team \in GetRandomTeam(games[current].data.players) :
           games' = [games EXCEPT ![current] = FillWithOneBot(@, team)]
    BY <1>7 DEF AddBot
  <2> DEFINE game == FillWithOneBot(games[current], team)
  <2>2. current \in DOMAIN games /\ games' = [games EXCEPT ![current] = game]
    BY <1>7, <2>1 DEF AddBot, At, ServerInv, ThreadOK
  <2>3. HasRoom(games[current]) => HasRoom(game)
    BY <2>2, OperationsKeepRoom DEF ServerInv, GoodMatches
  <2>4. displaced' = displaced
    BY <1>7 DEF AddBot
  <2> HIDE DEF game
  <2>5. QED BY <2>2, <2>3, <2>4, OneMatchKeepsRoom
<1>8. CASE AdvanceGame
  <2> DEFINE game == FinishUpdate(ChangeState(games[current]))
  <2>1. UNCHANGED games \/ games' = [games EXCEPT ![current] = game]
    BY <1>8 DEF AdvanceGame, UseStalePointer
  <2>2. current \in DOMAIN games
    BY <1>8 DEF AdvanceGame, At, ServerInv, ThreadOK
  <2>3. HasRoom(games[current]) => HasRoom(game)
    BY <2>2, OperationsKeepRoom DEF ServerInv, GoodMatches
  <2>4. displaced' = displaced
    BY <1>8 DEF AdvanceGame, UseStalePointer
  <2> HIDE DEF game
  <2>5. QED BY <1>1, <2>1, <2>2, <2>3, <2>4, OneMatchKeepsRoom
<1>9. CASE EraseDeadGames
  BY <1>9 DEF EraseDeadGames, EveryTeamCanBeFilled
<1>10. CASE StartTick \/ FinishKicking \/ FinishFilling
  BY <1>1, <1>10 DEF StartTick, FinishKicking, FinishFilling, matchVars
<1>11. ASSUME NEW c \in Clients, Connect(c) \/ HandleClientInput(c) PROVE EveryTeamCanBeFilled'
  BY <1>1, <1>11 DEF Connect, HandleClientInput, DisconnectClient, UseStalePointer
<1>12. QED
  BY <1>1, <1>2, <1>3, <1>4, <1>5, <1>6, <1>7, <1>8, <1>9, <1>10, <1>11
     DEF Next, Tick, Network, vars

\* With no more teams than slots, a match in which no join has overwritten a
\* bot always has a free slot for each team without players, so FillWithBots
\* does not spin there.
THEOREM TeamsCanAlwaysBeFilled ==
    ASSUME MaxTeams <= MaxPlayers
    PROVE  Spec => []EveryTeamCanBeFilled
<1>1. Init => EveryTeamCanBeFilled
  BY DEF Init, EveryTeamCanBeFilled
<1>2. ServerInv /\ EveryTeamCanBeFilled /\ [Next]_vars => EveryTeamCanBeFilled'
  BY StepsKeepRoom
<1>3. QED
  BY Invariance, <1>1, <1>2, PTL DEF Spec

-----------------------------------------------------------------------------
(***************************************************************************)
(* The raw pointers between connections and matches, for a server whose    *)
(* clients never join by id (what the repository's own client does):       *)
(* JoinIds \subseteq {AnyGame}.                                            *)
(***************************************************************************)

-----------------------------------------------------------------------------
(* Who is in the list of players of a match.                                *)

ClientsOf(game) == {game.entries[i].client : i \in DOMAIN game.entries}

NoClientTwice(game) ==
    \A i, j \in DOMAIN game.entries :
        game.entries[i].client = game.entries[j].client => i = j

LEMMA EntryOfListed ==
    ASSUME NEW game \in Instance, NEW c
    PROVE  EntryOf(game, c) # 0 <=> c \in ClientsOf(game)
  BY EntryOfProperties DEF ClientsOf

LEMMA SameEntries ==
    ASSUME NEW game, NEW next, next.entries = game.entries
    PROVE  ClientsOf(next) = ClientsOf(game) /\ (NoClientTwice(game) => NoClientTwice(next))
  BY DEF ClientsOf, NoClientTwice

LEMMA LoadedKeepsClients ==
    ASSUME NEW game \in Instance, NEW c, NEW token,
           NEW next, next = HandlePlayerLoaded(game, c, token)
    PROVE  ClientsOf(next) = ClientsOf(game) /\ (NoClientTwice(game) => NoClientTwice(next))
<1>1. /\ DOMAIN next.entries = DOMAIN game.entries
      /\ \A i \in DOMAIN game.entries : next.entries[i].client = game.entries[i].client
  BY HandlePlayerLoadedOK
<1>2. QED
  BY <1>1 DEF ClientsOf, NoClientTwice

LEMMA JoinAddsClient ==
    ASSUME NEW game \in Instance, NEW c \in Clients, NEW token \in Tokens, NEW team \in Teams,
           NEW next, next = JoinPlayer(game, c, token, team)
    PROVE  /\ AcceptsPlayer(game) => ClientsOf(next) = ClientsOf(game) \cup {c}
           /\ ~AcceptsPlayer(game) => ClientsOf(next) = ClientsOf(game)
           /\ NoClientTwice(game) /\ c \notin ClientsOf(game) => NoClientTwice(next)
<1>1. CASE ~AcceptsPlayer(game)
  <2>1. next.entries = game.entries
    BY <1>1, JoinPlayerOK
  <2>2. QED BY <1>1, <2>1, SameEntries
<1>2. CASE AcceptsPlayer(game)
  <2> DEFINE entry == [client |-> c, index |-> game.nextId, token |-> token, loaded |-> FALSE]
             old == game.entries
             new == next.entries
  <2>1. new = Append(old, entry) /\ entry.client = c
    BY <1>2, JoinPlayerOK
  <2>2. old \in Seq(Entry) /\ DOMAIN old = 1 .. Len(old) /\ Len(old) \in Nat
    BY InstanceShape
  <2>3. /\ DOMAIN new = DOMAIN old \cup {Len(old) + 1}
        /\ Len(old) + 1 \notin DOMAIN old
        /\ \A i \in DOMAIN old : new[i] = old[i]
        /\ new[Len(old) + 1].client = c
    BY <2>1, <2>2
  <2> HIDE DEF old, new
  <2>4. {new[i].client : i \in DOMAIN new} = {old[i].client : i \in DOMAIN old} \cup {c}
    BY <2>3
  <2>5. ASSUME \A i, j \in DOMAIN old : old[i].client = old[j].client => i = j,
               \A i \in DOMAIN old : old[i].client # c
        PROVE  \A i, j \in DOMAIN new : new[i].client = new[j].client => i = j
    BY <2>3, <2>5
  <2>6. QED
    BY <1>2, <2>4, <2>5 DEF ClientsOf, NoClientTwice, old, new
<1>3. QED
  BY <1>1, <1>2

LEMMA RemoveDropsClient ==
    ASSUME NEW game \in Instance, NEW c, NoClientTwice(game),
           NEW next, next = RemovePlayer(game, c)
    PROVE  ClientsOf(next) = ClientsOf(game) \ {c} /\ NoClientTwice(next)
<1> DEFINE k == EntryOf(game, c)
           old == game.entries
           new == next.entries
<1>1. CASE k = 0
  <2>1. next = game
    BY <1>1, RemovePlayerOK
  <2>2. QED
    BY <1>1, <2>1, EntryOfListed
<1>2. CASE k # 0
  <2>1. /\ DOMAIN new = 1 .. Len(old) - 1
        /\ \A j \in DOMAIN new : /\ Origin(k, j) \in DOMAIN old \ {k}
                                 /\ new[j] = old[Origin(k, j)]
    BY <1>2, RemovePlayerOK
  <2>2. /\ k \in DOMAIN old /\ old[k].client = c /\ k \in Nat
        /\ DOMAIN old = 1 .. Len(old) /\ Len(old) \in Nat
    BY <1>2, InstanceShape, EntryOfProperties
  <2>3. \A i, j \in DOMAIN old : old[i].client = old[j].client => i = j
    BY DEF NoClientTwice
  <2> HIDE DEF k, old, new
  <2>4. \A i \in DOMAIN old \ {k} : \E j \in DOMAIN new : Origin(k, j) = i
    <3> TAKE i \in DOMAIN old \ {k}
    <3> DEFINE j == IF i < k THEN i ELSE i - 1
    <3>1. j \in DOMAIN new /\ Origin(k, j) = i
      BY <2>1, <2>2 DEF Origin
    <3>2. QED BY <3>1
  <2>5. \A i, j \in DOMAIN new : Origin(k, i) = Origin(k, j) => i = j
    BY <2>1, <2>2 DEF Origin
  <2>6. {new[j].client : j \in DOMAIN new} = {old[i].client : i \in DOMAIN old} \ {c}
    <3>1. \A j \in DOMAIN new : new[j].client \in {old[i].client : i \in DOMAIN old} \ {c}
      BY <2>1, <2>2, <2>3
    <3>2. \A i \in DOMAIN old : old[i].client # c => \E j \in DOMAIN new : new[j].client = old[i].client
      BY <2>1, <2>2, <2>4
    <3>3. QED BY <3>1, <3>2
  <2>7. \A i, j \in DOMAIN new : new[i].client = new[j].client => i = j
    BY <2>1, <2>3, <2>5
  <2>8. QED
    BY <2>6, <2>7 DEF ClientsOf, NoClientTwice, old, new
<1>3. QED
  BY <1>1, <1>2

-----------------------------------------------------------------------------
(* The invariant.                                                           *)

\* What the two directions of the pointers promise, for any state of the map,
\* the connections and the history.
PointersAgree(f, co, ins, ref) ==
    /\ \A g \in DOMAIN f :
          /\ NoClientTwice(f[g])
          /\ \A c \in ClientsOf(f[g]) : co[c] # "free" /\ ins[c] = g
    /\ \A c \in Clients :
          ins[c] # None => (ins[c] \in DOMAIN f /\ c \in ClientsOf(f[ins[c]])) \/ c \in ref

\* Only a match without players is erased.
DeadAreEmpty ==
    /\ \A g \in dead : ClientsOf(games[g]) = {}
    /\ pc = "network" => dead = {}

PointerInv ==
    /\ PointersAgree(games, conn, inst, refused)
    /\ DeadAreEmpty
    /\ BrokenOnlyByRefusal

LEMMA ClientsAreClients ==
    ASSUME ServerInv, NEW g \in DOMAIN games
    PROVE  games[g] \in Instance /\ ClientsOf(games[g]) \subseteq Clients
<1>1. games[g] \in Instance
  BY DEF ServerInv, TypeOK
<1>2. \A e \in Entry : e.client \in Clients
  BY DEF Entry
<1>3. QED
  BY <1>1, <1>2, InstanceShape DEF ClientsOf

\* A step in which nobody enters or leaves a match.
QuietStep ==
    /\ DOMAIN games' = DOMAIN games
    /\ \A g \in DOMAIN games :
          /\ ClientsOf(games'[g]) = ClientsOf(games[g])
          /\ NoClientTwice(games[g]) => NoClientTwice(games'[g])

LEMMA OneQuietMatch ==
    ASSUME NEW g \in DOMAIN games, NEW game,
           ClientsOf(game) = ClientsOf(games[g]),
           NoClientTwice(games[g]) => NoClientTwice(game),
           games' = [games EXCEPT ![g] = game]
    PROVE  QuietStep
  BY DEF QuietStep

LEMMA QuietStepOK ==
    ASSUME ServerInv, PointerInv, QuietStep, UNCHANGED <<conn, inst, refused>>
    PROVE  /\ PointersAgree(games', conn', inst', refused')
           /\ \A g \in dead : g \in DOMAIN games' /\ ClientsOf(games'[g]) = {}
<1>1. PointersAgree(games', conn', inst', refused')
  BY DEF PointerInv, PointersAgree, QuietStep
<1>2. QED
  BY <1>1 DEF PointerInv, DeadAreEmpty, QuietStep, ServerInv, TypeOK

\* A step in which one client leaves the only match it can be in.
LEMMA RemoveFromGameDropsClient ==
    ASSUME ServerInv, PointerInv, NEW c \in Clients, RemoveFromGame(c)
    PROVE  /\ DOMAIN games' = DOMAIN games
           /\ \A g \in DOMAIN games : /\ ClientsOf(games'[g]) = ClientsOf(games[g]) \ {c}
                                      /\ NoClientTwice(games'[g])
           /\ inst' = [inst EXCEPT ![c] = None]
<1>1. inst \in [Clients -> GameIds \cup {None}]
  BY DEF ServerInv, TypeOK
<1>2. \A g \in DOMAIN games : NoClientTwice(games[g]) /\ (c \in ClientsOf(games[g]) => inst[c] = g)
  BY DEF PointerInv, PointersAgree
<1>3. CASE inst[c] = None
  <2>1. UNCHANGED <<inst, games>>
    BY <1>3 DEF RemoveFromGame
  <2>2. \A g \in DOMAIN games : c \notin ClientsOf(games[g])
    BY <1>2, <1>3, IdsAssumption DEF ServerInv, TypeOK
  <2>3. QED
    BY <1>1, <1>2, <1>3, <2>1, <2>2
<1>4. CASE inst[c] # None
  <2> DEFINE g == inst[c]
             game == RemovePlayer(games[g], c)
  <2>1. /\ g \in DOMAIN games
        /\ games' = [games EXCEPT ![g] = game]
        /\ inst' = [inst EXCEPT ![c] = None]
    BY <1>4 DEF RemoveFromGame, Live
  <2>2. ClientsOf(game) = ClientsOf(games[g]) \ {c} /\ NoClientTwice(game)
    BY <1>2, <2>1, ClientsAreClients, RemoveDropsClient
  <2>3. \A h \in DOMAIN games \ {g} : c \notin ClientsOf(games[h])
    BY <1>2
  <2> HIDE DEF game, g
  <2>4. QED
    BY <1>2, <2>1, <2>2, <2>3
<1>5. QED
  BY <1>3, <1>4

LEMMA LeaveStepOK ==
    ASSUME ServerInv, PointerInv, NEW c \in Clients, RemoveFromGame(c), NEW status,
           conn' = [conn EXCEPT ![c] = status],
           NEW ref, refused \ {c} \subseteq ref
    PROVE  /\ PointersAgree(games', conn', inst', ref)
           /\ \A g \in dead : g \in DOMAIN games' /\ ClientsOf(games'[g]) = {}
<1>1. /\ DOMAIN games' = DOMAIN games
      /\ \A g \in DOMAIN games : /\ ClientsOf(games'[g]) = ClientsOf(games[g]) \ {c}
                                 /\ NoClientTwice(games'[g])
      /\ inst' = [inst EXCEPT ![c] = None]
  BY RemoveFromGameDropsClient
<1>2. conn \in [Clients -> {"free", "open", "closing"}] /\ inst \in [Clients -> GameIds \cup {None}]
  BY DEF ServerInv, TypeOK
<1>3. /\ inst'[c] = None
      /\ \A d \in Clients \ {c} : inst'[d] = inst[d] /\ conn'[d] = conn[d]
  BY <1>1, <1>2
<1>4. ASSUME NEW g \in DOMAIN games', NEW d \in ClientsOf(games'[g])
      PROVE  conn'[d] # "free" /\ inst'[d] = g
  <2>1. d \in ClientsOf(games[g]) /\ d # c /\ d \in Clients
    BY <1>1, <1>4, ClientsAreClients
  <2>2. conn[d] # "free" /\ inst[d] = g
    BY <1>1, <2>1 DEF PointerInv, PointersAgree
  <2>3. QED BY <1>3, <2>1, <2>2
<1>5. ASSUME NEW d \in Clients, inst'[d] # None
      PROVE  (inst'[d] \in DOMAIN games' /\ d \in ClientsOf(games'[inst'[d]])) \/ d \in ref
  <2>1. d # c /\ inst'[d] = inst[d]
    BY <1>3, <1>5
  <2>2. (inst[d] \in DOMAIN games /\ d \in ClientsOf(games[inst[d]])) \/ d \in refused
    BY <1>5, <2>1 DEF PointerInv, PointersAgree
  <2>3. QED BY <1>1, <2>1, <2>2
<1>6. QED
  BY <1>1, <1>4, <1>5 DEF PointersAgree, PointerInv, DeadAreEmpty, ServerInv, TypeOK

\* A connection without a match is in no list, so it may enter one.
LEMMA JoinStepOK ==
    ASSUME ServerInv, PointerInv, NEW c \in Clients, inst[c] = None, conn[c] # "free",
           NEW g \in GameIds, NEW game, GoodMatch(game),
           g \in DOMAIN games => game = games[g],
           g \notin DOMAIN games => game = NewInstance,
           AttachAndPut(c, g, game)
    PROVE  PointersAgree(games', conn', inst', refused')
<1> DEFINE accepted == AcceptsPlayer(game)
<1>1. /\ inst' = [inst EXCEPT ![c] = g]
      /\ PutInGame(c, g, game, TRUE)
      /\ conn' = conn
  BY DEF AttachAndPut
<1>2. PICK token \in Tokens, team \in GetRandomTeam(game.data.players) :
         games' = [h \in DOMAIN games \cup {g} |->
                      IF h = g THEN JoinPlayer(game, c, token, team) ELSE games[h]]
  BY <1>1 DEF PutInGame
<1> DEFINE joined == JoinPlayer(game, c, token, team)
<1>3. \A h \in DOMAIN games : c \notin ClientsOf(games[h])
  BY IdsAssumption DEF PointerInv, PointersAgree, ServerInv, TypeOK
<1>4. NoClientTwice(game) /\ c \notin ClientsOf(game)
  <2>1. CASE g \in DOMAIN games
    BY <1>3, <2>1 DEF PointerInv, PointersAgree
  <2>2. CASE g \notin DOMAIN games
    BY <2>2 DEF NewInstance, NoClientTwice, ClientsOf
  <2>3. QED BY <2>1, <2>2
<1>5. /\ accepted => ClientsOf(joined) = ClientsOf(game) \cup {c}
      /\ ~accepted => ClientsOf(joined) = ClientsOf(game)
      /\ NoClientTwice(joined)
  <2>1. team \in Teams /\ game \in Instance
    BY DEF GetRandomTeam, GoodMatch
  <2>2. QED BY <1>4, <2>1, JoinAddsClient
<1>7. refused' = IF ~accepted THEN refused \cup {c} ELSE refused
  BY <1>1 DEF PutInGame
<1>8. inst'[c] = g /\ \A d \in Clients \ {c} : inst'[d] = inst[d]
  BY <1>1 DEF ServerInv, TypeOK
<1> HIDE DEF joined, accepted
<1>9. /\ DOMAIN games' = DOMAIN games \cup {g}
      /\ games'[g] = joined
      /\ \A h \in DOMAIN games \ {g} : games'[h] = games[h]
  BY <1>2 DEF joined
<1>10. ASSUME NEW h \in DOMAIN games'
       PROVE  NoClientTwice(games'[h])
  BY <1>5, <1>9, <1>10 DEF PointerInv, PointersAgree
<1>11. \A d \in ClientsOf(game) : d \in Clients /\ conn[d] # "free" /\ inst[d] = g
  <2>1. CASE g \in DOMAIN games
    BY <2>1, ClientsAreClients DEF PointerInv, PointersAgree
  <2>2. CASE g \notin DOMAIN games
    BY <2>2 DEF NewInstance, ClientsOf
  <2>3. QED BY <2>1, <2>2
<1>12. ASSUME NEW h \in DOMAIN games', NEW d \in ClientsOf(games'[h])
       PROVE  conn'[d] # "free" /\ inst'[d] = h
  <2>1. CASE h = g /\ d = c
    BY <1>1, <1>8, <2>1
  <2>2. CASE h = g /\ d # c
    <3>1. d \in ClientsOf(game)
      BY <1>5, <1>9, <1>12, <2>2
    <3>2. QED BY <1>1, <1>8, <1>11, <2>2, <3>1
  <2>3. CASE h # g
    <3>1. h \in DOMAIN games /\ d \in ClientsOf(games[h]) /\ d # c
      BY <1>3, <1>9, <1>12, <2>3
    <3>2. d \in Clients /\ conn[d] # "free" /\ inst[d] = h
      BY <3>1, ClientsAreClients DEF PointerInv, PointersAgree
    <3>3. QED BY <1>1, <1>8, <3>1, <3>2
  <2>4. QED BY <2>1, <2>2, <2>3
<1>13. ASSUME NEW d \in Clients, inst'[d] # None
       PROVE  (inst'[d] \in DOMAIN games' /\ d \in ClientsOf(games'[inst'[d]])) \/ d \in refused'
  <2>1. CASE d = c
    BY <1>5, <1>7, <1>8, <1>9, <2>1
  <2>2. CASE d # c /\ d \notin refused
    <3>1. inst[d] \in DOMAIN games /\ d \in ClientsOf(games[inst[d]]) /\ inst'[d] = inst[d]
      BY <1>8, <1>13, <2>2 DEF PointerInv, PointersAgree
    <3>2. CASE inst[d] = g
      BY <1>5, <1>9, <3>1, <3>2
    <3>3. CASE inst[d] # g
      BY <1>9, <3>1, <3>3
    <3>4. QED BY <3>2, <3>3
  <2>3. CASE d \in refused
    BY <1>7, <2>3
  <2>4. QED BY <2>1, <2>2, <2>3
<1>14. QED
  BY <1>10, <1>12, <1>13 DEF PointersAgree

LEMMA PointersInit == Init => PointerInv
<1> SUFFICES ASSUME Init PROVE PointerInv
  OBVIOUS
<1>1. DOMAIN games = {} /\ \A c \in Clients : inst[c] = None
  BY DEF Init
<1>2. QED
  BY <1>1 DEF Init, PointerInv, PointersAgree, DeadAreEmpty, BrokenOnlyByRefusal

\* Only a turned-away connection can find its match erased.
LEMMA StaleIsRefused ==
    ASSUME PointerInv, NEW c \in Clients, HasStaleInstance(c)
    PROVE  c \in refused
  BY DEF PointerInv, PointersAgree, HasStaleInstance, Live

LEMMA StalePointerStep ==
    ASSUME PointerInv, UseStalePointer, NEW c \in refused, HasStaleInstance(c)
    PROVE  PointerInv'
  BY DEF UseStalePointer, PointerInv, PointersAgree, DeadAreEmpty, BrokenOnlyByRefusal,
     HasStaleInstance, Live

LEMMA DisconnectStep ==
    ASSUME ServerInv, PointerInv, NEW c \in Clients, DisconnectClient(c)
    PROVE  PointerInv'
<1>1. \A d : conn'[d] # "free" \/ conn'[d] = conn[d]
  BY DEF DisconnectClient, ServerInv, TypeOK
<1>2. PointersAgree(games', conn', inst', refused')
  BY <1>1 DEF DisconnectClient, PointerInv, PointersAgree
<1>3. QED
  BY <1>2 DEF DisconnectClient, threadVars, PointerInv, DeadAreEmpty, BrokenOnlyByRefusal,
     HasStaleInstance, Live

\* A join by room: the pointer is stored before the match is asked.
LEMMA PointersJoin ==
    ASSUME ServerInv, PointerInv, NEW c \in Clients, NEW validName, NEW knownStage,
           HandleJoinGame(c, AnyGame, validName, knownStage)
    PROVE  PointerInv'
<1>1. conn[c] # "free" /\ ~broken /\ pc = "network"
  BY DEF HandleJoinGame, Receives, InNetwork
<1>2. ASSUME NEW g \in GameIds, NEW game, GoodMatch(game), inst[c] = None,
             g \in DOMAIN games => game = games[g],
             g \notin DOMAIN games => game = NewInstance,
             AttachAndPut(c, g, game)
      PROVE  PointerInv'
  <2>1. PointersAgree(games', conn', inst', refused')
    BY <1>1, <1>2, JoinStepOK
  <2>2. UNCHANGED <<pc, dead, broken>>
    BY <1>2 DEF AttachAndPut, threadVars
  <2>3. QED
    BY <1>1, <2>1, <2>2 DEF PointerInv, DeadAreEmpty, BrokenOnlyByRefusal
<1>3. \A g \in DOMAIN games : g \in GameIds /\ GoodMatch(games[g])
  BY DEF ServerInv, TypeOK, GoodMatches
<1>4. GoodMatch(NewInstance)
  BY NewInstanceOK DEF GoodMatch
<1>5. DisconnectClient(c) \/ (inst[c] = None /\ JoinAnyGame(c, knownStage))
  BY DEF HandleJoinGame
<1>6. QED
  BY <1>2, <1>3, <1>4, <1>5, DisconnectStep DEF JoinAnyGame

\* Whatever else a connection does leaves the pointers in agreement.
LEMMA PointersOfOthers ==
    ASSUME ServerInv, PointerInv, NEW c \in Clients,
           \/ Connect(c) \/ CleanupClient(c) \/ HandleClientInput(c)
           \/ \E token : HandleFinishLoading(c, token)
    PROVE  PointerInv'
<1>1. ASSUME Connect(c)
      PROVE  PointerInv'
  <2>1. /\ conn[c] = "free" /\ conn' = [conn EXCEPT ![c] = "open"]
        /\ inst' = [inst EXCEPT ![c] = None]
        /\ UNCHANGED <<games, threadVars, broken, refused>>
        /\ ~broken
    BY <1>1 DEF Connect, InNetwork
  <2>2. \A g \in DOMAIN games : c \notin ClientsOf(games[g])
    BY <2>1 DEF PointerInv, PointersAgree
  <2>3. /\ inst'[c] = None
        /\ \A d \in Clients \ {c} : inst'[d] = inst[d] /\ conn'[d] = conn[d]
    BY <2>1 DEF ServerInv, TypeOK
  <2>4. PointersAgree(games', conn', inst', refused')
    <3>1. ASSUME NEW g \in DOMAIN games, NEW d \in ClientsOf(games[g])
          PROVE  conn'[d] # "free" /\ inst'[d] = g
      <4>1. d # c /\ d \in Clients
        BY <2>2, <3>1, ClientsAreClients
      <4>2. QED BY <2>3, <3>1, <4>1 DEF PointerInv, PointersAgree
    <3>2. QED BY <2>1, <2>3, <3>1 DEF PointerInv, PointersAgree
  <2>5. QED
    BY <2>1, <2>4 DEF threadVars, PointerInv, DeadAreEmpty, BrokenOnlyByRefusal
<1>2. ASSUME CleanupClient(c)
      PROVE  PointerInv'
  <2>1. CASE HasStaleInstance(c)
    BY <1>2, <2>1, StaleIsRefused, StalePointerStep DEF CleanupClient
  <2>2. CASE ~HasStaleInstance(c)
    <3>1. /\ RemoveFromGame(c)
          /\ conn' = [conn EXCEPT ![c] = "free"]
          /\ refused' = refused \ {c}
          /\ UNCHANGED <<threadVars, broken, displaced>>
          /\ ~broken
      BY <1>2, <2>2 DEF CleanupClient, InNetwork
    <3>2. /\ PointersAgree(games', conn', inst', refused')
          /\ \A g \in dead : ClientsOf(games'[g]) = {}
      BY <3>1, LeaveStepOK
    <3>3. QED
      BY <3>1, <3>2 DEF threadVars, PointerInv, DeadAreEmpty, BrokenOnlyByRefusal
  <2>3. QED
    BY <2>1, <2>2
<1>3. ASSUME NEW token, HandleFinishLoading(c, token)
      PROVE  PointerInv'
  <2>1. CASE DisconnectClient(c)
    BY <2>1, DisconnectStep
  <2>2. CASE HasStaleInstance(c) /\ UseStalePointer
    BY <2>2, StaleIsRefused, StalePointerStep
  <2>3. CASE /\ inst[c] \in DOMAIN games
             /\ games' = [games EXCEPT ![inst[c]] = HandlePlayerLoaded(@, c, token)]
             /\ UNCHANGED <<connVars, threadVars, broken, refused, displaced>>
    <3>0. ~broken
      BY <1>3 DEF HandleFinishLoading, Receives, InNetwork
    <3> DEFINE g == inst[c]
               game == HandlePlayerLoaded(games[g], c, token)
    <3>1. g \in DOMAIN games /\ games' = [games EXCEPT ![g] = game]
      BY <2>3
    <3>2. ClientsOf(game) = ClientsOf(games[g]) /\ (NoClientTwice(games[g]) => NoClientTwice(game))
      BY <3>1, ClientsAreClients, LoadedKeepsClients
    <3> HIDE DEF g, game
    <3>3. QuietStep
      BY <3>1, <3>2, OneQuietMatch
    <3>4. QED
      BY <2>3, <3>0, <3>3, QuietStepOK
         DEF connVars, threadVars, PointerInv, DeadAreEmpty, BrokenOnlyByRefusal
  <2>4. QED
    BY <1>3, <2>1, <2>2, <2>3 DEF HandleFinishLoading, HasStaleInstance, Live
<1>4. ASSUME HandleClientInput(c)
      PROVE  PointerInv'
  BY <1>4, DisconnectStep, StaleIsRefused, StalePointerStep DEF HandleClientInput
<1>5. QED
  BY <1>1, <1>2, <1>3, <1>4

LEMMA PointersNetwork ==
    ASSUME ServerInv, PointerInv, Network, JoinIds \subseteq {AnyGame}
    PROVE  PointerInv'
<1>1. ASSUME NEW c \in Clients, NEW id \in JoinIds, NEW validName, NEW knownStage,
             HandleJoinGame(c, id, validName, knownStage)
      PROVE  PointerInv'
  <2>1. id = AnyGame
    OBVIOUS
  <2>2. QED BY <1>1, <2>1, PointersJoin
<1>2. QED
  BY <1>1, PointersOfOthers DEF Network

LEMMA PointersTick ==
    ASSUME ServerInv, PointerInv, Tick
    PROVE  PointerInv'
<1>1. ASSUME QuietStep, ~broken, UNCHANGED <<conn, inst, refused, broken, dead>>, pc' # "network"
      PROVE  PointerInv'
  BY <1>1, QuietStepOK DEF PointerInv, DeadAreEmpty, BrokenOnlyByRefusal
<1>2. CASE StartTick \/ FinishKicking \/ FinishFilling
  <2>1. QuietStep
    BY <1>2 DEF StartTick, FinishKicking, FinishFilling, matchVars, QuietStep
  <2>2. QED
    BY <1>1, <1>2, <2>1 DEF StartTick, FinishKicking, FinishFilling, InNetwork, At, matchVars, connVars
<1>3. CASE UpdateNextGame
  <2>1. PICK g \in remaining :
           /\ games' = [games EXCEPT ![g] = IF games[g].state # "kPlaying" THEN CountDown(@) ELSE @]
           /\ pc' \in {"advance", "kick", "fill"}
    BY <1>3 DEF UpdateNextGame
  <2> DEFINE game == IF games[g].state # "kPlaying" THEN CountDown(games[g]) ELSE games[g]
  <2>2. g \in DOMAIN games /\ games' = [games EXCEPT ![g] = game]
    BY <2>1 DEF ServerInv, TypeOK
  <2>3. game.entries = games[g].entries
    BY <2>2, ClientsAreClients, CountDownOK
  <2> HIDE DEF game
  <2>4. QuietStep
    BY <2>2, <2>3, SameEntries, OneQuietMatch
  <2>5. QED
    BY <1>1, <1>3, <2>1, <2>4 DEF UpdateNextGame, At, connVars
<1>4. CASE AddBot
  <2>1. PICK team \in GetRandomTeam(games[current].data.players) :
           games' = [games EXCEPT ![current] = FillWithOneBot(@, team)]
    BY <1>4 DEF AddBot
  <2> DEFINE game == FillWithOneBot(games[current], team)
  <2>2. current \in DOMAIN games /\ games' = [games EXCEPT ![current] = game]
    BY <1>4, <2>1 DEF AddBot, At, ServerInv, ThreadOK
  <2>3. game.entries = games[current].entries
    BY <2>2, ClientsAreClients, FillWithOneBotOK DEF GetRandomTeam
  <2> HIDE DEF game
  <2>4. QuietStep
    BY <2>2, <2>3, SameEntries, OneQuietMatch
  <2>5. QED
    BY <1>1, <1>4, <2>4 DEF AddBot, At, connVars, threadVars
<1>5. CASE KickIfNotLoaded
  <2> DEFINE e == games[current].entries[cursor]
             c == e.client
  <2>1. /\ pc = "kick" /\ ~broken /\ current \in DOMAIN games
        /\ cursor \in 1 .. Len(games[current].entries)
    BY <1>5, InstanceShape DEF KickIfNotLoaded, At, ServerInv, TypeOK, ThreadOK, GetNumPlayers
  <2>2. c \in ClientsOf(games[current]) /\ c \in Clients
    BY <2>1, ClientsAreClients, InstanceShape DEF ClientsOf
  <2>3. conn[c] # "free" /\ ~HasStaleInstance(c)
    BY <2>1, <2>2 DEF PointerInv, PointersAgree, HasStaleInstance, Live
  <2>4. CASE e.loaded
    <3>1. QuietStep
      BY <1>5, <2>4 DEF KickIfNotLoaded, matchVars, QuietStep
    <3>2. QED
      BY <1>1, <1>5, <2>1, <2>4, <3>1 DEF KickIfNotLoaded, matchVars, connVars
  <2>5. CASE ~e.loaded
    <3>1. /\ RemoveFromGame(c)
          /\ conn' = [conn EXCEPT ![c] = "closing"]
          /\ UNCHANGED <<pc, current, remaining, dead, broken, refused, displaced>>
      BY <1>5, <2>3, <2>5 DEF KickIfNotLoaded
    <3> HIDE DEF c
    <3>2. /\ PointersAgree(games', conn', inst', refused')
          /\ \A g \in dead : ClientsOf(games'[g]) = {}
      BY <2>2, <3>1, LeaveStepOK
    <3>3. QED
      BY <2>1, <3>1, <3>2 DEF PointerInv, DeadAreEmpty, BrokenOnlyByRefusal
  <2>6. QED
    BY <2>4, <2>5
<1>6. CASE AdvanceGame
  <2> DEFINE next == ChangeState(games[current])
             game == FinishUpdate(next)
  <2>1. current \in DOMAIN games /\ ~broken
    BY <1>6 DEF AdvanceGame, At, ServerInv, ThreadOK
  <2>2. next \in Instance /\ next.entries = games[current].entries
    BY <2>1, ClientsAreClients, ChangeStateOK
  <2>3. game.entries = games[current].entries
    BY <2>2, FinishUpdateOK
  <2>4. \A i \in DOMAIN next.entries : conn[next.entries[i].client] # "free"
    BY <2>1, <2>2 DEF PointerInv, PointersAgree, ClientsOf
  <2>5. /\ games' = [games EXCEPT ![current] = game]
        /\ dead' = IF GetNumPlayers(next) = 0 THEN dead \cup {current} ELSE dead
        /\ pc' = "next"
        /\ UNCHANGED <<conn, inst, refused, broken>>
    BY <1>6, <2>4 DEF AdvanceGame, connVars
  <2> HIDE DEF game, next
  <2>6. QuietStep
    BY <2>1, <2>3, <2>5, SameEntries, OneQuietMatch
  <2>7. /\ PointersAgree(games', conn', inst', refused')
        /\ \A g \in dead : ClientsOf(games'[g]) = {}
    BY <2>5, <2>6, QuietStepOK
  <2>8. GetNumPlayers(next) = 0 => ClientsOf(games'[current]) = {}
    <3>1. GetNumPlayers(next) = 0 => DOMAIN next.entries = {}
      BY <2>2, InstanceShape DEF GetNumPlayers
    <3>2. QED BY <2>1, <2>2, <2>3, <2>5, <3>1 DEF ClientsOf
  <2>9. DeadAreEmpty'
    BY <2>5, <2>7, <2>8 DEF DeadAreEmpty
  <2>10. QED
    BY <2>1, <2>5, <2>7, <2>9 DEF PointerInv, BrokenOnlyByRefusal
<1>7. CASE EraseDeadGames
  <2>1. /\ games' = [g \in DOMAIN games \ dead |-> games[g]]
        /\ dead' = {} /\ ~broken /\ UNCHANGED <<conn, inst, refused, broken>>
    BY <1>7 DEF EraseDeadGames, At, connVars
  <2>2. PointersAgree(games', conn', inst', refused')
    BY <2>1 DEF PointerInv, PointersAgree, DeadAreEmpty
  <2>3. QED
    BY <2>1, <2>2 DEF PointerInv, DeadAreEmpty, BrokenOnlyByRefusal
<1>8. QED
  BY <1>2, <1>3, <1>4, <1>5, <1>6, <1>7 DEF Tick

LEMMA PointersNext ==
    ASSUME JoinIds \subseteq {AnyGame}
    PROVE  ServerInv /\ PointerInv /\ [Next]_vars => PointerInv'
<1>1. ASSUME ServerInv, PointerInv, UNCHANGED vars PROVE PointerInv'
  BY <1>1 DEF vars, PointerInv, PointersAgree, DeadAreEmpty, BrokenOnlyByRefusal,
     HasStaleInstance, Live
<1>2. QED
  BY <1>1, PointersNetwork, PointersTick DEF Next

LEMMA PointersInvariance ==
    ASSUME JoinIds \subseteq {AnyGame}
    PROVE  Spec => []PointerInv
<1>1. ServerInv /\ PointerInv /\ [Next]_vars => PointerInv'
  BY PointersNext
<1>2. QED
  BY Invariance, PointersInit, <1>1, PTL DEF Spec

-----------------------------------------------------------------------------
(* What the invariant says of a server whose clients never join by id.      *)

\* Every m_Client in a list of players is a live connection attached to that
\* match, and no connection is listed twice.
THEOREM EntriesAlwaysPointBack ==
    ASSUME JoinIds \subseteq {AnyGame}
    PROVE  Spec => []EntriesPointBack
<1>1. PointerInv => EntriesPointBack
  BY DEF PointerInv, PointersAgree, EntriesPointBack, NoClientTwice, ClientsOf
<1>2. QED
  BY PointersInvariance, <1>1, PTL

\* Every attached connection is in the list of its match, or was turned away.
THEOREM AttachedAreAlwaysListed ==
    ASSUME JoinIds \subseteq {AnyGame}
    PROVE  Spec => []AttachedAreListed
<1>1. ServerInv /\ PointerInv => AttachedAreListed
  BY ClientsAreClients, EntryOfListed
     DEF PointerInv, PointersAgree, AttachedAreListed, Listed, Live
<1>2. QED
  BY Invariance, PointersInvariance, <1>1, PTL

\* The ignored result of JoinPlayer is the only way to a dangling pointer: the
\* match of a connection that was turned away has been erased.
THEOREM OnlyRefusalBreaks ==
    ASSUME JoinIds \subseteq {AnyGame}
    PROVE  Spec => []BrokenOnlyByRefusal
<1>1. PointerInv => BrokenOnlyByRefusal
  BY DEF PointerInv
<1>2. QED
  BY PointersInvariance, <1>1, PTL

\* HandleClientEvent reaches every player of a started match.
THEOREM EventsAlwaysReachStartedMatch ==
    ASSUME JoinIds \subseteq {AnyGame}
    PROVE  Spec => []EventsReachStartedMatch
<1>1. ServerInv /\ PointerInv => EventsReachStartedMatch
  <2> SUFFICES ASSUME ServerInv, PointerInv, NEW c \in Clients,
                      inst[c] # None, c \notin refused, games[inst[c]].data.started
               PROVE  DeliversEventOf(games[inst[c]], c)
    BY DEF EventsReachStartedMatch
  <2> DEFINE game == games[inst[c]]
  <2>1. inst[c] \in DOMAIN games /\ c \in ClientsOf(game)
    BY DEF PointerInv, PointersAgree
  <2>2. GoodMatch(game)
    BY <2>1 DEF ServerInv, GoodMatches
  <2>3. EntryOf(game, c) # 0 /\ EntryOf(game, c) \in DOMAIN game.entries
    BY <2>1, <2>2, EntryOfListed, EntryOfProperties DEF GoodMatch
  <2>4. DOMAIN game.entries = 1 .. Len(game.entries) /\ Len(game.entries) \in Nat
    BY <2>2, InstanceShape DEF GoodMatch
  <2>5. \A i \in DOMAIN game.entries : game.entries[i].loaded
    BY <2>2 DEF GoodMatch, MatchInv, StartedIsLoaded
  <2>6. QED
    BY <2>3, <2>4, <2>5 DEF DeliversEventOf
<1>2. QED
  BY Invariance, PointersInvariance, <1>1, PTL
=============================================================================
