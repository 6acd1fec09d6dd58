------------------------- MODULE GameSession_proofs -------------------------
(***************************************************************************)
(* A client of the session is shown what the server has, for any number of *)
(* other connections, matches, slots, teams and tokens, any timers and any *)
(* number of snapshots on their way.                                       *)
(***************************************************************************)
EXTENDS GameSession, GameServer_proofs

-----------------------------------------------------------------------------
(* The pieces of a whole tick.                                              *)

\* What rounds of FillWithBots do to a match: they only add bots.
Grown(data, d) ==
    /\ d \in Data
    /\ d.started = data.started
    /\ d.winningTeam = data.winningTeam
    /\ d.countdown = data.countdown
    /\ d.roundTimer = data.roundTimer
    /\ DOMAIN data.players \subseteq DOMAIN d.players
    /\ \A j \in DOMAIN data.players : d.players[j] = data.players[j]
    /\ \A j \in DOMAIN d.players \ DOMAIN data.players : d.players[j].ai /\ d.players[j].ready

LEMMA GrownByOne ==
    ASSUME NEW data, NEW d, Grown(data, d), NEW team \in Teams
    PROVE  Grown(data, AddAIPlayer(d, team))
<1> DEFINE e == AddAIPlayer(d, team)
<1>1. d \in Data
  BY DEF Grown
<1>2. /\ e \in Data
      /\ e.started = d.started /\ e.winningTeam = d.winningTeam
      /\ e.countdown = d.countdown /\ e.roundTimer = d.roundTimer
      /\ DOMAIN d.players \subseteq DOMAIN e.players
      /\ \A j \in DOMAIN e.players :
            IF j \in DOMAIN d.players THEN e.players[j] = d.players[j]
            ELSE e.players[j] = [team |-> team, ai |-> TRUE, ready |-> TRUE]
  BY <1>1, AddAIPlayerShape
<1> HIDE DEF e
<1>3. \A j \in DOMAIN data.players : e.players[j] = data.players[j]
  BY <1>2 DEF Grown
<1>4. ASSUME NEW j \in DOMAIN e.players \ DOMAIN data.players
      PROVE  e.players[j].ai /\ e.players[j].ready
  BY <1>2, <1>4 DEF Grown
<1>5. Grown(data, e)
  BY <1>2, <1>3, <1>4 DEF Grown
<1>6. QED
  BY <1>5 DEF e

\* One round for every match that may have come out of the rounds before.
OneRound(D) ==
    UNION {IF NeedsMorePlayersToStartGame(d)
           THEN {AddAIPlayer(d, team) : team \in GetRandomTeam(d.players)}
           ELSE {d} : d \in D}

LEMMA RoundsGrow ==
    ASSUME NEW data, NEW D, \A d \in D : Grown(data, d)
    PROVE  \A d \in OneRound(D) : Grown(data, d)
<1>1. ASSUME NEW d \in OneRound(D)
      PROVE  Grown(data, d)
  <2>1. PICK old \in D :
           d \in IF NeedsMorePlayersToStartGame(old)
                 THEN {AddAIPlayer(old, team) : team \in GetRandomTeam(old.players)}
                 ELSE {old}
    BY <1>1 DEF OneRound
  <2>2. CASE NeedsMorePlayersToStartGame(old)
    <3>1. PICK team \in GetRandomTeam(old.players) : d = AddAIPlayer(old, team)
      BY <2>1, <2>2
    <3>2. team \in Teams
      BY DEF GetRandomTeam
    <3>3. QED BY <3>1, <3>2, GrownByOne
  <2>3. CASE ~NeedsMorePlayersToStartGame(old)
    BY <2>1, <2>3
  <2>4. QED BY <2>2, <2>3
<1>2. QED
  BY <1>1

LEMMA FilledIsGrown ==
    ASSUME NEW data \in Data, NEW d \in Filled(data)
    PROVE  Grown(data, d)
<1> DEFINE X == SUBSET {e \in Data : Grown(data, e)}
           x == {data}
           G == [n \in Nat |-> [D \in X |-> OneRound(D)]]
           round[n \in Nat] ==
              IF n = 0 THEN {data}
              ELSE UNION {IF NeedsMorePlayersToStartGame(e)
                          THEN {AddAIPlayer(e, team) : team \in GetRandomTeam(e.players)}
                          ELSE {e} : e \in round[n - 1]}
<1>1. Filled(data) = round[MaxPlayers]
  BY DEF Filled
<1>2. x \in X
  BY DEF Grown
<1>3. ASSUME NEW D \in X PROVE OneRound(D) \in X
  <2>1. \A e \in OneRound(D) : Grown(data, e)
    BY RoundsGrow
  <2>2. \A e \in OneRound(D) : e \in Data
    BY <2>1 DEF Grown
  <2> HIDE DEF x, G, round
  <2>3. QED BY <2>1, <2>2
<1> HIDE DEF X
<1>4. G \in [Nat -> [X -> X]] /\ \A n \in Nat, D \in X : G[n][D] = OneRound(D)
  BY <1>3
<1>5. PICK f : f \in [Nat -> X] /\ f[0] = {data} /\ \A n \in Nat : f[n + 1] = OneRound(f[n])
  <2> HIDE DEF x, G, round
  <2>1. PICK f : Unrolls(f, X, x, G)
    BY <1>2, <1>4, RecursionOnNat
  <2>2. QED BY <1>4, <2>1 DEF Unrolls, x
<1>6. ASSUME NEW n \in Nat
      PROVE  f[n] = IF n = 0 THEN {data} ELSE OneRound(f[n - 1])
  <2> HIDE DEF x, G, round
  <2>1. n # 0 => n - 1 \in Nat /\ (n - 1) + 1 = n
    OBVIOUS
  <2>2. QED BY <1>5, <2>1
<1>7. f = [n \in Nat |-> IF n = 0 THEN {data} ELSE OneRound(f[n - 1])]
  <2> HIDE DEF x, G, round
  <2>1. QED BY <1>5, <1>6
<1>8. round = [n \in Nat |-> IF n = 0 THEN {data} ELSE OneRound(round[n - 1])]
  <2> HIDE DEF x, G
  <2>1. QED BY <1>7 DEF round, OneRound
<1> HIDE DEF round, x, G
<1> DEFINE A == {n \in Nat : round[n] \in X}
<1>9. 0 \in A
  BY <1>2, <1>8 DEF x
<1>10. ASSUME NEW n \in Nat, n \in A PROVE n + 1 \in A
  <2>1. n + 1 \in Nat /\ n + 1 # 0 /\ (n + 1) - 1 = n
    OBVIOUS
  <2>2. round[n + 1] = OneRound(round[n])
    BY <1>8, <2>1
  <2>3. QED BY <1>3, <1>10, <2>2
<1> HIDE DEF A
<1>11. MaxPlayers \in A
  BY <1>9, <1>10, Induction, PlayersAssumption
<1>12. QED
  BY <1>1, <1>11 DEF A, X

LEMMA GrownIsGood ==
    ASSUME NEW game, GoodMatch(game), NEW d, Grown(game.data, d)
    PROVE  GoodMatch([game EXCEPT !.data = d])
<1> DEFINE next == [game EXCEPT !.data = d]
<1>1. game \in Instance /\ MatchInv(game)
  BY DEF GoodMatch
<1>2. next \in Instance
  BY <1>1 DEF Instance, Grown
<1>3. next.entries = game.entries /\ next.data = d /\ next.state = game.state /\ next.nextId = game.nextId
  BY <1>1 DEF Instance
<1> HIDE DEF next
<1>4. EntriesOwnTheirSlots(next)
  BY <1>1, <1>3 DEF MatchInv, EntriesOwnTheirSlots, Grown
<1>5. StartedIsLoaded(next)
  BY <1>1, <1>3 DEF MatchInv, StartedIsLoaded, Grown
<1>6. DecidedByClock(next.data) /\ IdsAreDrawnInOrder(next)
  BY <1>1, <1>3 DEF MatchInv, DecidedByClock, IdsAreDrawnInOrder, Grown
<1>7. QED
  BY <1>2, <1>4, <1>5, <1>6 DEF GoodMatch, MatchInv, next

\* Staying keeps the entries that are not gone, each once and in their order.
LEMMA StayingIs ==
    ASSUME NEW S, NEW s \in Seq(S), NEW gone
    PROVE  Staying(s, gone) \in Seq(S) /\ Selected(s, gone, Len(s), Staying(s, gone))
<1> DEFINE X == Seq(S)
           x == <<>>
           G == [n \in Nat |-> [r \in X |->
                    IF n \in 1 .. Len(s) /\ s[n] \notin gone THEN Append(r, s[n]) ELSE r]]
           kept[n \in 0 .. Len(s)] ==
              IF n = 0 THEN <<>>
              ELSE IF s[n] \in gone THEN kept[n - 1]
              ELSE Append(kept[n - 1], s[n])
<1>1. Staying(s, gone) = kept[Len(s)]
  BY DEF Staying
<1>2. x \in X /\ \A n \in Nat, r \in X : G[n][r] \in X
  OBVIOUS
<1>3. \A n \in Nat, r \in Seq(S) :
        G[n][r] = IF n \in 1 .. Len(s) /\ s[n] \notin gone THEN Append(r, s[n]) ELSE r
  OBVIOUS
<1>4. G \in [Nat -> [X -> X]]
  BY <1>2
<1>5. PICK F \in [Nat -> Seq(S)] : F[0] = <<>> /\ \A n \in Nat : F[n + 1] = G[n + 1][F[n]]
  <2> HIDE DEF X, x, G, kept
  <2>1. \E f : Unrolls(f, X, x, G)
    BY <1>2, <1>4, RecursionOnNat
  <2>2. QED BY <2>1 DEF Unrolls, X, x
<1> HIDE DEF G
<1>6. Len(s) \in Nat
  BY LenProperties
<1> DEFINE f == [n \in 0 .. Len(s) |-> F[n]]
<1>7. ASSUME NEW n \in 0 .. Len(s), n # 0
      PROVE F[n] = IF s[n] \in gone THEN F[n - 1] ELSE Append(F[n - 1], s[n])
  <2>1. n \in Nat /\ n - 1 \in Nat /\ (n - 1) + 1 = n /\ n \in 1 .. Len(s)
    BY <1>6, <1>7
  <2>2. F[n - 1] \in Seq(S)
    BY <2>1
  <2>3. F[n] = G[n][F[n - 1]]
    BY <1>5, <2>1
  <2> HIDE DEF kept
  <2>4. QED BY <1>3, <2>1, <2>2, <2>3
<1>8. ASSUME NEW n \in 0 .. Len(s)
      PROVE  f[n] = IF n = 0 THEN <<>> ELSE IF s[n] \in gone THEN f[n - 1] ELSE Append(f[n - 1], s[n])
  <2>1. n # 0 => n - 1 \in 0 .. Len(s)
    BY <1>6
  <2> HIDE DEF kept
  <2>2. QED BY <1>5, <1>7, <2>1
<1>9. f = [n \in 0 .. Len(s) |->
              IF n = 0 THEN <<>> ELSE IF s[n] \in gone THEN f[n - 1] ELSE Append(f[n - 1], s[n])]
  <2> HIDE DEF kept
  <2>1. QED BY <1>8
<1>10. kept = [n \in 0 .. Len(s) |->
                  IF n = 0 THEN <<>> ELSE IF s[n] \in gone THEN kept[n - 1] ELSE Append(kept[n - 1], s[n])]
  <2> HIDE DEF f
  <2>1. QED BY <1>9 DEF kept
<1> HIDE DEF kept, f
<1> DEFINE A == {n \in Nat : n <= Len(s) => kept[n] \in Seq(S) /\ Selected(s, gone, n, kept[n])}
<1>11. 0 \in A
  <2>1. kept[0] = <<>>
    BY <1>6, <1>10
  <2>2. <<>> \in Seq(S) /\ Len(<<>>) = 0
    OBVIOUS
  <2> DEFINE z == <<>>
  <2>3. Selected(s, gone, 0, z)
    <3> DEFINE h == [a \in 1 .. 0 |-> 0]
    <3>1. h \in [1 .. 0 -> 1 .. 0] /\ \A a : a \notin 1 .. 0
      OBVIOUS
    <3>2. Len(z) = 0
      OBVIOUS
    <3> HIDE DEF h, z
    <3>3. h \in [1 .. Len(z) -> 1 .. 0] /\ \A a : a \notin 1 .. Len(z)
      BY <3>1, <3>2
    <3>4. QED BY <3>1, <3>3 DEF Selected
  <2>4. QED BY <2>1, <2>2, <2>3
<1>12. ASSUME NEW n \in Nat, n \in A PROVE n + 1 \in A
  <2> SUFFICES ASSUME n + 1 <= Len(s)
               PROVE  kept[n + 1] \in Seq(S) /\ Selected(s, gone, n + 1, kept[n + 1])
    OBVIOUS
  <2>1. kept[n] \in Seq(S) /\ Selected(s, gone, n, kept[n])
    BY <1>6, <1>12
  <2>2. n + 1 \in 0 .. Len(s) /\ n + 1 # 0 /\ (n + 1) - 1 = n /\ n < Len(s)
    BY <1>6
  <2>3. kept[n + 1] = IF s[n + 1] \in gone THEN kept[n] ELSE Append(kept[n], s[n + 1])
    BY <1>10, <2>2
  <2>4. s[n + 1] \in S
    BY <1>6, <2>2, ElementOfSeq
  <2>5. Append(kept[n], s[n + 1]) \in Seq(S)
    BY <2>1, <2>4, AppendProperties
  <2>6. IF s[n + 1] \in gone THEN Selected(s, gone, n + 1, kept[n])
        ELSE Selected(s, gone, n + 1, Append(kept[n], s[n + 1]))
    BY <2>1, <2>2, SelectNext
  <2>7. QED BY <2>1, <2>3, <2>5, <2>6
<1> HIDE DEF A
<1>13. Len(s) \in A
  BY <1>6, <1>11, <1>12, Induction
<1>14. QED
  BY <1>1, <1>6, <1>13 DEF A

InList(game, e) == \E i \in DOMAIN game.entries : game.entries[i] = e

\* Kicking takes the entries that are not loaded and the slots they own.
LEMMA WithoutKickedOK ==
    ASSUME NEW game, GoodMatch(game),
           NEW kept, kept = WithoutKicked(game)
    PROVE  /\ GoodMatch(kept)
           /\ kept.data.started = game.data.started
           /\ \A e : InList(kept, e) <=> InList(game, e) /\ e \notin Kicked(game)
           /\ NoClientTwice(game) => NoClientTwice(kept)
<1> DEFINE gone == Kicked(game)
           slots == {e.index : e \in gone}
           new == Staying(game.entries, gone)
           old == game.entries
           was == game.data.players
           is == [j \in DOMAIN was \ slots |-> was[j]]
<1>1. game \in Instance /\ MatchInv(game)
  BY DEF GoodMatch
<1>2. /\ old \in Seq(Entry) /\ Len(old) \in Nat /\ DOMAIN old = 1 .. Len(old)
      /\ \A i \in DOMAIN old : old[i] \in Entry /\ old[i].index \in Slots
      /\ game.data \in Data /\ was \in Players
  BY <1>1, InstanceShape
<1>3. new \in Seq(Entry) /\ Selected(old, gone, Len(old), new)
  BY <1>2, StayingIs
<1>4. is \in Players
  <2>1. DOMAIN was \subseteq Slots /\ was \in [DOMAIN was -> Player]
    BY <1>2, PlayersShape
  <2>2. DOMAIN is \subseteq Slots /\ is \in [DOMAIN is -> Player]
    BY <2>1
  <2> HIDE DEF is, slots, was
  <2>3. QED BY <2>2, PlayersShape
<1>5. /\ kept.entries = new
      /\ kept.data = [game.data EXCEPT !.players = is]
      /\ kept.state = game.state /\ kept.nextId = game.nextId
      /\ kept.loadTimer = game.loadTimer /\ kept.sendTimer = game.sendTimer
      /\ kept = [game EXCEPT !.entries = new, !.data = [game.data EXCEPT !.players = is]]
  BY <1>1 DEF WithoutKicked, Instance
<1>6. \A e \in gone : InList(game, e) /\ ~e.loaded
  BY DEF Kicked, Range, InList
<1>7. game.data.players = was /\ DOMAIN is = DOMAIN was \ slots /\ \A j \in DOMAIN is : is[j] = was[j]
  OBVIOUS
<1>8. /\ \A i \in DOMAIN old :
            /\ old[i].index \in DOMAIN was
            /\ ~was[old[i].index].ai
            /\ was[old[i].index].ready = old[i].loaded
      /\ \A i, j \in DOMAIN old : old[i].index = old[j].index => i = j
      /\ \A j \in DOMAIN was : was[j].ai \/ \E i \in DOMAIN old : old[i].index = j
  BY <1>1 DEF MatchInv, EntriesOwnTheirSlots
<1>9. PICK h \in [1 .. Len(new) -> 1 .. Len(old)] :
        /\ \A a, b \in 1 .. Len(new) : a < b => h[a] < h[b]
        /\ \A a \in 1 .. Len(new) : new[a] = old[h[a]] /\ old[h[a]] \notin gone
        /\ \A i \in 1 .. Len(old) : old[i] \notin gone => \E a \in 1 .. Len(new) : h[a] = i
  BY <1>3 DEF Selected
<1>10. DOMAIN new = 1 .. Len(new) /\ Len(new) \in Nat
  BY <1>3, LenProperties
<1>11. \A j \in slots : \E i \in DOMAIN old : old[i] \in gone /\ old[i].index = j
  BY <1>6 DEF InList
<1> HIDE DEF gone, slots, new, old, was, is
<1>12. \A a \in DOMAIN new : h[a] \in DOMAIN old /\ new[a] = old[h[a]] /\ old[h[a]] \notin gone
  BY <1>2, <1>9, <1>10
<1>13. \A a, b \in DOMAIN new : h[a] = h[b] => a = b
  <2>1. \A a, b \in 1 .. Len(new) : a < b \/ b < a \/ a = b
    BY <1>10
  <2>2. \A a \in 1 .. Len(new) : h[a] \in 1 .. Len(old)
    BY <1>9
  <2>3. \A a, b \in 1 .. Len(old) : a < b => a # b
    BY <1>2
  <2>4. QED BY <1>9, <1>10, <2>1, <2>2, <2>3
<1>14. \A i \in DOMAIN old : old[i] \notin gone => \E a \in DOMAIN new : h[a] = i
  BY <1>2, <1>9, <1>10
<1>15. \A i \in DOMAIN old : old[i].index \in slots => old[i] \in gone
  BY <1>8, <1>11
<1>16. kept \in Instance
  BY <1>1, <1>2, <1>3, <1>4, <1>5 DEF Instance, Data, Players
<1>17. kept.data.players = is /\ kept.data.started = game.data.started
       /\ kept.data.winningTeam = game.data.winningTeam /\ kept.data.countdown = game.data.countdown
       /\ kept.data.roundTimer = game.data.roundTimer
  BY <1>2, <1>5 DEF Data
<1>18. EntriesOwnTheirSlots(kept)
  <2>1. ASSUME NEW a \in DOMAIN new
        PROVE  /\ new[a].index \in DOMAIN is
               /\ ~is[new[a].index].ai
               /\ is[new[a].index].ready = new[a].loaded
    BY <1>7, <1>8, <1>12, <1>15
  <2>2. \A a, b \in DOMAIN new : new[a].index = new[b].index => a = b
    BY <1>8, <1>12, <1>13
  <2>3. ASSUME NEW j \in DOMAIN is
        PROVE  is[j].ai \/ \E a \in DOMAIN new : new[a].index = j
    <3>1. j \in DOMAIN was /\ j \notin slots /\ is[j] = was[j]
      BY <1>7
    <3>2. CASE was[j].ai
      BY <3>1, <3>2
    <3>3. CASE ~was[j].ai
      <4>1. PICK i \in DOMAIN old : old[i].index = j
        BY <1>8, <3>1, <3>3
      <4>2. old[i] \notin gone
        BY <3>1, <4>1 DEF slots
      <4>3. QED BY <1>12, <1>14, <4>1, <4>2
    <3>4. QED BY <3>2, <3>3
  <2>4. QED BY <1>5, <1>17, <2>1, <2>2, <2>3 DEF EntriesOwnTheirSlots
<1>19. StartedIsLoaded(kept)
  <2>1. \A a \in DOMAIN new : game.data.started => new[a].loaded
    BY <1>1, <1>12 DEF MatchInv, StartedIsLoaded, old
  <2>2. \A j \in DOMAIN is : game.data.started => is[j].ready
    BY <1>1, <1>7 DEF MatchInv, StartedIsLoaded
  <2>3. QED BY <1>1, <1>5, <1>17, <2>1, <2>2 DEF MatchInv, StartedIsLoaded
<1>20. DecidedByClock(kept.data)
  BY <1>1, <1>17 DEF MatchInv, DecidedByClock
<1>21. IdsAreDrawnInOrder(kept)
  BY <1>1, <1>5, <1>12 DEF MatchInv, IdsAreDrawnInOrder, old
<1>22. ASSUME NEW e PROVE InList(kept, e) <=> InList(game, e) /\ e \notin gone
  BY <1>5, <1>12, <1>14 DEF InList, old
<1>23. NoClientTwice(game) => NoClientTwice(kept)
  BY <1>5, <1>12, <1>13 DEF NoClientTwice, old
<1>24. QED
  BY <1>16, <1>17, <1>18, <1>19, <1>20, <1>21, <1>22, <1>23 DEF GoodMatch, MatchInv, gone

\* The same match, started or not, with the slots of the people who stay.
Follows(d1, d2) ==
    d1.started =>
        /\ d2.started
        /\ \A i \in DOMAIN d2.players :
              i \in DOMAIN d1.players /\ d1.players[i] = d2.players[i]

LEMMA FollowsItself == \A d : Follows(d, d)
  BY DEF Follows

LEMMA FollowsInTurn ==
    \A d1, d2, d3 : Follows(d1, d2) /\ Follows(d2, d3) => Follows(d1, d3)
  BY DEF Follows

LEMMA AdvancedOK ==
    ASSUME NEW game, GoodMatch(game), NEW next \in Advanced(game)
    PROVE  /\ GoodMatch(next)
           /\ \A e : InList(next, e) <=> InList(game, e) /\ e \notin Kicked(game)
           /\ NoClientTwice(game) => NoClientTwice(next)
           /\ Follows(game.data, next.data)
<1> DEFINE counted == IF game.state = "kPlaying" THEN game ELSE CountDown(game)
           kept == WithoutKicked(game)
<1>1. PICK g \in IF Expired(game) THEN {[kept EXCEPT !.data = d] : d \in Filled(kept.data)}
                 ELSE {counted} : next = ChangeState(g)
  BY DEF Advanced
<1>2. ASSUME GoodMatch(g), \A e : InList(g, e) <=> InList(game, e) /\ e \notin Kicked(game),
             NoClientTwice(game) => NoClientTwice(g),
             game.data.started => ChangeState(g).data = game.data
      PROVE  /\ GoodMatch(next)
             /\ \A e : InList(next, e) <=> InList(game, e) /\ e \notin Kicked(game)
             /\ NoClientTwice(game) => NoClientTwice(next)
             /\ Follows(game.data, next.data)
  <2>1. GoodMatch(next) /\ next.entries = g.entries
    BY <1>1, <1>2, GoodOperations, ChangeStateOK DEF GoodMatch
  <2>2. Follows(game.data, next.data)
    BY <1>1, <1>2 DEF Follows
  <2>3. QED BY <1>2, <2>1, <2>2, SameEntries DEF InList
<1>3. game.data.started => game.state = "kPlaying"
  BY DEF GoodMatch, MatchInv, StartedIsLoaded
<1>4. CASE Expired(game)
  <2>1. PICK d \in Filled(kept.data) : g = [kept EXCEPT !.data = d]
    BY <1>1, <1>4
  <2>2. /\ GoodMatch(kept)
        /\ \A e : InList(kept, e) <=> InList(game, e) /\ e \notin Kicked(game)
        /\ NoClientTwice(game) => NoClientTwice(kept)
    BY WithoutKickedOK
  <2> HIDE DEF kept
  <2>3. kept.data \in Data
    BY <2>2, InstanceShape DEF GoodMatch
  <2>4. GoodMatch(g)
    BY <2>1, <2>2, <2>3, FilledIsGrown, GrownIsGood
  <2>5. g.entries = kept.entries
    BY <2>1, <2>2 DEF GoodMatch, Instance
  <2>6. ~game.data.started
    BY <1>3, <1>4 DEF Expired
  <2>7. QED
    BY <1>2, <2>2, <2>4, <2>5, <2>6, SameEntries DEF InList
<1>5. CASE ~Expired(game)
  <2>1. g = counted /\ Kicked(game) = {}
    BY <1>1, <1>5 DEF Kicked
  <2>2. GoodMatch(g) /\ g.entries = game.entries
    BY <2>1, GoodOperations, CountDownOK DEF GoodMatch
  <2>3. game.data.started => ChangeState(g).data = game.data
    BY <1>3, <2>1 DEF ChangeState
  <2> HIDE DEF counted
  <2>4. QED
    BY <1>2, <2>1, <2>2, <2>3, SameEntries DEF InList
<1>6. QED
  BY <1>4, <1>5

LEMMA FinishUpdateFollows ==
    ASSUME NEW game, GoodMatch(game)
    PROVE  LET next == FinishUpdate(game) IN
           /\ GoodMatch(next)
           /\ next.entries = game.entries
           /\ next.data.players = game.data.players
           /\ Follows(game.data, next.data)
<1>1. GoodMatch(FinishUpdate(game)) /\ FinishUpdate(game).entries = game.entries
  BY GoodOperations, FinishUpdateOK DEF GoodMatch
<1>2. game \in Instance /\ game.data \in Data
  BY InstanceShape DEF GoodMatch
<1>3. FinishUpdate(game).data = UpdateController(game.data)
  BY <1>2 DEF FinishUpdate, Instance
<1>4. UpdateController(game.data).players = game.data.players
      /\ UpdateController(game.data).started = game.data.started
  BY <1>2 DEF UpdateController, EndGame, Data
<1>5. QED
  BY <1>1, <1>3, <1>4 DEF Follows

-----------------------------------------------------------------------------
(* The server under the steps of a session.                                 *)

\* After a tick that hangs the thread never comes back to the network.
SessionServer ==
    /\ TypeOK
    /\ GoodMatches(games)
    /\ PointerInv
    /\ pc \in {"network", "fill"}
    /\ remaining = {}

\* A connection comes, goes, joins any match, has loaded or sends its input.
NetworkOf(c) ==
    \/ Connect(c) \/ CleanupClient(c) \/ HandleClientInput(c)
    \/ \E validName : HandleJoinGame(c, AnyGame, validName, TRUE)
    \/ \E token \in Tokens : HandleFinishLoading(c, token)

LEMMA ServerBetweenTicks ==
    ASSUME SessionServer, pc = "network"
    PROVE  ServerInv /\ PointerInv /\ dead = {}
  BY DEF SessionServer, ServerInv, ThreadOK, PointerInv, DeadAreEmpty

LEMMA ServerNetworkStep ==
    ASSUME SessionServer, NEW c \in Clients, NetworkOf(c)
    PROVE  SessionServer'
<1>1. pc = "network"
  BY DEF NetworkOf, Connect, CleanupClient, HandleClientInput, HandleJoinGame, HandleFinishLoading,
         Receives, InNetwork
<1>2. ServerInv /\ PointerInv
  BY <1>1, ServerBetweenTicks
<1>3. ServerInv'
  BY <1>2, InvConnections, InvJoin, InvFinishLoading DEF NetworkOf
<1>4. PointerInv'
  BY <1>2, PointersOfOthers, PointersJoin DEF NetworkOf
<1>5. pc' = pc /\ remaining' = remaining
  BY DEF NetworkOf, Connect, CleanupClient, HandleClientInput, HandleJoinGame, HandleFinishLoading,
         DisconnectClient, UseStalePointer, JoinAnyGame, AttachAndPut, JoinGameById, threadVars
<1>6. QED
  BY <1>1, <1>3, <1>4, <1>5 DEF SessionServer, ServerInv

LEMMA TickChoiceOK ==
    ASSUME SessionServer, NEW f \in TickChoices, NEW g \in DOMAIN games
    PROVE  /\ GoodMatch(games[g])
           /\ NoClientTwice(games[g])
           /\ GoodMatch(f[g])
           /\ NoClientTwice(f[g])
           /\ \A e : InList(f[g], e) <=> InList(games[g], e) /\ e \notin Kicked(games[g])
           /\ Follows(games[g].data, f[g].data)
<1>1. GoodMatch(games[g]) /\ NoClientTwice(games[g])
  BY DEF SessionServer, GoodMatches, PointerInv, PointersAgree
<1>2. f[g] \in Advanced(games[g])
  BY DEF TickChoices
<1>3. QED
  BY <1>1, <1>2, AdvancedOK

\* Somebody is in a list of players.
LEMMA ClientsAreListed ==
    ASSUME NEW game, NEW c
    PROVE  c \in ClientsOf(game) <=> \E e : InList(game, e) /\ e.client = c
  BY DEF ClientsOf, InList

LEMMA OneEntryEach ==
    ASSUME NEW game, NoClientTwice(game), NEW e1, NEW e2, InList(game, e1), InList(game, e2),
           e1.client = e2.client
    PROVE  e1 = e2
  BY DEF NoClientTwice, InList

LEMMA ServerTickStep ==
    ASSUME SessionServer, NEW f \in TickChoices, WholeTickWith(f)
    PROVE  SessionServer'
<1> DEFINE kicked == UNION {{e.client : e \in Kicked(games[g])} : g \in DOMAIN games}
           empty == {g \in DOMAIN games : GetNumPlayers(f[g]) = 0}
<1>1. /\ pc = "network" /\ ~broken
      /\ games' = [g \in DOMAIN games \ empty |-> FinishUpdate(f[g])]
      /\ conn' = [c \in Clients |-> IF c \in kicked THEN "closing" ELSE conn[c]]
      /\ inst' = [c \in Clients |-> IF c \in kicked THEN None ELSE inst[c]]
      /\ UNCHANGED <<pc, current, remaining, dead, cursor, broken, refused, displaced>>
  BY DEF WholeTickWith, InNetwork, threadVars
<1>2. \A c : c \in kicked <=> \E g \in DOMAIN games : \E e \in Kicked(games[g]) : e.client = c
  OBVIOUS
<1> HIDE DEF kicked
<1>3. /\ conn \in [Clients -> {"free", "open", "closing"}]
      /\ inst \in [Clients -> GameIds \cup {None}]
      /\ DOMAIN games \subseteq GameIds
      /\ dead = {}
  BY <1>1, ServerBetweenTicks DEF SessionServer, TypeOK
<1>4. \A g \in DOMAIN games :
        /\ GoodMatch(games[g]) /\ NoClientTwice(games[g])
        /\ GoodMatch(f[g]) /\ NoClientTwice(f[g])
        /\ \A e : InList(f[g], e) <=> InList(games[g], e) /\ e \notin Kicked(games[g])
  BY TickChoiceOK
<1>5. /\ DOMAIN games' = DOMAIN games \ empty
      /\ \A g \in DOMAIN games' :
            GoodMatch(games'[g]) /\ games'[g].entries = f[g].entries
  BY <1>1, <1>4, FinishUpdateFollows
<1>6. \A g \in DOMAIN games' :
        /\ ClientsOf(games'[g]) = ClientsOf(f[g])
        /\ NoClientTwice(games'[g])
  BY <1>4, <1>5, SameEntries
<1>7. \A g \in DOMAIN games : ClientsOf(f[g]) = ClientsOf(games[g]) \ kicked
  <2>1. ASSUME NEW g \in DOMAIN games, NEW c \in ClientsOf(f[g])
        PROVE  c \in ClientsOf(games[g]) /\ c \notin kicked
    <3>1. PICK e : InList(f[g], e) /\ e.client = c
      BY <2>1, ClientsAreListed
    <3>2. InList(games[g], e) /\ e \notin Kicked(games[g])
      BY <1>4, <3>1
    <3>3. c \in ClientsOf(games[g])
      BY <3>1, <3>2, ClientsAreListed
    <3>4. ASSUME c \in kicked PROVE FALSE
      <4>1. PICK h \in DOMAIN games : \E d \in Kicked(games[h]) : d.client = c
        BY <1>2, <3>4
      <4>0. PICK d \in Kicked(games[h]) : d.client = c
        BY <4>1
      <4>2. InList(games[h], d)
        BY DEF Kicked, Range, InList
      <4>3. c \in ClientsOf(games[h])
        BY <4>0, <4>2, ClientsAreListed
      <4>4. h = g
        BY <3>3, <4>3 DEF SessionServer, PointerInv, PointersAgree
      <4>5. d = e
        BY <1>4, <3>1, <3>2, <4>0, <4>2, <4>4, OneEntryEach
      <4>6. QED BY <3>2, <4>4, <4>5
    <3>5. QED BY <3>3, <3>4
  <2>2. ASSUME NEW g \in DOMAIN games, NEW c \in ClientsOf(games[g]), c \notin kicked
        PROVE  c \in ClientsOf(f[g])
    <3>1. PICK e : InList(games[g], e) /\ e.client = c
      BY <2>2, ClientsAreListed
    <3>2. e \notin Kicked(games[g])
      BY <1>2, <2>2, <3>1
    <3>3. QED BY <1>4, <3>1, <3>2, ClientsAreListed
  <2>3. QED BY <2>1, <2>2
<1>8. \A g \in empty : ClientsOf(f[g]) = {}
  <2>1. ASSUME NEW g \in empty PROVE DOMAIN f[g].entries = {}
    <3>1. f[g] \in Instance /\ Len(f[g].entries) = 0
      BY <1>4 DEF GoodMatch, GetNumPlayers
    <3>2. DOMAIN f[g].entries = 1 .. 0
      BY <3>1, InstanceShape
    <3>3. QED BY <3>2
  <2>2. QED BY <2>1 DEF ClientsOf
<1> HIDE DEF empty
<1>9. TypeOK'
  <2>1. conn' \in [Clients -> {"free", "open", "closing"}]
    BY <1>1, <1>3
  <2>2. inst' \in [Clients -> GameIds \cup {None}]
    BY <1>1, <1>3
  <2>3. \A g \in DOMAIN games' : games'[g] \in Instance
    BY <1>5 DEF GoodMatch
  <2>4. remaining' \subseteq DOMAIN games' /\ dead' \subseteq DOMAIN games'
    BY <1>1, <1>3 DEF SessionServer, TypeOK
  <2>5. QED
    BY <1>1, <1>3, <1>5, <2>1, <2>2, <2>3, <2>4 DEF SessionServer, TypeOK
<1>10. GoodMatches(games')
  BY <1>5 DEF GoodMatches
<1>11. PointersAgree(games', conn', inst', refused')
  <2>1. ASSUME NEW g \in DOMAIN games', NEW c \in ClientsOf(games'[g])
        PROVE  conn'[c] # "free" /\ inst'[c] = g
    <3>1. g \in DOMAIN games /\ c \in ClientsOf(games[g]) /\ c \notin kicked
      BY <1>5, <1>6, <1>7, <2>1
    <3>2. c \in Clients
      BY <1>1, <3>1, ClientsAreClients, ServerBetweenTicks
    <3>3. QED BY <1>1, <3>1, <3>2 DEF SessionServer, PointerInv, PointersAgree
  <2>2. ASSUME NEW c \in Clients, inst'[c] # None
        PROVE  (inst'[c] \in DOMAIN games' /\ c \in ClientsOf(games'[inst'[c]])) \/ c \in refused'
    <3>1. c \notin kicked /\ inst'[c] = inst[c]
      BY <1>1, <2>2
    <3>2. CASE c \in refused
      BY <1>1, <3>2
    <3>3. CASE c \notin refused
      <4>1. inst[c] \in DOMAIN games /\ c \in ClientsOf(games[inst[c]])
        BY <2>2, <3>1, <3>3 DEF SessionServer, PointerInv, PointersAgree
      <4>2. c \in ClientsOf(f[inst[c]])
        BY <1>7, <3>1, <4>1
      <4>3. inst[c] \notin empty
        BY <1>8, <4>2
      <4>4. QED BY <1>5, <1>6, <3>1, <4>1, <4>2, <4>3
    <3>4. QED BY <3>2, <3>3
  <2>3. QED BY <1>6, <2>1, <2>2 DEF PointersAgree
<1>12. PointerInv'
  BY <1>1, <1>3, <1>11 DEF SessionServer, PointerInv, DeadAreEmpty, BrokenOnlyByRefusal
<1>13. QED
  BY <1>1, <1>9, <1>10, <1>12 DEF SessionServer

LEMMA HangingTickStep ==
    ASSUME SessionServer, HangingTick
    PROVE  SessionServer'
  BY ServerBetweenTicks DEF HangingTick, InNetwork, connVars, matchVars, SessionServer, TypeOK,
     PointerInv, DeadAreEmpty, BrokenOnlyByRefusal

-----------------------------------------------------------------------------
(* What a step of the server leaves of one client's place in a match.       *)

\* The entry of everyone but d, and the match they are shown, stay as they are.
KeepsOthers(game, next, d) ==
    /\ \A e : e.client # d => (InList(game, e) <=> InList(next, e))
    /\ Follows(game.data, next.data)

LEMMA RemoveKeepsOthers ==
    ASSUME NEW game, GoodMatch(game), NEW d
    PROVE  KeepsOthers(game, RemovePlayer(game, d), d)
<1> DEFINE k == EntryOf(game, d)
           next == RemovePlayer(game, d)
           entry == game.entries[k]
           data == IF entry.loaded THEN PlayerLeft(game.data) ELSE game.data
<1>1. game \in Instance
  BY DEF GoodMatch
<1>2. CASE k = 0
  BY <1>2, FollowsItself DEF RemovePlayer, KeepsOthers
<1>3. CASE k # 0
  <2>1. /\ k \in DOMAIN game.entries /\ entry.client = d
        /\ Len(game.entries) \in Nat /\ DOMAIN game.entries = 1 .. Len(game.entries)
        /\ game.data \in Data /\ game.data.players \in Players
    BY <1>1, <1>3, EntryOfProperties, InstanceShape
  <2>2. /\ DOMAIN next.entries = 1 .. Len(game.entries) - 1
        /\ \A j \in DOMAIN next.entries :
              /\ Origin(k, j) \in DOMAIN game.entries \ {k}
              /\ next.entries[j] = game.entries[Origin(k, j)]
    BY <1>1, <1>3, RemovePlayerOK
  <2>3. next.data = [data EXCEPT !.players = RemoveSlot(@, entry.index)]
    <3>1. next = [game EXCEPT !.data = [data EXCEPT !.players = RemoveSlot(@, entry.index)],
                              !.entries = RemoveAt(@, k)]
      BY <1>3 DEF RemovePlayer
    <3> HIDE DEF next, data
    <3>2. QED BY <1>1, <3>1 DEF Instance
  <2>4. /\ data \in Data /\ data.players = game.data.players /\ data.started = game.data.started
    BY <2>1, PlayerLeftShape
  <2> HIDE DEF next, data, entry, k
  <2>5. /\ next.data.players = RemoveSlot(game.data.players, entry.index)
        /\ next.data.started = game.data.started
    BY <2>3, <2>4 DEF Data
  <2>6. /\ DOMAIN next.data.players \subseteq DOMAIN game.data.players
        /\ \A j \in DOMAIN next.data.players : next.data.players[j] = game.data.players[j]
    BY <2>5 DEF RemoveSlot
  <2>7. Follows(game.data, next.data)
    BY <2>5, <2>6 DEF Follows
  <2>8. ASSUME NEW i \in DOMAIN game.entries, game.entries[i].client # d
        PROVE  \E j \in DOMAIN next.entries : next.entries[j] = game.entries[i]
    <3> DEFINE j == IF i < k THEN i ELSE i - 1
    <3>1. i \in Nat /\ k \in Nat /\ i # k /\ i >= 1 /\ i <= Len(game.entries) /\ k <= Len(game.entries)
      BY <2>1, <2>8 DEF entry
    <3>2. j \in 1 .. Len(game.entries) - 1 /\ Origin(k, j) = i
      BY <2>1, <3>1 DEF Origin
    <3>3. QED BY <2>2, <3>2
  <2>9. QED BY <2>2, <2>7, <2>8 DEF KeepsOthers, InList, next
<1>4. QED
  BY <1>2, <1>3

LEMMA LoadedKeepsOthers ==
    ASSUME NEW game, GoodMatch(game), NEW d, NEW token
    PROVE  KeepsOthers(game, HandlePlayerLoaded(game, d, token), d)
<1> DEFINE k == EntryOf(game, d)
           next == HandlePlayerLoaded(game, d, token)
<1>1. game \in Instance
  BY DEF GoodMatch
<1>2. CASE next = game
  BY <1>2, FollowsItself DEF KeepsOthers
<1>3. CASE next # game
  <2>1. /\ k # 0 /\ ~game.entries[k].loaded
        /\ next = [game EXCEPT !.entries[k].loaded = TRUE,
                               !.data = PlayerReady(@, game.entries[k].index)]
    BY <1>3 DEF HandlePlayerLoaded
  <2>2. k \in DOMAIN game.entries /\ game.entries[k].client = d
    BY <1>1, <2>1, EntryOfProperties
  <2> HIDE DEF next
  <2>3. DOMAIN next.entries = DOMAIN game.entries
        /\ next.entries[k].client = d
        /\ \A i \in DOMAIN game.entries \ {k} : next.entries[i] = game.entries[i]
    <3>1. next.entries = [game.entries EXCEPT ![k].loaded = TRUE]
      BY <1>1, <2>1 DEF Instance
    <3>2. game.entries[k] \in Entry
      BY <1>1, <2>2, InstanceShape
    <3>3. QED BY <2>2, <3>1, <3>2 DEF Entry
  <2>4. ~game.data.started
    BY <2>1, <2>2 DEF GoodMatch, MatchInv, StartedIsLoaded
  <2>5. \A e : e.client # d => (InList(game, e) <=> InList(next, e))
    BY <2>2, <2>3 DEF InList
  <2>6. QED BY <2>4, <2>5 DEF KeepsOthers, Follows, next
<1>4. QED
  BY <1>2, <1>3

LEMMA JoinKeepsOthers ==
    ASSUME NEW game, GoodMatch(game), NEW d \in Clients, NEW token \in Tokens, NEW team \in Teams
    PROVE  KeepsOthers(game, JoinPlayer(game, d, token, team), d)
<1> DEFINE next == JoinPlayer(game, d, token, team)
           entry == [client |-> d, index |-> game.nextId, token |-> token, loaded |-> FALSE]
<1>1. game \in Instance /\ game.entries \in Seq(Entry)
  BY InstanceShape DEF GoodMatch
<1>2. CASE AcceptsPlayer(game)
  <2>1. next.entries = Append(game.entries, entry)
    BY <1>1, <1>2, JoinPlayerOK
  <2>2. entry.client = d
    OBVIOUS
  <2>3. ~game.data.started
    BY <1>2 DEF AcceptsPlayer
  <2> HIDE DEF entry, next
  <2>4. /\ DOMAIN next.entries = 1 .. Len(game.entries) + 1
        /\ DOMAIN game.entries = 1 .. Len(game.entries)
        /\ Len(game.entries) \in Nat
        /\ \A i \in 1 .. Len(game.entries) : next.entries[i] = game.entries[i]
        /\ next.entries[Len(game.entries) + 1] = entry
    BY <1>1, <2>1, InstanceShape
  <2>5. \A e : e.client # d => (InList(game, e) <=> InList(next, e))
    BY <2>2, <2>4 DEF InList
  <2>6. QED BY <2>3, <2>5 DEF KeepsOthers, Follows, next
<1>3. CASE ~AcceptsPlayer(game)
  <2>1. next.entries = game.entries
    BY <1>1, <1>3, JoinPlayerOK
  <2>2. game.data.started => next.data = game.data
    BY <1>1 DEF JoinPlayer, Instance
  <2>3. QED BY <2>1, <2>2 DEF KeepsOthers, Follows, InList
<1>4. QED
  BY <1>2, <1>3

\* Client c is in match g of f, as entry e.
HasIn(f, c, g, e) == g \in DOMAIN f /\ InList(f[g], e) /\ e.client = c

\* Connection c keeps its place, or loses it together with the connection.
Keeps(c) ==
    /\ conn[c] # "free" => conn'[c] # "free"
    /\ conn'[c] = "closing" => inst'[c] = None \/ (conn[c] = "closing" /\ inst'[c] = inst[c])
    /\ conn'[c] = "open" =>
          /\ conn[c] = "open" /\ inst'[c] = inst[c]
          /\ c \in refused => c \in refused'
          /\ \A e : HasIn(games, c, inst[c], e) <=> HasIn(games', c, inst[c], e)
          /\ \A e : HasIn(games, c, inst[c], e) =>
                       Follows(games[inst[c]].data, games'[inst[c]].data)

\* What another client does to one match does nothing to this one.
LEMMA OneMatchKeeps ==
    ASSUME NEW c, NEW d, c # d, NEW g \in DOMAIN games, NEW next,
           KeepsOthers(games[g], next, d), games' = [games EXCEPT ![g] = next],
           conn'[c] = conn[c], inst'[c] = inst[c], c \in refused => c \in refused'
    PROVE  Keeps(c)
<1>1. /\ DOMAIN games' = DOMAIN games /\ games'[g] = next
      /\ \A h \in DOMAIN games \ {g} : games'[h] = games[h]
  OBVIOUS
<1>2. ASSUME NEW e PROVE HasIn(games, c, inst[c], e) <=> HasIn(games', c, inst[c], e)
  BY <1>1 DEF HasIn, KeepsOthers
<1>3. ASSUME NEW h \in DOMAIN games PROVE Follows(games[h].data, games'[h].data)
  BY <1>1, FollowsItself DEF KeepsOthers
<1>4. QED
  BY <1>2, <1>3 DEF Keeps, HasIn

\* Connections other than d: nothing that d sends or does reaches them.
LEMMA NetworkKeeps ==
    ASSUME SessionServer, NEW c \in Clients, NEW d \in Clients, c # d, NetworkOf(d)
    PROVE  Keeps(c)
<1>1. /\ conn \in [Clients -> {"free", "open", "closing"}]
      /\ inst \in [Clients -> GameIds \cup {None}]
      /\ \A g \in DOMAIN games : GoodMatch(games[g])
  BY DEF SessionServer, TypeOK, GoodMatches
<1>2. ASSUME games' = games, conn'[c] = conn[c], inst'[c] = inst[c], c \in refused => c \in refused'
      PROVE  Keeps(c)
  BY <1>2, FollowsItself DEF Keeps
<1>3. CASE Connect(d)
  BY <1>1, <1>2, <1>3 DEF Connect
<1>4. CASE UseStalePointer
  BY <1>2, <1>4 DEF UseStalePointer
<1>5. CASE DisconnectClient(d)
  BY <1>1, <1>2, <1>5 DEF DisconnectClient
<1>6. CASE CleanupClient(d)
  <2>1. CASE HasStaleInstance(d)
    BY <1>4, <1>6, <2>1 DEF CleanupClient
  <2>2. CASE ~HasStaleInstance(d)
    <3>1. RemoveFromGame(d) /\ conn' = [conn EXCEPT ![d] = "free"] /\ refused' = refused \ {d}
      BY <1>6, <2>2 DEF CleanupClient
    <3>2. CASE inst[d] = None
      BY <1>1, <1>2, <3>1, <3>2 DEF RemoveFromGame
    <3>3. CASE inst[d] # None
      <4>1. /\ inst[d] \in DOMAIN games
            /\ games' = [games EXCEPT ![inst[d]] = RemovePlayer(games[inst[d]], d)]
            /\ inst' = [inst EXCEPT ![d] = None]
        BY <3>1, <3>3 DEF RemoveFromGame, Live
      <4>2. KeepsOthers(games[inst[d]], RemovePlayer(games[inst[d]], d), d)
        BY <1>1, <4>1, RemoveKeepsOthers
      <4>3. conn'[c] = conn[c] /\ inst'[c] = inst[c]
        BY <1>1, <3>1, <4>1
      <4>4. QED BY <3>1, <4>1, <4>2, <4>3, OneMatchKeeps
    <3>4. QED BY <3>2, <3>3
  <2>3. QED BY <2>1, <2>2
<1>7. CASE HandleClientInput(d)
  BY <1>4, <1>5, <1>7 DEF HandleClientInput
<1>8. CASE \E token \in Tokens : HandleFinishLoading(d, token)
  <2>1. PICK token \in Tokens : HandleFinishLoading(d, token)
    BY <1>8
  <2>2. CASE inst[d] # None /\ ~HasStaleInstance(d)
    <3>1. /\ inst[d] \in DOMAIN games
          /\ games' = [games EXCEPT ![inst[d]] = HandlePlayerLoaded(games[inst[d]], d, token)]
          /\ conn' = conn /\ inst' = inst /\ refused' = refused
      BY <2>1, <2>2 DEF HandleFinishLoading, HasStaleInstance, Live, connVars
    <3>2. KeepsOthers(games[inst[d]], HandlePlayerLoaded(games[inst[d]], d, token), d)
      BY <1>1, <3>1, LoadedKeepsOthers
    <3>3. QED BY <3>1, <3>2, OneMatchKeeps
  <2>3. QED
    BY <1>4, <1>5, <2>1, <2>2 DEF HandleFinishLoading
<1>9. CASE \E validName : HandleJoinGame(d, AnyGame, validName, TRUE)
  <2>1. ASSUME NEW g, NEW game, GoodMatch(game),
               g \in DOMAIN games => game = games[g],
               g \notin DOMAIN games => game = NewInstance,
               AttachAndPut(d, g, game)
        PROVE  Keeps(c)
    <3>1. /\ inst' = [inst EXCEPT ![d] = g] /\ PutInGame(d, g, game, TRUE) /\ conn' = conn
      BY <2>1 DEF AttachAndPut
    <3>2. conn'[c] = conn[c] /\ inst'[c] = inst[c] /\ (c \in refused => c \in refused')
      BY <1>1, <3>1 DEF PutInGame
    <3>3. PICK token \in Tokens, team \in Teams :
             games' = [h \in DOMAIN games \cup {g} |->
                          IF h = g THEN JoinPlayer(game, d, token, team) ELSE games[h]]
      BY <3>1 DEF PutInGame, GetRandomTeam
    <3>4. KeepsOthers(game, JoinPlayer(game, d, token, team), d)
      BY <2>1, JoinKeepsOthers
    <3> DEFINE next == JoinPlayer(game, d, token, team)
    <3> HIDE DEF next
    <3>5. DOMAIN games' = DOMAIN games \cup {g} /\ games'[g] = next
          /\ \A h \in DOMAIN games \ {g} : games'[h] = games[h]
      BY <3>3 DEF next
    <3>6. KeepsOthers(game, next, d)
      BY <3>4 DEF next
    <3>7. g \notin DOMAIN games => \A e : ~InList(game, e)
      BY <2>1 DEF InList, NewInstance
    <3>8. ASSUME NEW e PROVE HasIn(games, c, inst[c], e) <=> HasIn(games', c, inst[c], e)
      BY <2>1, <3>5, <3>6, <3>7 DEF HasIn, KeepsOthers
    <3>9. ASSUME NEW h \in DOMAIN games PROVE Follows(games[h].data, games'[h].data)
      BY <2>1, <3>5, <3>6, FollowsItself DEF KeepsOthers
    <3>10. QED
      BY <3>2, <3>8, <3>9 DEF Keeps, HasIn
  <2>2. PICK validName : HandleJoinGame(d, AnyGame, validName, TRUE)
    BY <1>9
  <2>3. CASE DisconnectClient(d)
    BY <1>5, <2>3
  <2>4. CASE JoinAnyGame(d, TRUE)
    <3>1. CASE \E g \in DOMAIN games : CanJoinGame(g) /\ AttachAndPut(d, g, games[g])
      BY <1>1, <2>1, <3>1
    <3>2. CASE \E g \in GameIds \ DOMAIN games : AttachAndPut(d, g, NewInstance)
      BY <2>1, <3>2, NewInstanceOK DEF GoodMatch
    <3>3. QED BY <2>4, <3>1, <3>2 DEF JoinAnyGame
  <2>5. QED
    BY <2>2, <2>3, <2>4 DEF HandleJoinGame
<1>10. QED
  BY <1>3, <1>6, <1>7, <1>8, <1>9 DEF NetworkOf

\* A tick kicks a client, or leaves it its place and moves its match on.
LEMMA TickKeeps ==
    ASSUME SessionServer, NEW f \in TickChoices, WholeTickWith(f), NEW c \in Clients
    PROVE  /\ Keeps(c)
           /\ refused' = refused
           /\ \A e : HasIn(games, c, inst[c], e) /\ e.loaded =>
                 /\ GoodMatch(f[inst[c]])
                 /\ InList(f[inst[c]], e)
                 /\ Follows(games[inst[c]].data, f[inst[c]].data)
                 /\ conn'[c] = "open" => Follows(f[inst[c]].data, games'[inst[c]].data)
<1> DEFINE kicked == UNION {{e.client : e \in Kicked(games[g])} : g \in DOMAIN games}
           empty == {g \in DOMAIN games : GetNumPlayers(f[g]) = 0}
<1>1. /\ games' = [g \in DOMAIN games \ empty |-> FinishUpdate(f[g])]
      /\ conn' = [b \in Clients |-> IF b \in kicked THEN "closing" ELSE conn[b]]
      /\ inst' = [b \in Clients |-> IF b \in kicked THEN None ELSE inst[b]]
      /\ refused' = refused
  BY DEF WholeTickWith
<1>2. \A g \in DOMAIN games : \A e \in Kicked(games[g]) : e.client \in kicked
  OBVIOUS
<1>3. \A g \in DOMAIN games : g \in empty <=> GetNumPlayers(f[g]) = 0
  OBVIOUS
<1> HIDE DEF kicked, empty
<1>4. \A g \in DOMAIN games :
        /\ GoodMatch(f[g])
        /\ \A e : InList(f[g], e) <=> InList(games[g], e) /\ e \notin Kicked(games[g])
        /\ Follows(games[g].data, f[g].data)
  BY TickChoiceOK
<1>5. \A g \in DOMAIN games :
        /\ FinishUpdate(f[g]).entries = f[g].entries
        /\ Follows(f[g].data, FinishUpdate(f[g]).data)
  BY <1>4, FinishUpdateFollows
<1>6. ASSUME NEW g \in DOMAIN games, NEW e, InList(f[g], e)
      PROVE  g \notin empty
  <2>1. f[g] \in Instance /\ DOMAIN f[g].entries # {}
    BY <1>4, <1>6 DEF GoodMatch, InList
  <2>2. Len(f[g].entries) \in Nat /\ DOMAIN f[g].entries = 1 .. Len(f[g].entries)
    BY <2>1, InstanceShape
  <2>3. Len(f[g].entries) # 0
    BY <2>1, <2>2
  <2>4. QED BY <1>3, <2>3 DEF GetNumPlayers
<1>7. \A g \in DOMAIN games \ empty : g \in DOMAIN games' /\ games'[g] = FinishUpdate(f[g])
  BY <1>1
<1>8. DOMAIN games' \subseteq DOMAIN games \ empty
  BY <1>1
<1>9. \A g, e : e.client \notin kicked =>
        (g \in DOMAIN games /\ InList(games[g], e) <=> g \in DOMAIN games' /\ InList(games'[g], e))
  <2>1. \A g \in DOMAIN games' : \A e : InList(games'[g], e) <=> InList(f[g], e)
    BY <1>5, <1>7, <1>8 DEF InList
  <2>2. QED BY <1>2, <1>4, <1>6, <1>7, <1>8, <2>1
<1>10. Keeps(c)
  <2>1. CASE c \in kicked
    BY <1>1, <2>1 DEF Keeps
  <2>2. CASE c \notin kicked
    <3>1. conn'[c] = conn[c] /\ inst'[c] = inst[c]
      BY <1>1, <2>2
    <3>2. \A e : HasIn(games, c, inst[c], e) <=> HasIn(games', c, inst[c], e)
      BY <1>9, <2>2 DEF HasIn
    <3>3. \A e : HasIn(games, c, inst[c], e) => Follows(games[inst[c]].data, games'[inst[c]].data)
      BY <1>4, <1>5, <1>7, <1>8, <3>2, FollowsInTurn DEF HasIn
    <3>4. QED BY <1>1, <3>1, <3>2, <3>3 DEF Keeps
  <2>3. QED BY <2>1, <2>2
<1>11. ASSUME NEW e, HasIn(games, c, inst[c], e), e.loaded
       PROVE  /\ GoodMatch(f[inst[c]])
              /\ InList(f[inst[c]], e)
              /\ Follows(games[inst[c]].data, f[inst[c]].data)
              /\ conn'[c] = "open" => Follows(f[inst[c]].data, games'[inst[c]].data)
  <2>1. inst[c] \in DOMAIN games /\ InList(games[inst[c]], e)
    BY <1>11 DEF HasIn
  <2>2. e \notin Kicked(games[inst[c]])
    BY <1>11 DEF Kicked
  <2>3. InList(f[inst[c]], e)
    BY <1>4, <2>1, <2>2
  <2>4. QED BY <1>4, <1>5, <1>6, <1>7, <2>1, <2>3
<1>12. QED
  BY <1>1, <1>10, <1>11

-----------------------------------------------------------------------------
(* The client's own messages on the server.                                 *)

\* EntryOf finds the only entry a client has.
LEMMA EntryOfIs ==
    ASSUME NEW game \in Instance, NoClientTwice(game), NEW e, InList(game, e)
    PROVE  /\ EntryOf(game, e.client) # 0
           /\ game.entries[EntryOf(game, e.client)] = e
           /\ e \in Entry
<1>1. PICK i \in DOMAIN game.entries : game.entries[i] = e
  BY DEF InList
<1>2. EntryOf(game, e.client) # 0
  BY <1>1, EntryOfProperties
<1>3. /\ EntryOf(game, e.client) \in DOMAIN game.entries
      /\ game.entries[EntryOf(game, e.client)].client = e.client
  BY <1>2, EntryOfProperties
<1>4. EntryOf(game, e.client) = i
  BY <1>1, <1>3 DEF NoClientTwice
<1>5. QED
  BY <1>1, <1>2, <1>4, InstanceShape

LEMMA MyEntryIs ==
    ASSUME SessionServer, NEW c, NEW g, NEW e, HasIn(games, c, g, e)
    PROVE  /\ Listed(c, g) /\ Live(g)
           /\ games[g].entries[EntryOf(games[g], c)] = e
           /\ e \in Entry
           /\ \A x : HasIn(games, c, g, x) => x = e
<1>1. g \in DOMAIN games /\ InList(games[g], e) /\ e.client = c
  BY DEF HasIn
<1>2. games[g] \in Instance /\ NoClientTwice(games[g])
  BY <1>1 DEF SessionServer, GoodMatches, GoodMatch, PointerInv, PointersAgree
<1>3. QED
  BY <1>1, <1>2, EntryOfIs, OneEntryEach DEF Listed, Live, HasIn

LEMMA ListedHasEntry ==
    ASSUME SessionServer, NEW c, NEW g, Listed(c, g)
    PROVE  HasIn(games, c, g, games[g].entries[EntryOf(games[g], c)])
<1>1. g \in DOMAIN games /\ EntryOf(games[g], c) # 0
  BY DEF Listed, Live
<1>2. games[g] \in Instance
  BY <1>1 DEF SessionServer, GoodMatches, GoodMatch
<1>3. QED
  BY <1>1, <1>2, EntryOfProperties DEF HasIn, InList

\* A join ends the connection, gives an entry, or ends without a word.
LEMMA JoinOutcome ==
    ASSUME SessionServer, NEW c \in Clients, inst[c] = None, NEW validName,
           HandleJoinGame(c, AnyGame, validName, TRUE)
    PROVE  \/ conn'[c] = "closing" /\ inst'[c] = None
           \/ /\ conn'[c] = "open" /\ inst'[c] # None
              /\ \E e : HasIn(games', c, inst'[c], e) /\ ~e.loaded
           \/ /\ conn'[c] = "open" /\ inst'[c] # None /\ c \in refused'
              /\ \A e : ~HasIn(games', c, inst'[c], e)
              /\ EntryOf(games'[inst'[c]], c) = 0
<1>1. /\ conn \in [Clients -> {"free", "open", "closing"}]
      /\ inst \in [Clients -> GameIds \cup {None}]
      /\ DOMAIN games \subseteq GameIds
      /\ \A g \in DOMAIN games : GoodMatch(games[g])
      /\ \A g \in DOMAIN games : c \notin ClientsOf(games[g])
      /\ conn[c] = "open"
  BY IdsAssumption DEF SessionServer, TypeOK, GoodMatches, PointerInv, PointersAgree,
     HandleJoinGame, Receives
<1>2. ASSUME NEW g \in GameIds, NEW game, GoodMatch(game), c \notin ClientsOf(game),
             AttachAndPut(c, g, game)
      PROVE  /\ conn'[c] = "open" /\ inst'[c] = g
             /\ \/ \E e : HasIn(games', c, g, e) /\ ~e.loaded
                \/ /\ c \in refused'
                   /\ \A e : ~HasIn(games', c, g, e)
                   /\ EntryOf(games'[g], c) = 0
  <2>1. /\ inst' = [inst EXCEPT ![c] = g] /\ PutInGame(c, g, game, TRUE) /\ conn' = conn
    BY <1>2 DEF AttachAndPut
  <2>2. conn'[c] = "open" /\ inst'[c] = g
    BY <1>1, <2>1
  <2>3. PICK token \in Tokens, team \in Teams :
           games' = [h \in DOMAIN games \cup {g} |->
                        IF h = g THEN JoinPlayer(game, c, token, team) ELSE games[h]]
    BY <2>1 DEF PutInGame, GetRandomTeam
  <2> DEFINE next == JoinPlayer(game, c, token, team)
             entry == [client |-> c, index |-> game.nextId, token |-> token, loaded |-> FALSE]
  <2>4. game \in Instance /\ game.entries \in Seq(Entry) /\ next \in Instance
    BY <1>2, JoinPlayerOK, InstanceShape DEF GoodMatch
  <2>5. g \in DOMAIN games' /\ games'[g] = next
    BY <2>3
  <2>6. CASE AcceptsPlayer(game)
    <3>1. next.entries = Append(game.entries, entry)
      BY <2>4, <2>6, JoinPlayerOK
    <3>2. entry.client = c /\ ~entry.loaded
      OBVIOUS
    <3> HIDE DEF next, entry
    <3>3. next.entries[Len(game.entries) + 1] = entry
          /\ Len(game.entries) + 1 \in DOMAIN next.entries
      BY <2>4, <3>1, InstanceShape
    <3>4. HasIn(games', c, g, entry)
      BY <2>5, <3>2, <3>3 DEF HasIn, InList
    <3>5. QED BY <2>2, <3>2, <3>4
  <2>7. CASE ~AcceptsPlayer(game)
    <3>1. next.entries = game.entries
      BY <2>4, <2>7, JoinPlayerOK
    <3> HIDE DEF next
    <3>2. c \notin ClientsOf(next)
      BY <1>2, <3>1, SameEntries
    <3>3. EntryOf(next, c) = 0 /\ \A e : InList(next, e) => e.client # c
      BY <2>4, <3>2, EntryOfListed, ClientsAreListed
    <3>4. c \in refused'
      BY <2>1, <2>7 DEF PutInGame
    <3>5. QED BY <2>2, <2>5, <3>3, <3>4 DEF HasIn
  <2>8. QED BY <2>6, <2>7
<1>3. CASE DisconnectClient(c)
  BY <1>1, <1>3 DEF DisconnectClient
<1>4. CASE JoinAnyGame(c, TRUE)
  <2>0. PICK g \in GameIds :
           \E next : /\ AttachAndPut(c, g, next)
                     /\ (g \in DOMAIN games /\ next = games[g]) \/ next = NewInstance
    BY <1>1, <1>4 DEF JoinAnyGame
  <2>1. PICK game : /\ AttachAndPut(c, g, game)
                    /\ (g \in DOMAIN games /\ game = games[g]) \/ game = NewInstance
    BY <2>0
  <2>2. GoodMatch(game) /\ c \notin ClientsOf(game)
    <3>1. GoodMatch(NewInstance) /\ c \notin ClientsOf(NewInstance)
      BY NewInstanceOK DEF GoodMatch, NewInstance, ClientsOf
    <3>2. QED BY <1>1, <2>1, <3>1
  <2>3. g # None
    BY IdsAssumption
  <2>4. QED BY <1>2, <2>1, <2>2, <2>3
<1>5. QED
  BY <1>3, <1>4 DEF HandleJoinGame

\* The end of loading marks the entry, and nothing else about it.
LEMMA LoadOutcome ==
    ASSUME SessionServer, NEW c \in Clients, NEW e, HasIn(games, c, inst[c], e), ~e.loaded,
           HandleFinishLoading(c, e.token)
    PROVE  /\ conn' = conn /\ inst' = inst /\ refused' = refused
           /\ HasIn(games', c, inst[c], [e EXCEPT !.loaded = TRUE])
<1> DEFINE g == inst[c]
           k == EntryOf(games[g], c)
           next == HandlePlayerLoaded(games[g], c, e.token)
<1>1. g \in DOMAIN games /\ k # 0 /\ games[g].entries[k] = e /\ e.client = c /\ e \in Entry
  BY MyEntryIs DEF HasIn, Listed
<1>2. games[g] \in Instance
  BY <1>1 DEF SessionServer, GoodMatches, GoodMatch
<1>3. g # None
  BY <1>1, IdsAssumption DEF SessionServer, TypeOK
<1>4. /\ games' = [games EXCEPT ![g] = next]
      /\ conn' = conn /\ inst' = inst /\ refused' = refused
  BY <1>1, <1>3 DEF HandleFinishLoading, HasStaleInstance, Live, connVars
<1>5. next = [games[g] EXCEPT !.entries[k].loaded = TRUE,
                              !.data = PlayerReady(@, games[g].entries[k].index)]
  BY <1>1 DEF HandlePlayerLoaded
<1>6. k \in DOMAIN games[g].entries
  BY <1>1, <1>2, EntryOfProperties
<1> HIDE DEF next, k
<1>7. next.entries = [games[g].entries EXCEPT ![k].loaded = TRUE]
  BY <1>2, <1>5 DEF Instance
<1>8. k \in DOMAIN next.entries /\ next.entries[k] = [e EXCEPT !.loaded = TRUE]
  BY <1>1, <1>6, <1>7
<1>9. [e EXCEPT !.loaded = TRUE].client = c
  BY <1>1 DEF Entry
<1>10. QED
  BY <1>1, <1>4, <1>8, <1>9 DEF HasIn, InList

-----------------------------------------------------------------------------
(* The pipes.                                                               *)

LEMMA ShortPipes ==
    ASSUME NEW a, NEW b
    PROVE  /\ <<a>> # <<>> /\ <<a, b>> # <<>>
           /\ Head(<<a>>) = a /\ Tail(<<a>>) = <<>>
           /\ Head(<<a, b>>) = a /\ Tail(<<a, b>>) = <<b>>
           /\ Append(<<>>, a) = <<a>> /\ Append(<<a>>, b) = <<a, b>>
           /\ Occurs(a, <<a>>) /\ Occurs(a, <<a, b>>) /\ Occurs(b, <<a, b>>)
<1>1. <<a>> # <<>> /\ <<a, b>> # <<>>
  OBVIOUS
<1>2. Head(<<a>>) = a /\ Head(<<a, b>>) = a
  OBVIOUS
<1>3. Tail(<<a>>) = <<>>
  OBVIOUS
<1>4. Tail(<<a, b>>) = <<b>>
  OBVIOUS
<1>5. Append(<<>>, a) = <<a>>
  OBVIOUS
<1>6. Append(<<a>>, b) = <<a, b>>
  <2> DEFINE s == Append(<<a>>, b)
             p == <<a, b>>
  <2>1. s \in Seq({a, b}) /\ Len(s) = 2 /\ s[1] = a /\ s[2] = b
    OBVIOUS
  <2>2. p \in Seq({a, b}) /\ Len(p) = 2 /\ p[1] = a /\ p[2] = b
    OBVIOUS
  <2> HIDE DEF s, p
  <2>3. \A i \in 1 .. 2 : i = 1 \/ i = 2
    OBVIOUS
  <2>4. s = p
    BY <2>1, <2>2, <2>3, SeqEqual
  <2>5. QED BY <2>4 DEF s, p
<1>7. 1 \in DOMAIN <<a>> /\ <<a>>[1] = a
  OBVIOUS
<1>8. 1 \in DOMAIN <<a, b>> /\ 2 \in DOMAIN <<a, b>> /\ <<a, b>>[1] = a /\ <<a, b>>[2] = b
  OBVIOUS
<1>9. QED
  BY <1>1, <1>2, <1>3, <1>4, <1>5, <1>6, <1>7, <1>8 DEF Occurs

LEMMA MessagesDiffer ==
    /\ Ping # JoinGame
    /\ \A t : /\ FinishLoadingMessage(t) # Ping /\ FinishLoadingMessage(t) # JoinGame
              /\ LoadLevel(t) # Pong /\ LoadLevel(t).token = t
    /\ \A t, u : FinishLoadingMessage(t) = FinishLoadingMessage(u) => t = u
<1>1. /\ Ping.type = "Ping" /\ JoinGame.type = "JoinGame" /\ Pong.type = "Pong"
      /\ \A t : /\ FinishLoadingMessage(t).type = "FinishLoading"
                /\ FinishLoadingMessage(t).token = t
                /\ LoadLevel(t).type = "LoadLevel"
                /\ LoadLevel(t).token = t
  BY DEF Ping, JoinGame, Pong, FinishLoadingMessage, LoadLevel
<1>2. QED
  BY <1>1

\* What is under way after some of it was lost: the rest, in the same order.
Rest(new, old) ==
    \E h \in [DOMAIN new -> DOMAIN old] :
        /\ \A a \in DOMAIN new : new[a] = old[h[a]]
        /\ \A a, b \in DOMAIN new : a < b => h[a] < h[b]

LEMMA LoseOne ==
    ASSUME NEW S, NEW s \in Seq(S), NEW k \in DOMAIN s
    PROVE  RemoveAt(s, k) \in Seq(S) /\ Rest(RemoveAt(s, k), s)
<1> DEFINE r == RemoveAt(s, k)
           h == [a \in 1 .. Len(s) - 1 |-> IF a < k THEN a ELSE a + 1]
<1>1. Len(s) \in Nat /\ DOMAIN s = 1 .. Len(s) /\ k \in 1 .. Len(s)
  BY LenProperties
<1>2. /\ r \in Seq(S) /\ Len(r) = Len(s) - 1
      /\ \A j \in 1 .. k - 1 : r[j] = s[j]
      /\ \A j \in k .. Len(s) - 1 : r[j] = s[j + 1]
  BY <1>1, RemoveAtProperties
<1>3. DOMAIN r = 1 .. Len(s) - 1
  BY <1>2, LenProperties
<1>4. h \in [DOMAIN r -> DOMAIN s]
  BY <1>1, <1>3
<1>5. \A a \in DOMAIN r : r[a] = s[h[a]]
  BY <1>1, <1>2, <1>3
<1>6. \A a, b \in DOMAIN r : a < b => h[a] < h[b]
  BY <1>1, <1>3
<1> HIDE DEF h, r
<1>7. Rest(r, s)
  BY <1>4, <1>5, <1>6 DEF Rest
<1>8. QED
  BY <1>2, <1>7 DEF r

LEMMA LoseFirst ==
    ASSUME NEW S, NEW s \in Seq(S), NEW k \in DOMAIN s
    PROVE  LET r == SubSeq(s, k + 1, Len(s)) IN
           /\ r \in Seq(S) /\ Rest(r, s)
           /\ \A a \in DOMAIN r : \E b \in DOMAIN s : r[a] = s[b] /\ k < b
<1> DEFINE r == SubSeq(s, k + 1, Len(s))
           h == [a \in 1 .. Len(s) - k |-> a + k]
<1>1. Len(s) \in Nat /\ DOMAIN s = 1 .. Len(s) /\ k \in 1 .. Len(s)
  BY LenProperties
<1>2. r \in Seq(S) /\ DOMAIN r = 1 .. Len(s) - k /\ \A a \in DOMAIN r : r[a] = s[a + k]
  <2>1. r \in Seq(S)
    BY <1>1
  <2>2. Len(r) = Len(s) - k
    BY <1>1
  <2>3. \A a \in 1 .. Len(s) - k : r[a] = s[a + k]
    BY <1>1
  <2>4. DOMAIN r = 1 .. Len(r)
    BY <2>1, LenProperties
  <2> HIDE DEF r
  <2>5. QED BY <2>1, <2>2, <2>3, <2>4
<1> HIDE DEF r
<1>3. h \in [DOMAIN r -> DOMAIN s]
  BY <1>1, <1>2
<1>4. /\ \A a \in DOMAIN r : r[a] = s[h[a]] /\ k < h[a]
      /\ \A a, b \in DOMAIN r : a < b => h[a] < h[b]
  BY <1>1, <1>2
<1> HIDE DEF h
<1>5. QED
  BY <1>2, <1>3, <1>4 DEF Rest, r

-----------------------------------------------------------------------------
(* What the client keeps from snapshots and client data.                    *)

InOrder(s) == \A k, l \in DOMAIN s : k < l => Follows(s[k], s[l])

\* Snapshots that arrive after others were lost are still in order.
LEMMA RestInOrder ==
    ASSUME NEW new, NEW old, Rest(new, old), InOrder(old)
    PROVE  InOrder(new) /\ \A a \in DOMAIN new : \E k \in DOMAIN old : new[a] = old[k]
<1>1. PICK h \in [DOMAIN new -> DOMAIN old] :
        /\ \A a \in DOMAIN new : new[a] = old[h[a]]
        /\ \A a, b \in DOMAIN new : a < b => h[a] < h[b]
  BY DEF Rest
<1>2. \A a \in DOMAIN new : h[a] \in DOMAIN old
  OBVIOUS
<1>3. QED
  BY <1>1, <1>2 DEF InOrder

LEMMA SnapshotIsSent ==
    ASSUME snaps \in Seq(Data), InOrder(snaps), NEW data \in Data,
           \A k \in DOMAIN snaps : Follows(snaps[k], data), NEW new \in WithSnapshot(data)
    PROVE  /\ new \in Seq(Data)
           /\ InOrder(new)
           /\ \A a \in DOMAIN new : new[a] = data \/ \E k \in DOMAIN snaps : new[a] = snaps[k]
<1> DEFINE sent == Append(snaps, data)
<1>1. new = sent \/ \E k \in DOMAIN sent : new = RemoveAt(sent, k)
  BY DEF WithSnapshot
<1>2. /\ sent \in Seq(Data) /\ Len(snaps) \in Nat /\ DOMAIN snaps = 1 .. Len(snaps)
      /\ DOMAIN sent = 1 .. Len(snaps) + 1
      /\ \A k \in DOMAIN snaps : sent[k] = snaps[k]
      /\ sent[Len(snaps) + 1] = data
  OBVIOUS
<1> HIDE DEF sent
<1>3. \A k \in DOMAIN sent : k \in DOMAIN snaps \/ k = Len(snaps) + 1
  BY <1>2
<1>4. \A a \in DOMAIN sent : sent[a] = data \/ \E k \in DOMAIN snaps : sent[a] = snaps[k]
  BY <1>2, <1>3
<1>5. InOrder(sent)
  <2>1. ASSUME NEW k \in DOMAIN sent, NEW l \in DOMAIN sent, k < l
        PROVE  Follows(sent[k], sent[l])
    <3>1. k \in DOMAIN snaps
      BY <1>2, <1>3, <2>1
    <3>2. CASE l \in DOMAIN snaps
      BY <1>2, <2>1, <3>1, <3>2 DEF InOrder
    <3>3. CASE l = Len(snaps) + 1
      BY <1>2, <3>1, <3>3
    <3>4. QED BY <1>3, <3>2, <3>3
  <2>2. QED BY <2>1 DEF InOrder
<1>6. CASE new = sent
  BY <1>2, <1>4, <1>5, <1>6
<1>7. CASE \E k \in DOMAIN sent : new = RemoveAt(sent, k)
  <2>1. new \in Seq(Data) /\ Rest(new, sent)
    BY <1>2, <1>7, LoseOne
  <2>2. InOrder(new) /\ \A a \in DOMAIN new : \E k \in DOMAIN sent : new[a] = sent[k]
    BY <1>5, <2>1, RestInOrder
  <2>3. QED BY <1>4, <2>1, <2>2
<1>8. QED
  BY <1>1, <1>6, <1>7

\* Prediction moves the clocks of a match and nothing else.
LEMMA PredictionShape ==
    ASSUME NEW d \in Data
    PROVE  /\ UpdateController(d) \in Data
           /\ UpdateController(d).players = d.players
           /\ UpdateController(d).started = d.started
<1>1. CASE UpdateController(d) = d
  BY <1>1
<1>2. CASE d.countdown > 0 /\ UpdateController(d) = [d EXCEPT !.countdown = @ - 1]
  BY <1>2, ClocksAssumption DEF Data
<1>3. CASE d.roundTimer > 0 /\ UpdateController(d) = [d EXCEPT !.roundTimer = @ - 1]
  BY <1>3, ClocksAssumption DEF Data
<1>4. CASE UpdateController(d) = [d EXCEPT !.winningTeam = MaxTeams]
  BY <1>4, TeamsAssumption DEF Data, Undecided
<1>5. QED
  BY <1>1, <1>2, <1>3, <1>4 DEF UpdateController, EndGame

LEMMA NewClientOK == NewClient \in Client(Tokens) /\ InitialData \in Data
<1>1. InitialData \in Data
  BY NewInstanceOK DEF NewInstance, Instance
<1>2. QED
  BY <1>1 DEF NewClient, Client, ConnectionStates, NoIndex

\* r is client c with the handshake completed if it waited for nothing else.
Finalized(c, r) ==
    /\ r \in Client(Tokens)
    /\ r.loaded = c.loaded /\ r.levelLoaded = c.levelLoaded
    /\ r.gotSim = c.gotSim /\ r.gotData = c.gotData
    /\ r.token = c.token /\ r.playerIndex = c.playerIndex /\ r.sim = c.sim
    /\ \/ r.state = c.state
       \/ c.state = "kWaitingForInitialSync" /\ r.state = "kConnected" /\ c.gotSim /\ c.gotData

LEMMA FinalizeShape ==
    ASSUME NEW c \in Client(Tokens)
    PROVE  Finalized(c, CheckFinalizeConnect(c))
<1>1. CASE CheckFinalizeConnect(c) = c
  BY <1>1 DEF Finalized
<1>2. CASE /\ CheckFinalizeConnect(c) = [c EXCEPT !.state = "kConnected"]
           /\ c.gotData /\ c.gotSim /\ c.state = "kWaitingForInitialSync"
  <2> DEFINE r == [c EXCEPT !.state = "kConnected"]
  <2>1. /\ r \in Client(Tokens)
        /\ r.loaded = c.loaded /\ r.levelLoaded = c.levelLoaded
        /\ r.gotSim = c.gotSim /\ r.gotData = c.gotData
        /\ r.token = c.token /\ r.playerIndex = c.playerIndex /\ r.sim = c.sim
        /\ r.state = "kConnected"
    BY DEF Client, ConnectionStates
  <2> HIDE DEF r
  <2>2. Finalized(c, r)
    BY <1>2, <2>1 DEF Finalized
  <2>3. QED BY <1>2, <2>2 DEF r
<1>3. QED
  BY <1>1, <1>2 DEF CheckFinalizeConnect

LEMMA PongShape ==
    ASSUME NEW c \in Client(Tokens)
    PROVE  Finalized(c, HandlePong(c))
<1>1. CASE HandlePong(c) = c
  BY <1>1 DEF Finalized
<1>2. CASE HandlePong(c) = CheckFinalizeConnect([c EXCEPT !.gotPing = TRUE])
  <2> DEFINE r == [c EXCEPT !.gotPing = TRUE]
  <2>1. /\ r \in Client(Tokens)
        /\ r.loaded = c.loaded /\ r.levelLoaded = c.levelLoaded
        /\ r.gotSim = c.gotSim /\ r.gotData = c.gotData
        /\ r.token = c.token /\ r.playerIndex = c.playerIndex /\ r.sim = c.sim
        /\ r.state = c.state
    BY DEF Client
  <2> HIDE DEF r
  <2>2. Finalized(r, CheckFinalizeConnect(r))
    BY <2>1, FinalizeShape
  <2>3. Finalized(c, CheckFinalizeConnect(r))
    BY <2>1, <2>2 DEF Finalized
  <2>4. QED BY <1>2, <2>3 DEF r
<1>3. QED
  BY <1>1, <1>2 DEF HandlePong

LEMMA DataShape ==
    ASSUME NEW c \in Client(Tokens), c.loaded, NEW i \in Slots
    PROVE  \E u : /\ u.playerIndex = i /\ u.gotData
                  /\ u.loaded = c.loaded /\ u.levelLoaded = c.levelLoaded
                  /\ u.gotSim = c.gotSim /\ u.token = c.token /\ u.sim = c.sim
                  /\ u.state = c.state
                  /\ Finalized(u, HandleClientDataUpdate(c, i))
<1> DEFINE u == [c EXCEPT !.playerIndex = i, !.gotData = TRUE]
<1>1. /\ u \in Client(Tokens)
      /\ u.playerIndex = i /\ u.gotData
      /\ u.loaded = c.loaded /\ u.levelLoaded = c.levelLoaded
      /\ u.gotSim = c.gotSim /\ u.token = c.token /\ u.sim = c.sim
      /\ u.state = c.state
  BY DEF Client
<1>2. HandleClientDataUpdate(c, i) = u \/ HandleClientDataUpdate(c, i) = CheckFinalizeConnect(u)
  BY DEF HandleClientDataUpdate
<1> HIDE DEF u
<1>3. Finalized(u, u) /\ Finalized(u, CheckFinalizeConnect(u))
  BY <1>1, FinalizeShape DEF Finalized
<1>4. QED
  BY <1>1, <1>2, <1>3

LEMMA SnapshotShape ==
    ASSUME NEW c \in Client(Tokens), c.loaded, NEW d \in Data
    PROVE  \E u : /\ u.sim = d /\ u.gotSim
                  /\ u.loaded = c.loaded /\ u.levelLoaded = c.levelLoaded
                  /\ u.gotData = c.gotData /\ u.token = c.token /\ u.playerIndex = c.playerIndex
                  /\ u.state = c.state
                  /\ Finalized(u, HandleSimUpdate(c, d))
<1> DEFINE u == [c EXCEPT !.sim = d, !.gotSim = TRUE]
<1>1. /\ u \in Client(Tokens)
      /\ u.sim = d /\ u.gotSim
      /\ u.loaded = c.loaded /\ u.levelLoaded = c.levelLoaded
      /\ u.gotData = c.gotData /\ u.token = c.token /\ u.playerIndex = c.playerIndex
      /\ u.state = c.state
  BY DEF Client
<1>2. HandleSimUpdate(c, d) = u \/ HandleSimUpdate(c, d) = CheckFinalizeConnect(u)
  BY DEF HandleSimUpdate
<1> HIDE DEF u
<1>3. Finalized(u, u) /\ Finalized(u, CheckFinalizeConnect(u))
  BY <1>1, FinalizeShape DEF Finalized
<1>4. QED
  BY <1>1, <1>2, <1>3

-----------------------------------------------------------------------------
(* The invariant of a session.                                              *)

Mine(e) == HasIn(games, slot, inst[slot], e)

Late == {"kWaitingForInitialSync", "kConnected"}
Early == {"kConnecting", "kJoining", "kLoading"}

\* The server has yet to read the client's question.
Asking == client.state = "kConnecting" \/ (client.state = "kJoining" /\ toServer # <<>>)

Told(t) == toClient = <<LoadLevel(t)>> \/ toClient = <<Pong, LoadLevel(t)>>

SessionTypes ==
    /\ client \in Client(Tokens)
    /\ slot \in Clients \cup {None}
    /\ locals \in Seq(Slots)
    /\ snaps \in Seq(Data)

Modes ==
    /\ mode = "gameplay" => client.state \in {"kConnected", "kDisconnected"}
    /\ mode = "endgame" => client.state = "kDisconnected"
    /\ mode = "gameplay" /\ client.state = "kConnected" => client.sim.started

\* What can be under way in each state of the handshake.
Pipes ==
    /\ client.state = "kConnecting" => toServer = <<>> /\ toClient = <<>>
    /\ client.state = "kJoining" =>
          \/ toServer = <<Ping, JoinGame>> /\ toClient = <<>>
          \/ toServer = <<JoinGame>> /\ (toClient = <<>> \/ toClient = <<Pong>>)
          \/ toServer = <<>> /\ (toClient = <<>> \/ toClient = <<Pong>> \/ \E t \in Tokens : Told(t))
    /\ client.state = "kLoading" => toServer = <<>> /\ toClient = <<>> /\ client.token \in Tokens
    /\ client.state \in Late =>
          /\ toServer = <<>> \/ toServer = <<FinishLoadingMessage(client.token)>>
          /\ toClient = <<>>
          /\ client.token \in Tokens
    /\ client.state = "kDisconnected" =>
          /\ slot = None
          /\ toServer = <<>> /\ toClient = <<>> /\ snaps = <<>> /\ locals = <<>>

\* Nothing of a match reaches a client before the server has read that it loaded.
Received ==
    /\ client.state \in Early => ~client.loaded
    /\ client.state \in Early \/ toServer # <<>> =>
          ~client.gotSim /\ ~client.gotData /\ snaps = <<>> /\ locals = <<>>
    /\ client.state \in Late => client.loaded
    /\ client.state = "kConnected" => client.gotSim /\ client.gotData
    /\ client.loaded => client.levelLoaded
    /\ client.gotSim \/ client.gotData => client.loaded

\* How far client and server have come with entry e.
Promised(e) ==
    \/ client.state = "kJoining" /\ Told(e.token) /\ ~e.loaded
    \/ client.state = "kLoading" /\ client.token = e.token /\ ~e.loaded
    \/ client.state \in Late /\ toServer # <<>> /\ client.token = e.token /\ ~e.loaded
    \/ client.state \in Late /\ toServer = <<>> /\ e.loaded /\ (client.gotData \/ locals # <<>>)

TurnedAway ==
    /\ client.state = "kJoining"
    /\ slot \in refused
    /\ toClient = <<>> \/ toClient = <<Pong>>

OnServer ==
    /\ slot # None => conn[slot] # "free" /\ (conn[slot] = "closing" => inst[slot] = None)
    /\ Open =>
          /\ Asking => inst[slot] = None
          /\ \A e : Mine(e) => Promised(e)
          /\ Asking \/ TurnedAway \/ \E e : Mine(e)

HasSeat(d, i) == i \in DOMAIN d.players /\ ~d.players[i].ai /\ d.players[i].ready

\* Everything the client was sent says that it sits in slot i, ready.
SeatedAt(i) ==
    /\ Open => \A e : Mine(e) /\ e.loaded => e.index = i
    /\ client.gotData => client.playerIndex = i
    /\ client.gotSim => HasSeat(client.sim, i)
    /\ \A k \in DOMAIN locals : locals[k] = i
    /\ \A k \in DOMAIN snaps : HasSeat(snaps[k], i)

\* What the client shows, what is under way and what the server has follow one
\* another.
Chain ==
    /\ client.gotSim => \A k \in DOMAIN snaps : Follows(client.sim, snaps[k])
    /\ InOrder(snaps)
    /\ Open => \A e : Mine(e) /\ e.loaded =>
          /\ client.gotSim => Follows(client.sim, games[inst[slot]].data)
          /\ \A k \in DOMAIN snaps : Follows(snaps[k], games[inst[slot]].data)

ClientInv == SessionTypes /\ Modes /\ Pipes /\ Received

PlaceInv == OnServer /\ (\E i \in Slots : SeatedAt(i)) /\ Chain

SessionInv == SessionServer /\ ClientInv /\ PlaceInv

LEMMA ServerInit == Init => SessionServer
<1> SUFFICES ASSUME Init PROVE SessionServer
  OBVIOUS
<1>1. ServerInv /\ PointerInv
  BY InvInit, PointersInit
<1>2. QED
  BY <1>1 DEF ServerInv, SessionServer, Init

LEMMA SessionStarts == SessionInit => SessionInv
<1> SUFFICES ASSUME SessionInit PROVE SessionInv
  OBVIOUS
<1>1. SessionServer
  BY ServerInit DEF SessionInit
<1>2. /\ client = NewClient /\ client.state = "kConnecting"
      /\ ~client.loaded /\ ~client.gotSim /\ ~client.gotData
      /\ mode = "connecting" /\ slot = None
      /\ toServer = <<>> /\ toClient = <<>> /\ snaps = <<>> /\ locals = <<>>
  BY DEF SessionInit, NewClient
<1>3. SessionTypes
  BY <1>2, NewClientOK DEF SessionTypes
<1>4. Modes /\ Pipes /\ Received
  BY <1>2 DEF Modes, Pipes, Received, Late
<1>5. DOMAIN snaps = {} /\ DOMAIN locals = {}
  BY <1>2
<1>6. OnServer /\ Chain /\ 0 \in Slots /\ SeatedAt(0)
  <2>1. 0 \in Slots
    BY PlayersAssumption DEF Slots
  <2>2. OnServer /\ Chain /\ SeatedAt(0)
    BY <1>2, <1>5 DEF OnServer, Chain, SeatedAt, InOrder, Open
  <2>3. QED BY <2>1, <2>2
<1>7. QED
  BY <1>1, <1>3, <1>4, <1>6 DEF SessionInv, ClientInv, PlaceInv

-----------------------------------------------------------------------------
(* Steps of the server.                                                     *)

LEMMA ServerStutters ==
    ASSUME SessionServer, UNCHANGED vars
    PROVE  SessionServer'
  BY DEF vars, SessionServer, TypeOK, GoodMatches, PointerInv, PointersAgree, DeadAreEmpty,
     BrokenOnlyByRefusal, HasStaleInstance, Live

\* A step in which the client does nothing keeps what is true of it alone.
LEMMA ClientStutters ==
    ASSUME ClientInv, UNCHANGED sessionVars
    PROVE  ClientInv'
  BY DEF sessionVars, ClientInv, SessionTypes, Modes, Pipes, Received, Told

\* The client's match moves on, and the client's place in it is kept.
LEMMA PlaceIsKept ==
    ASSUME SessionInv, slot # None => Keeps(slot), UNCHANGED sessionVars
    PROVE  PlaceInv'
<1>1. /\ UNCHANGED <<client, slot, toServer, toClient, snaps, locals>>
      /\ OnServer /\ Chain
  BY DEF sessionVars, SessionInv, PlaceInv
<1>2. PICK i \in Slots : SeatedAt(i)
  BY DEF SessionInv, PlaceInv
<1>3. ASSUME Open'
      PROVE  /\ Open /\ inst'[slot] = inst[slot]
             /\ slot \in refused => slot \in refused'
             /\ \A e : Mine(e)' <=> Mine(e)
             /\ \A e : Mine(e) => Follows(games[inst[slot]].data, games'[inst[slot]].data)
  BY <1>1, <1>3 DEF Open, Keeps, Mine
<1>4. \A e : Promised(e)' <=> Promised(e)
  BY <1>1 DEF Promised, Told
<1>5. (Asking' <=> Asking) /\ (Open' => (TurnedAway => TurnedAway'))
  BY <1>1, <1>3 DEF Asking, TurnedAway
<1>6. OnServer'
  <2>1. slot' # None => conn'[slot'] # "free" /\ (conn'[slot'] = "closing" => inst'[slot'] = None)
    BY <1>1 DEF OnServer, Keeps
  <2>2. Open' => /\ Asking' => inst'[slot'] = None
                 /\ \A e : Mine(e)' => Promised(e)'
                 /\ Asking' \/ TurnedAway' \/ \E e : Mine(e)'
    BY <1>1, <1>3, <1>4, <1>5 DEF OnServer
  <2>3. QED BY <2>1, <2>2 DEF OnServer
<1>7. SeatedAt(i)'
  BY <1>1, <1>2, <1>3 DEF SeatedAt
<1>8. Chain'
  <2>1. Open' => \A e : Mine(e)' /\ e.loaded =>
          /\ client.gotSim => Follows(client.sim, games'[inst[slot]].data)
          /\ \A k \in DOMAIN snaps : Follows(snaps[k], games'[inst[slot]].data)
    BY <1>1, <1>3, FollowsInTurn DEF Chain
  <2>2. Open' => inst'[slot'] = inst[slot]
    BY <1>1, <1>3
  <2>3. QED BY <1>1, <2>1, <2>2 DEF Chain
<1>9. QED
  BY <1>2, <1>6, <1>7, <1>8 DEF PlaceInv

LEMMA OthersStep ==
    ASSUME SessionInv, OtherConnections
    PROVE  SessionInv'
<1>1. PICK c \in Clients \ {slot} : NetworkOf(c)
  BY DEF OtherConnections, NetworkOf
<1>2. UNCHANGED sessionVars
  BY DEF OtherConnections
<1>3. SessionServer'
  BY <1>1, ServerNetworkStep DEF SessionInv
<1>4. slot # None => Keeps(slot)
  BY <1>1, NetworkKeeps DEF SessionInv, ClientInv, SessionTypes
<1>5. QED
  BY <1>2, <1>3, <1>4, ClientStutters, PlaceIsKept DEF SessionInv

\* Outside an open connection nothing is asked of the server.
LEMMA NoPlace ==
    ASSUME SessionInv, ~Open',
           slot' # None => conn'[slot'] # "free" /\ (conn'[slot'] = "closing" => inst'[slot'] = None),
           UNCHANGED <<client, snaps, locals>>
    PROVE  PlaceInv'
<1>1. PICK i \in Slots : SeatedAt(i)
  BY DEF SessionInv, PlaceInv
<1>2. OnServer'
  BY DEF OnServer
<1>3. SeatedAt(i)'
  BY <1>1 DEF SeatedAt
<1>4. Chain'
  BY DEF SessionInv, PlaceInv, Chain
<1>5. QED
  BY <1>1, <1>2, <1>3, <1>4 DEF PlaceInv

LEMMA AcceptStep ==
    ASSUME SessionInv, Accept
    PROVE  SessionInv'
<1>1. PICK c \in Clients : Connect(c) /\ slot' = c
  BY DEF Accept
<1>2. /\ client.state = "kConnecting" /\ mode = "connecting"
      /\ UNCHANGED <<client, mode, frame, toServer, toClient, snaps, locals>>
  BY DEF Accept, clientVars, pipes
<1>3. SessionServer'
  BY <1>1, ServerNetworkStep DEF SessionInv, NetworkOf
<1>4. ClientInv'
  BY <1>1, <1>2 DEF SessionInv, ClientInv, SessionTypes, Modes, Pipes, Received, Told, Late
<1>5. conn'[c] = "open" /\ inst'[c] = None
  BY <1>1 DEF Connect, SessionInv, SessionServer, TypeOK
<1>6. \A e : ~Mine(e)'
  BY <1>1, <1>3, <1>5, IdsAssumption DEF Mine, HasIn, SessionServer, TypeOK
<1>7. PICK i \in Slots : SeatedAt(i)
  BY DEF SessionInv, PlaceInv
<1>8. OnServer' /\ SeatedAt(i)' /\ Chain'
  <2>1. OnServer'
    BY <1>1, <1>2, <1>5, <1>6 DEF OnServer, Asking
  <2>2. SeatedAt(i)'
    BY <1>2, <1>6, <1>7 DEF SeatedAt
  <2>3. Chain'
    BY <1>2, <1>6 DEF Chain, SessionInv, PlaceInv
  <2>4. QED BY <2>1, <2>2, <2>3
<1>9. QED
  BY <1>3, <1>4, <1>7, <1>8 DEF SessionInv, PlaceInv

LEMMA CleanupStep ==
    ASSUME SessionInv, CleanupMine
    PROVE  SessionInv'
<1>1. /\ slot # None /\ CleanupClient(slot) /\ slot' = None /\ toServer' = <<>>
      /\ UNCHANGED <<client, mode, frame, toClient, snaps, locals>>
  BY DEF CleanupMine, clientVars
<1>2. slot \in Clients
  BY <1>1 DEF SessionInv, ClientInv, SessionTypes
<1>3. SessionServer'
  BY <1>1, <1>2, ServerNetworkStep DEF SessionInv, NetworkOf
<1>4. SessionTypes' /\ Modes' /\ Received'
  BY <1>1 DEF SessionInv, ClientInv, SessionTypes, Modes, Received
<1>5. Pipes'
  BY <1>1 DEF SessionInv, ClientInv, Pipes, Told
<1>6. PlaceInv'
  BY <1>1, NoPlace DEF Open
<1>7. QED
  BY <1>3, <1>4, <1>5, <1>6 DEF SessionInv, ClientInv

\* What is at the head of the pipe to the server tells the client's state.
LEMMA HeadOfPipe ==
    ASSUME SessionTypes, Pipes, toServer # <<>>
    PROVE  /\ Head(toServer) = Ping =>
                 /\ client.state = "kJoining" /\ toServer = <<Ping, JoinGame>>
                 /\ toClient = <<>> /\ Tail(toServer) = <<JoinGame>>
           /\ Head(toServer) = JoinGame =>
                 /\ client.state = "kJoining" /\ toServer = <<JoinGame>>
                 /\ toClient = <<>> \/ toClient = <<Pong>>
                 /\ Tail(toServer) = <<>>
           /\ \A t : Head(toServer) = FinishLoadingMessage(t) =>
                 /\ client.state \in Late /\ t = client.token
                 /\ Tail(toServer) = <<>>
<1> DEFINE pingJoin == <<Ping, JoinGame>>
           join == <<JoinGame>>
           fin == <<FinishLoadingMessage(client.token)>>
<1>1. client.state \in ConnectionStates
  BY DEF SessionTypes, Client
<1>2. \/ client.state = "kJoining" /\ toServer = pingJoin /\ toClient = <<>>
      \/ client.state = "kJoining" /\ toServer = join /\ (toClient = <<>> \/ toClient = <<Pong>>)
      \/ client.state \in Late /\ toServer = fin
  BY <1>1 DEF Pipes, Late, ConnectionStates
<1>3. /\ Head(pingJoin) = Ping /\ Tail(pingJoin) = join
      /\ Head(join) = JoinGame /\ Tail(join) = <<>>
      /\ Head(fin) = FinishLoadingMessage(client.token) /\ Tail(fin) = <<>>
  BY ShortPipes
<1> HIDE DEF pingJoin, join, fin
<1>4. /\ Head(toServer) = Ping => client.state = "kJoining" /\ toServer = pingJoin /\ toClient = <<>>
      /\ Head(toServer) = JoinGame =>
            client.state = "kJoining" /\ toServer = join /\ (toClient = <<>> \/ toClient = <<Pong>>)
      /\ \A t : Head(toServer) = FinishLoadingMessage(t) =>
            client.state \in Late /\ toServer = fin /\ t = client.token
  BY <1>2, <1>3, MessagesDiffer
<1>5. QED
  BY <1>3, <1>4 DEF pingJoin, join, fin

LEMMA PingStep ==
    ASSUME SessionInv, ServerReceives, Head(toServer) = Ping, ReceivePing
    PROVE  SessionInv'
<1>1. /\ slot # None /\ toServer # <<>> /\ UNCHANGED <<client, mode, frame, slot>>
      /\ UNCHANGED vars /\ UNCHANGED <<snaps, locals>>
      /\ toClient' = Append(toClient, Pong) /\ toServer' = Tail(toServer)
  BY DEF ServerReceives, ReceivePing, clientVars, serverVars
<1>2. /\ client.state = "kJoining" /\ toServer = <<Ping, JoinGame>> /\ toClient = <<>>
      /\ toServer' = <<JoinGame>> /\ toClient' = <<Pong>>
  BY <1>1, HeadOfPipe, ShortPipes DEF SessionInv, ClientInv
<1>3. SessionServer'
  BY <1>1, ServerStutters DEF SessionInv
<1>4. SessionTypes' /\ Modes'
  BY <1>1 DEF SessionInv, ClientInv, SessionTypes, Modes
<1>5. toServer' # <<>>
  BY <1>2, ShortPipes
<1>6. Pipes' /\ Received'
  BY <1>1, <1>2, <1>5 DEF SessionInv, ClientInv, Pipes, Received, Early, Late
<1>7. toServer # <<>> /\ Asking /\ Asking'
  BY <1>1, <1>2, <1>5 DEF Asking
<1>8. (Open' <=> Open) /\ \A e : Mine(e)' <=> Mine(e)
  BY <1>1 DEF vars, Open, Mine
<1>9. inst' = inst /\ conn' = conn /\ games' = games
  BY <1>1 DEF vars
<1>10. \A e : Open => ~Mine(e)
  BY <1>7, IdsAssumption
     DEF SessionInv, PlaceInv, OnServer, Mine, HasIn, SessionServer, TypeOK
<1>11. OnServer'
  BY <1>1, <1>7, <1>8, <1>9, <1>10 DEF SessionInv, PlaceInv, OnServer
<1>12. PICK i \in Slots : SeatedAt(i)
  BY DEF SessionInv, PlaceInv
<1>13. SeatedAt(i)' /\ Chain'
  BY <1>1, <1>8, <1>10, <1>12 DEF SessionInv, PlaceInv, SeatedAt, Chain
<1>14. QED
  BY <1>3, <1>4, <1>6, <1>11, <1>12, <1>13 DEF SessionInv, ClientInv, PlaceInv

LEMMA JoinStep ==
    ASSUME SessionInv, ServerReceives, Head(toServer) = JoinGame, ReceiveJoinGame
    PROVE  SessionInv'
<1>1. /\ slot # None /\ toServer # <<>> /\ UNCHANGED <<client, mode, frame, slot>>
      /\ UNCHANGED <<snaps, locals>>
      /\ toServer' = Tail(toServer)
  BY DEF ServerReceives, ReceiveJoinGame, clientVars
<1>2. PICK validName \in BOOLEAN : HandleJoinGame(slot, AnyGame, validName, TRUE)
  BY DEF ReceiveJoinGame
<1>3. toClient' = IF inst'[slot] # None /\ EntryOf(games'[inst'[slot]], slot) # 0
                  THEN Append(toClient,
                              LoadLevel(games'[inst'[slot]].entries[EntryOf(games'[inst'[slot]], slot)].token))
                  ELSE toClient
  BY <1>1 DEF ReceiveJoinGame, MyEntry
<1>4. /\ client.state = "kJoining" /\ toServer = <<JoinGame>>
      /\ toClient = <<>> \/ toClient = <<Pong>>
      /\ toServer' = <<>>
  BY <1>1, HeadOfPipe DEF SessionInv, ClientInv
<1>5. slot \in Clients
  BY <1>1 DEF SessionInv, ClientInv, SessionTypes
<1>6. SessionServer'
  BY <1>2, <1>5, ServerNetworkStep DEF SessionInv, NetworkOf
<1>7. conn[slot] = "open" /\ Open /\ Asking /\ inst[slot] = None
  BY <1>1, <1>2, <1>4 DEF HandleJoinGame, Receives, Open, Asking, SessionInv, PlaceInv, OnServer
<1>8. SessionTypes' /\ Modes' /\ Received'
  BY <1>1, <1>4 DEF SessionInv, ClientInv, SessionTypes, Modes, Received, Early, Late
<1>9. ~client.gotSim /\ ~client.gotData /\ snaps = <<>> /\ locals = <<>>
  BY <1>4 DEF SessionInv, ClientInv, Received, Early
<1>10. DOMAIN snaps = {} /\ DOMAIN locals = {}
  BY <1>9
<1>11. PICK i \in Slots : SeatedAt(i)
  BY DEF SessionInv, PlaceInv
<1>12. ASSUME toClient' = <<>> \/ toClient' = <<Pong>> \/ \E t \in Tokens : Told(t)',
              conn'[slot] # "free" /\ (conn'[slot] = "closing" => inst'[slot] = None),
              Open' => \A e : Mine(e)' => Promised(e)' /\ ~e.loaded,
              Open' => TurnedAway' \/ \E e : Mine(e)'
       PROVE  SessionInv'
  <2>1. Pipes'
    BY <1>1, <1>4, <1>12 DEF Pipes, Late
  <2>2. ~Asking'
    BY <1>1, <1>4 DEF Asking
  <2>3. OnServer'
    BY <1>1, <1>12, <2>2 DEF OnServer
  <2>4. SeatedAt(i)'
    BY <1>1, <1>9, <1>10, <1>12 DEF SeatedAt
  <2>5. Chain'
    BY <1>1, <1>9, <1>10, <1>12 DEF Chain, InOrder
  <2>6. QED
    BY <1>6, <1>8, <1>11, <2>1, <2>3, <2>4, <2>5 DEF SessionInv, ClientInv, PlaceInv
<1>13. CASE conn'[slot] = "closing" /\ inst'[slot] = None
  <2>1. toClient' = toClient /\ ~Open'
    BY <1>1, <1>3, <1>13 DEF Open
  <2>2. QED BY <1>4, <1>12, <1>13, <2>1
<1>14. CASE /\ conn'[slot] = "open" /\ inst'[slot] # None
            /\ \E e : HasIn(games', slot, inst'[slot], e) /\ ~e.loaded
  <2>1. PICK e : HasIn(games', slot, inst'[slot], e) /\ ~e.loaded
    BY <1>14
  <2> DEFINE g == inst'[slot]
  <2>2. g \in DOMAIN games' /\ InList(games'[g], e) /\ e.client = slot
    BY <2>1 DEF HasIn
  <2>3. games'[g] \in Instance /\ NoClientTwice(games'[g])
    BY <1>6, <2>2 DEF SessionServer, GoodMatches, GoodMatch, PointerInv, PointersAgree
  <2>4. EntryOf(games'[g], slot) # 0 /\ games'[g].entries[EntryOf(games'[g], slot)] = e /\ e \in Entry
    BY <2>2, <2>3, EntryOfIs
  <2>5. toClient' = Append(toClient, LoadLevel(e.token))
    BY <1>3, <1>14, <2>4
  <2>6. Told(e.token)' /\ e.token \in Tokens
    <3>1. /\ Append(<<>>, LoadLevel(e.token)) = <<LoadLevel(e.token)>>
          /\ Append(<<Pong>>, LoadLevel(e.token)) = <<Pong, LoadLevel(e.token)>>
      BY ShortPipes
    <3>2. e.token \in Tokens
      BY <2>4 DEF Entry
    <3>3. toClient' = <<LoadLevel(e.token)>> \/ toClient' = <<Pong, LoadLevel(e.token)>>
      BY <1>4, <2>5, <3>1
    <3>4. QED BY <3>2, <3>3 DEF Told
  <2>7. Mine(e)' /\ \A x : Mine(x)' => x = e
    BY <1>1, <2>1, <2>2, <2>3, OneEntryEach DEF Mine, HasIn
  <2>8. Promised(e)'
    BY <1>1, <1>4, <2>1, <2>6 DEF Promised
  <2>9. QED
    BY <1>12, <1>14, <2>1, <2>6, <2>7, <2>8
<1>15. CASE /\ conn'[slot] = "open" /\ inst'[slot] # None /\ slot \in refused'
            /\ \A e : ~HasIn(games', slot, inst'[slot], e)
            /\ EntryOf(games'[inst'[slot]], slot) = 0
  <2>1. toClient' = toClient
    BY <1>3, <1>15
  <2>2. TurnedAway'
    BY <1>1, <1>4, <1>15, <2>1 DEF TurnedAway
  <2>3. \A e : ~Mine(e)'
    BY <1>1, <1>15 DEF Mine
  <2>4. QED
    BY <1>4, <1>12, <1>15, <2>1, <2>2, <2>3
<1>16. QED
  BY <1>2, <1>5, <1>7, <1>13, <1>14, <1>15, JoinOutcome DEF SessionInv

LEMMA SeatOfEntry ==
    ASSUME NEW game, GoodMatch(game), NEW e, InList(game, e), e.loaded
    PROVE  HasSeat(game.data, e.index) /\ game.data \in Data /\ e.index \in Slots
<1>1. PICK k \in DOMAIN game.entries : game.entries[k] = e
  BY DEF InList
<1>2. game.data \in Data /\ e.index \in Slots
  BY <1>1, InstanceShape DEF GoodMatch
<1>3. HasSeat(game.data, e.index)
  BY <1>1 DEF GoodMatch, MatchInv, EntriesOwnTheirSlots, HasSeat
<1>4. QED
  BY <1>2, <1>3

LEMMA LoadStep ==
    ASSUME SessionInv, ServerReceives, NEW token \in Tokens,
           Head(toServer) = FinishLoadingMessage(token), ReceiveFinishLoading(token)
    PROVE  SessionInv'
<1> DEFINE g == inst[slot]
<1>1. /\ slot # None /\ toServer # <<>> /\ UNCHANGED <<client, mode, frame, slot, toClient>>
      /\ toServer' = Tail(toServer)
      /\ HandleFinishLoading(slot, token)
  BY DEF ServerReceives, ReceiveFinishLoading, clientVars
<1>2. client.state \in Late /\ token = client.token /\ toServer' = <<>>
  BY <1>1, HeadOfPipe DEF SessionInv, ClientInv
<1>3. slot \in Clients
  BY <1>1 DEF SessionInv, ClientInv, SessionTypes
<1>4. SessionServer'
  BY <1>1, <1>3, ServerNetworkStep DEF SessionInv, NetworkOf
<1>5. Open /\ ~Asking /\ ~TurnedAway
  BY <1>1, <1>2 DEF HandleFinishLoading, Receives, Open, Asking, TurnedAway, Late
<1>6. PICK e : Mine(e) /\ Promised(e)
  BY <1>5 DEF SessionInv, PlaceInv, OnServer
<1>7. ~e.loaded /\ e.token = token
  BY <1>1, <1>2, <1>6 DEF Promised, Late
<1> DEFINE e2 == [e EXCEPT !.loaded = TRUE]
<1>8. /\ Listed(slot, g) /\ games[g].entries[EntryOf(games[g], slot)] = e /\ e \in Entry
      /\ g \in DOMAIN games
  BY <1>6, MyEntryIs DEF Mine, SessionInv, HasIn
<1>9. /\ conn' = conn /\ inst' = inst /\ refused' = refused
      /\ HasIn(games', slot, g, e2)
  BY <1>1, <1>3, <1>6, <1>7, LoadOutcome DEF SessionInv, Mine
<1>10. e2.loaded /\ e2.index = e.index /\ e2.client = e.client /\ e2.token = e.token
  BY <1>8 DEF Entry
<1> HIDE DEF e2
<1>11. g \in DOMAIN games' /\ InList(games'[g], e2) /\ e2.client = slot
  BY <1>9 DEF HasIn
<1>12. GoodMatch(games'[g]) /\ NoClientTwice(games'[g])
  BY <1>4, <1>11 DEF SessionServer, GoodMatches, PointerInv, PointersAgree
<1>13. EntryOf(games'[g], slot) # 0 /\ games'[g].entries[EntryOf(games'[g], slot)] = e2
  BY <1>11, <1>12, EntryOfIs DEF GoodMatch
<1>14. /\ locals' = Append(locals, e.index)
       /\ snaps' \in WithSnapshot(games'[g].data)
  <2>1. g # None
    BY <1>8, IdsAssumption DEF SessionInv, SessionServer, TypeOK
  <2>2. ~IsLoaded(g)
    BY <1>7, <1>8 DEF IsLoaded, MyEntry
  <2>3. IsLoaded(inst[slot])'
    BY <1>1, <1>9, <1>10, <1>11, <1>13 DEF IsLoaded, MyEntry, Live
  <2>4. MyEntry(g).index = e.index
    BY <1>8 DEF MyEntry
  <2>5. QED
    BY <2>1, <2>2, <2>3, <2>4 DEF ReceiveFinishLoading
<1>15. ~client.gotSim /\ ~client.gotData /\ snaps = <<>> /\ locals = <<>>
  BY <1>1 DEF SessionInv, ClientInv, Received
<1>16. DOMAIN snaps = {}
  BY <1>15
<1>17. HasSeat(games'[g].data, e.index) /\ games'[g].data \in Data /\ e.index \in Slots
  BY <1>10, <1>11, <1>12, SeatOfEntry
<1>18. /\ snaps' \in Seq(Data) /\ InOrder(snaps')
       /\ \A k \in DOMAIN snaps' : snaps'[k] = games'[g].data
  <2>1. snaps \in Seq(Data) /\ InOrder(snaps)
    BY <1>16 DEF SessionInv, ClientInv, SessionTypes, InOrder
  <2>2. QED BY <1>14, <1>16, <1>17, <2>1, SnapshotIsSent
<1>19. /\ locals' \in Seq(Slots) /\ locals' # <<>>
       /\ \A k \in DOMAIN locals' : locals'[k] = e.index
  <2>1. locals' = <<e.index>>
    BY <1>14, <1>15, ShortPipes
  <2>2. QED BY <1>17, <2>1
<1>20. SessionTypes' /\ Modes'
  BY <1>1, <1>18, <1>19 DEF SessionInv, ClientInv, SessionTypes, Modes
<1>21. Pipes'
  BY <1>1, <1>2 DEF SessionInv, ClientInv, Pipes, Late
<1>22. Received'
  BY <1>1, <1>2, <1>15 DEF SessionInv, ClientInv, Received, Early, Late
<1>23. \A x : Mine(x)' => x = e2
  BY <1>1, <1>9, <1>11, <1>12, OneEntryEach DEF Mine, HasIn
<1>24. Mine(e2)' /\ Promised(e2)'
  BY <1>1, <1>2, <1>9, <1>10, <1>19 DEF Mine, Promised
<1>25. ~Asking' /\ conn'[slot] = "open"
  BY <1>1, <1>2, <1>5, <1>9 DEF Asking, Late, Open
<1>26. OnServer'
  BY <1>1, <1>23, <1>24, <1>25 DEF OnServer
<1>27. SeatedAt(e.index)'
  BY <1>1, <1>10, <1>15, <1>17, <1>18, <1>19, <1>23 DEF SeatedAt
<1>28. Chain'
  BY <1>1, <1>9, <1>15, <1>18, FollowsItself DEF Chain
<1>29. QED
  BY <1>4, <1>17, <1>20, <1>21, <1>22, <1>26, <1>27, <1>28 DEF SessionInv, ClientInv, PlaceInv

LEMMA ReceivesStep ==
    ASSUME SessionInv, ServerReceives
    PROVE  SessionInv'
  BY PingStep, JoinStep, LoadStep DEF ServerReceives

\* A tick that sends the client a snapshot.
LEMMA SendingTick ==
    ASSUME SessionInv, NEW f \in TickChoices, WholeTickWith(f), TickSendsToMe(f),
           snaps' \in WithSnapshot(f[inst[slot]].data),
           UNCHANGED <<client, mode, frame, slot, toServer, toClient, locals>>
    PROVE  SessionInv'
<1> DEFINE g == inst[slot]
           data == f[g].data
<1>1. slot # None /\ g # None /\ IsLoaded(g) /\ slot \in Clients
  BY DEF TickSendsToMe, SessionInv, ClientInv, SessionTypes
<1>2. SessionServer'
  BY ServerTickStep DEF SessionInv
<1>3. PICK e : Mine(e) /\ e.loaded
  BY <1>1, ListedHasEntry DEF IsLoaded, MyEntry, Listed, Mine, SessionInv
<1>4. Open
  <2>1. conn[slot] \in {"free", "open", "closing"}
    BY <1>1 DEF SessionInv, SessionServer, TypeOK
  <2>2. QED BY <1>1, <2>1 DEF SessionInv, PlaceInv, OnServer, Open
<1>5. /\ Keeps(slot) /\ refused' = refused
      /\ GoodMatch(f[g]) /\ InList(f[g], e)
      /\ Follows(games[g].data, data)
      /\ conn'[slot] = "open" => Follows(data, games'[g].data)
  BY <1>1, <1>3, TickKeeps DEF Mine, SessionInv
<1>6. HasSeat(data, e.index) /\ data \in Data
  BY <1>3, <1>5, SeatOfEntry
<1>7. client.state \in Late /\ toServer = <<>>
  BY <1>3, <1>4 DEF SessionInv, PlaceInv, OnServer, Promised
<1>8. PICK i \in Slots : SeatedAt(i)
  BY DEF SessionInv, PlaceInv
<1>9. i = e.index
  BY <1>3, <1>4, <1>8 DEF SeatedAt
<1>10. /\ snaps \in Seq(Data) /\ InOrder(snaps)
       /\ \A k \in DOMAIN snaps : Follows(snaps[k], data)
       /\ client.gotSim => Follows(client.sim, data)
       /\ client.gotSim => \A k \in DOMAIN snaps : Follows(client.sim, snaps[k])
  BY <1>3, <1>4, <1>5, FollowsInTurn DEF SessionInv, ClientInv, SessionTypes, PlaceInv, Chain
<1> HIDE DEF data
<1>11. /\ snaps' \in Seq(Data) /\ InOrder(snaps')
       /\ \A k \in DOMAIN snaps' : snaps'[k] = data \/ \E l \in DOMAIN snaps : snaps'[k] = snaps[l]
  BY <1>6, <1>10, SnapshotIsSent DEF data
<1>12. SessionTypes' /\ Modes'
  BY <1>11 DEF SessionInv, ClientInv, SessionTypes, Modes
<1>13. Pipes'
  BY <1>7 DEF SessionInv, ClientInv, Pipes, Late
<1>14. Received'
  BY <1>7 DEF SessionInv, ClientInv, Received, Early, Late
<1>15. ASSUME Open'
       PROVE  /\ inst'[slot] = g /\ conn'[slot] = "open"
              /\ \A x : Mine(x)' <=> Mine(x)
              /\ Follows(data, games'[g].data)
  BY <1>5, <1>15 DEF Open, Keeps, Mine
<1>16. \A x : Promised(x)' <=> Promised(x)
  BY DEF Promised, Told
<1>17. OnServer'
  <2>1. conn'[slot'] # "free" /\ (conn'[slot'] = "closing" => inst'[slot'] = None)
    BY <1>1, <1>4, <1>5 DEF Open, Keeps
  <2>2. Open' => /\ ~Asking'
                 /\ \A x : Mine(x)' => Promised(x)'
                 /\ Mine(e)'
    BY <1>3, <1>4, <1>7, <1>15, <1>16 DEF SessionInv, PlaceInv, OnServer, Asking, Late
  <2>3. QED BY <2>1, <2>2 DEF OnServer
<1>18. SeatedAt(i)'
  BY <1>4, <1>6, <1>8, <1>9, <1>11, <1>15 DEF SeatedAt
<1>19. Chain'
  <2>1. client'.gotSim => \A k \in DOMAIN snaps' : Follows(client'.sim, snaps'[k])
    BY <1>10, <1>11
  <2>2. ASSUME Open' PROVE \A k \in DOMAIN snaps' : Follows(snaps'[k], games'[g].data)
    BY <1>10, <1>11, <1>15, <2>2, FollowsInTurn
  <2>3. ASSUME Open' PROVE client'.gotSim => Follows(client'.sim, games'[g].data)
    BY <1>10, <1>15, <2>3, FollowsInTurn
  <2>4. Open' => inst'[slot'] = g
    BY <1>15
  <2>5. QED BY <1>11, <2>1, <2>2, <2>3, <2>4 DEF Chain
<1>20. QED
  BY <1>2, <1>8, <1>12, <1>13, <1>14, <1>17, <1>18, <1>19 DEF SessionInv, ClientInv, PlaceInv

LEMMA TickStep ==
    ASSUME SessionInv, ServerTick
    PROVE  SessionInv'
<1>1. UNCHANGED <<client, mode, frame, slot, toServer, toClient, locals>>
  BY DEF ServerTick, clientVars
<1>2. ASSUME NEW f \in TickChoices, WholeTickWith(f),
             IF TickSendsToMe(f) THEN snaps' \in WithSnapshot(f[inst[slot]].data) ELSE UNCHANGED snaps
      PROVE  SessionInv'
  <2>1. CASE TickSendsToMe(f)
    BY <1>1, <1>2, <2>1, SendingTick
  <2>2. CASE ~TickSendsToMe(f)
    <3>1. UNCHANGED sessionVars
      BY <1>1, <1>2, <2>2 DEF sessionVars
    <3>2. slot # None => Keeps(slot)
      BY <1>2, TickKeeps DEF SessionInv, ClientInv, SessionTypes
    <3>3. SessionServer'
      BY <1>2, ServerTickStep DEF SessionInv
    <3>4. QED BY <3>1, <3>2, <3>3, ClientStutters, PlaceIsKept DEF SessionInv
  <2>3. QED BY <2>1, <2>2
<1>3. CASE HangingTick /\ UNCHANGED snaps
  <2>1. UNCHANGED sessionVars
    BY <1>1, <1>3 DEF sessionVars
  <2>2. UNCHANGED <<conn, inst, games, refused>>
    BY <1>3 DEF HangingTick, connVars, matchVars
  <2>3. slot # None => Keeps(slot)
    BY <2>2, FollowsItself DEF Keeps
  <2>4. SessionServer'
    BY <1>3, HangingTickStep DEF SessionInv
  <2>5. QED BY <2>1, <2>3, <2>4, ClientStutters, PlaceIsKept DEF SessionInv
<1>4. QED
  BY <1>2, <1>3 DEF ServerTick

-----------------------------------------------------------------------------
(* Steps of the client.                                                     *)

LEMMA ServerRests ==
    ASSUME SessionInv, UNCHANGED <<vars, slot>>
    PROVE  /\ SessionServer'
           /\ UNCHANGED <<conn, inst, games, refused, slot>>
           /\ Open' <=> Open
           /\ \A e : Mine(e)' <=> Mine(e)
<1>1. SessionServer'
  BY ServerStutters DEF SessionInv
<1>2. UNCHANGED <<conn, inst, games, refused, slot>>
  BY DEF vars
<1>3. QED
  BY <1>1, <1>2 DEF Open, Mine

LEMMA StartStep ==
    ASSUME SessionInv, StartConnection
    PROVE  SessionInv'
<1>1. /\ client.state = "kConnecting" /\ client' = InitConnection(client)
      /\ toServer' = <<Ping, JoinGame>> /\ mode # "endgame"
      /\ UNCHANGED <<vars, mode, frame, slot, toClient, snaps, locals>>
  BY DEF StartConnection, Updating, serverVars
<1>2. /\ client' \in Client(Tokens) /\ client'.state = "kJoining"
      /\ client'.loaded = client.loaded /\ client'.levelLoaded = client.levelLoaded
      /\ client'.gotSim = client.gotSim /\ client'.gotData = client.gotData
      /\ client'.playerIndex = client.playerIndex /\ client'.sim = client.sim
  BY <1>1 DEF InitConnection, SessionInv, ClientInv, SessionTypes, Client, ConnectionStates
<1>3. /\ SessionServer'
      /\ UNCHANGED <<conn, inst, games, refused, slot>>
      /\ Open' <=> Open
      /\ \A e : Mine(e)' <=> Mine(e)
  BY <1>1, ServerRests
<1>4. SessionTypes' /\ Modes'
  BY <1>1, <1>2 DEF SessionInv, ClientInv, SessionTypes, Modes
<1>5. toServer' # <<>> /\ toClient = <<>>
  BY <1>1, ShortPipes DEF SessionInv, ClientInv, Pipes
<1>6. Pipes' /\ Received'
  BY <1>1, <1>2, <1>5 DEF SessionInv, ClientInv, Pipes, Received, Early, Late
<1>7. Asking /\ Asking'
  BY <1>1, <1>2, <1>5 DEF Asking
<1>8. Open => \A e : ~Mine(e)
  BY <1>7, IdsAssumption DEF SessionInv, PlaceInv, OnServer, Mine, HasIn, SessionServer, TypeOK
<1>9. OnServer'
  BY <1>1, <1>3, <1>7, <1>8 DEF SessionInv, PlaceInv, OnServer
<1>10. PICK i \in Slots : SeatedAt(i)
  BY DEF SessionInv, PlaceInv
<1>11. SeatedAt(i)' /\ Chain'
  BY <1>1, <1>2, <1>3, <1>8, <1>10 DEF SessionInv, PlaceInv, SeatedAt, Chain
<1>12. QED
  BY <1>3, <1>4, <1>6, <1>9, <1>10, <1>11 DEF SessionInv, ClientInv, PlaceInv

\* The client gives up its connection, and with it all that is under way.
LEMMA GoneStep ==
    ASSUME SessionInv, UNCHANGED vars, slot' = None, ClearPipes,
           client' \in Client(Tokens), client'.state = "kDisconnected",
           client'.loaded => client'.levelLoaded,
           client'.gotSim \/ client'.gotData =>
              /\ client'.loaded
              /\ client'.gotSim = client.gotSim /\ client'.gotData = client.gotData
              /\ client'.sim = client.sim /\ client'.playerIndex = client.playerIndex
    PROVE  SessionInv'
<1>1. /\ toServer' = <<>> /\ toClient' = <<>> /\ snaps' = <<>> /\ locals' = <<>>
      /\ DOMAIN snaps' = {} /\ DOMAIN locals' = {}
  BY DEF ClearPipes
<1>2. SessionServer'
  BY ServerStutters DEF SessionInv
<1>3. SessionTypes' /\ Modes'
  BY <1>1 DEF SessionTypes, Modes
<1>4. Pipes' /\ Received'
  BY <1>1 DEF Pipes, Received, Early, Late
<1>5. OnServer'
  BY DEF OnServer, Open
<1>6. PICK i \in Slots : SeatedAt(i)
  BY DEF SessionInv, PlaceInv
<1>7. SeatedAt(i)' /\ Chain'
  BY <1>1, <1>6 DEF SeatedAt, Chain, InOrder, Open
<1>8. QED
  BY <1>2, <1>3, <1>4, <1>5, <1>6, <1>7 DEF SessionInv, ClientInv, PlaceInv

LEMMA LoseStep ==
    ASSUME SessionInv, LoseConnection
    PROVE  SessionInv'
<1>1. client' = Disconnected(client) /\ slot' = None /\ ClearPipes /\ UNCHANGED vars
  BY DEF LoseConnection, serverVars
<1>2. /\ client' \in Client(Tokens) /\ client'.state = "kDisconnected"
      /\ client'.loaded = client.loaded /\ client'.levelLoaded = client.levelLoaded
      /\ client'.gotSim = client.gotSim /\ client'.gotData = client.gotData
      /\ client'.playerIndex = client.playerIndex /\ client'.sim = client.sim
  BY <1>1 DEF Disconnected, SessionInv, ClientInv, SessionTypes, Client, ConnectionStates
<1>3. /\ client.loaded => client.levelLoaded
      /\ client.gotSim \/ client.gotData => client.loaded
  BY DEF SessionInv, ClientInv, Received
<1>4. QED
  BY <1>1, <1>2, <1>3, GoneStep

LEMMA MessageStep ==
    ASSUME SessionInv, ReceiveMessage
    PROVE  SessionInv'
<1>1. /\ toClient # <<>> /\ client.state \notin {"kConnecting", "kDisconnected"}
      /\ client' = IF Head(toClient) = Pong THEN HandlePong(client)
                   ELSE HandleLoadLevel(client, Head(toClient).token)
      /\ toClient' = Tail(toClient)
      /\ UNCHANGED <<vars, mode, frame, slot, toServer, snaps, locals>>
  BY DEF ReceiveMessage, Listening, serverVars
<1>2. /\ SessionServer'
      /\ UNCHANGED <<conn, inst, games, refused, slot>>
      /\ Open' <=> Open
      /\ \A e : Mine(e)' <=> Mine(e)
  BY <1>1, ServerRests
<1>3. client \in Client(Tokens) /\ client.state \in ConnectionStates
  BY DEF SessionInv, ClientInv, SessionTypes, Client
<1>4. /\ client.state = "kJoining"
      /\ \/ toServer = <<Ping, JoinGame>> /\ toClient = <<>>
         \/ toServer = <<JoinGame>> /\ (toClient = <<>> \/ toClient = <<Pong>>)
         \/ toServer = <<>> /\ (toClient = <<>> \/ toClient = <<Pong>> \/ \E t \in Tokens : Told(t))
  BY <1>1, <1>3 DEF SessionInv, ClientInv, Pipes, Late, ConnectionStates
<1>5. /\ \A t : /\ <<LoadLevel(t)>> # <<>> /\ Head(<<LoadLevel(t)>>) = LoadLevel(t)
                /\ Tail(<<LoadLevel(t)>>) = <<>>
                /\ Head(<<Pong, LoadLevel(t)>>) = Pong
                /\ Tail(<<Pong, LoadLevel(t)>>) = <<LoadLevel(t)>>
      /\ Head(<<Pong>>) = Pong /\ Tail(<<Pong>>) = <<>>
      /\ <<JoinGame>> # <<>>
  BY ShortPipes
<1>6. PICK i \in Slots : SeatedAt(i)
  BY DEF SessionInv, PlaceInv
<1>7. /\ ~client.loaded /\ ~client.gotSim /\ ~client.gotData /\ snaps = <<>> /\ locals = <<>>
      /\ DOMAIN snaps = {} /\ DOMAIN locals = {}
  BY <1>4 DEF SessionInv, ClientInv, Received, Early
<1>8. ASSUME Open, NEW e, Mine(e) PROVE Told(e.token) /\ ~e.loaded
  BY <1>4, <1>8 DEF SessionInv, PlaceInv, OnServer, Promised, Late
<1>9. ASSUME client' \in Client(Tokens),
             client'.state \in {"kJoining", "kLoading"}, ~client'.loaded, ~client'.gotSim, ~client'.gotData,
             Pipes', OnServer'
      PROVE  SessionInv'
  <2>1. SessionTypes'
    BY <1>1, <1>9 DEF SessionInv, ClientInv, SessionTypes
  <2>2. Modes'
    BY <1>1, <1>4, <1>9 DEF SessionInv, ClientInv, Modes
  <2>3. Received'
    BY <1>1, <1>7, <1>9 DEF Received, Late
  <2>4. SeatedAt(i)'
    BY <1>1, <1>2, <1>6, <1>7, <1>8, <1>9 DEF SeatedAt
  <2>5. Chain'
    BY <1>1, <1>2, <1>7, <1>8, <1>9 DEF Chain, InOrder
  <2>6. QED
    BY <1>2, <1>6, <1>9, <2>1, <2>2, <2>3, <2>4, <2>5 DEF SessionInv, ClientInv, PlaceInv
<1>10. CASE Head(toClient) = Pong
  <2>1. Finalized(client, client')
    BY <1>1, <1>3, <1>10, PongShape
  <2>2. /\ client' \in Client(Tokens) /\ client'.state = "kJoining"
        /\ ~client'.loaded /\ ~client'.gotSim /\ ~client'.gotData
    BY <1>4, <1>7, <2>1 DEF Finalized
  <2>3. \A t : Told(t) => toClient = <<Pong, LoadLevel(t)>>
    BY <1>5, <1>10, MessagesDiffer DEF Told
  <2>4. \A t : Told(t) => Told(t)'
    BY <1>1, <1>5, <2>3 DEF Told
  <2>5. toClient = <<Pong>> => toClient' = <<>>
    BY <1>1, <1>5
  <2>6. Pipes'
    <3>1. \/ toServer = <<JoinGame>> /\ toClient = <<Pong>>
          \/ toServer = <<>> /\ (toClient = <<Pong>> \/ \E t \in Tokens : Told(t))
      BY <1>1, <1>4
    <3>2. \/ toServer = <<JoinGame>> /\ toClient' = <<>>
          \/ toServer = <<>> /\ (toClient' = <<>> \/ \E t \in Tokens : Told(t)')
      BY <2>4, <2>5, <3>1
    <3>3. QED BY <1>1, <2>2, <3>2 DEF Pipes, Late
  <2>7. OnServer'
    <3>1. Asking' <=> Asking
      BY <1>1, <1>4, <2>2 DEF Asking
    <3>2. \A e : Promised(e) => Promised(e)'
      BY <1>4, <2>2, <2>4 DEF Promised, Late
    <3>3. TurnedAway => TurnedAway'
      BY <1>1, <1>2, <2>2, <2>5 DEF TurnedAway
    <3>4. QED BY <1>2, <3>1, <3>2, <3>3 DEF SessionInv, PlaceInv, OnServer
  <2>8. QED BY <1>9, <2>2, <2>6, <2>7
<1>11. CASE Head(toClient) # Pong
  <2>1. PICK t \in Tokens : toClient = <<LoadLevel(t)>>
    BY <1>1, <1>4, <1>5, <1>11 DEF Told
  <2>2. toServer = <<>> /\ toClient' = <<>> /\ Head(toClient) = LoadLevel(t)
    BY <1>1, <1>4, <1>5, <1>11, <2>1
  <2>3. client' = HandleLoadLevel(client, t)
    BY <1>1, <1>11, <2>2, MessagesDiffer
  <2>4. /\ client' \in Client(Tokens) /\ client'.state = "kLoading"
        /\ ~client'.loaded /\ ~client'.gotSim /\ ~client'.gotData /\ client'.token = t
    BY <1>3, <2>3 DEF HandleLoadLevel, Client, ConnectionStates
  <2>5. Pipes'
    BY <1>1, <2>2, <2>4 DEF Pipes, Late
  <2>6. \A u : Told(u) => u = t
    BY <1>5, <1>11, <2>2, MessagesDiffer DEF Told
  <2>7. OnServer'
    <3>1. ~Asking /\ ~Asking'
      BY <1>1, <1>4, <2>2, <2>4 DEF Asking
    <3>2. ~TurnedAway
      BY <1>1, <1>5, <1>11 DEF TurnedAway
    <3>3. \A e : Open /\ Mine(e) => Promised(e)'
      BY <1>8, <2>4, <2>6 DEF Promised
    <3>4. QED BY <1>2, <3>1, <3>2, <3>3 DEF SessionInv, PlaceInv, OnServer
  <2>8. QED BY <1>9, <2>4, <2>5, <2>7
<1>12. QED
  BY <1>10, <1>11

\* A connected client that plays has had a snapshot, so what it shows from now
\* on is of the same match.
LEMMA LateStep ==
    ASSUME SessionInv, client.state \in Late, toServer = <<>>, mode # "endgame",
           UNCHANGED <<vars, mode, frame, slot, toServer, toClient>>,
           NEW u, Finalized(u, client'),
           u.state = client.state, u.loaded, u.levelLoaded = client.levelLoaded,
           u.token = client.token,
           client.gotSim => u.gotSim, client.gotData => u.gotData,
           client.gotSim /\ client.sim.started => u.sim.started,
           Open => u.gotData \/ locals' # <<>>,
           locals' \in Seq(Slots), snaps' \in Seq(Data), InOrder(snaps'),
           NEW i \in Slots, SeatedAt(i),
           u.gotData => u.playerIndex = i,
           u.gotSim => HasSeat(u.sim, i),
           \A k \in DOMAIN locals' : locals'[k] = i,
           \A k \in DOMAIN snaps' : HasSeat(snaps'[k], i),
           u.gotSim => \A k \in DOMAIN snaps' : Follows(u.sim, snaps'[k]),
           Open => \A e : Mine(e) /\ e.loaded =>
              /\ u.gotSim => Follows(u.sim, games[inst[slot]].data)
              /\ \A k \in DOMAIN snaps' : Follows(snaps'[k], games[inst[slot]].data)
    PROVE  SessionInv'
<1>1. /\ SessionServer'
      /\ UNCHANGED <<conn, inst, games, refused, slot>>
      /\ Open' <=> Open
      /\ \A e : Mine(e)' <=> Mine(e)
  BY ServerRests
<1>2. /\ client' \in Client(Tokens)
      /\ client'.loaded = u.loaded /\ client'.levelLoaded = u.levelLoaded
      /\ client'.gotSim = u.gotSim /\ client'.gotData = u.gotData
      /\ client'.token = client.token /\ client'.playerIndex = u.playerIndex /\ client'.sim = u.sim
      /\ client'.state \in Late
      /\ \/ client'.state = client.state
         \/ client.state = "kWaitingForInitialSync" /\ u.gotSim /\ u.gotData
  BY DEF Finalized, Late
<1>3. SessionTypes'
  BY <1>2 DEF SessionInv, ClientInv, SessionTypes
<1>4. client.state = "kConnected" => client.gotSim /\ client.gotData
  BY DEF SessionInv, ClientInv, Received
<1>5. Modes'
  <2>1. mode = "gameplay" => client.state = "kConnected" /\ client.sim.started
    BY DEF SessionInv, ClientInv, Modes, Late
  <2>2. mode = "gameplay" => client'.state = "kConnected" /\ client'.sim.started
    BY <1>2, <1>4, <2>1
  <2>3. QED BY <2>2 DEF Modes
<1>6. Pipes'
  BY <1>2 DEF SessionInv, ClientInv, Pipes, Late
<1>7. Received'
  <2>1. client'.state = "kConnected" => client'.gotSim /\ client'.gotData
    BY <1>2, <1>4
  <2>2. client'.loaded /\ client'.levelLoaded
    BY <1>2 DEF SessionInv, ClientInv, Received
  <2>3. client'.state \notin Early /\ toServer' = <<>>
    BY <1>2 DEF Early, Late
  <2>4. QED BY <2>1, <2>2, <2>3 DEF Received
<1>8. \A e : Open /\ Promised(e) => Promised(e)'
  <2>1. client.state \notin {"kJoining", "kLoading"}
    BY DEF Late
  <2>2. QED BY <1>2, <2>1 DEF Promised
<1>9. ~Asking /\ ~Asking' /\ ~TurnedAway
  BY <1>2 DEF Asking, TurnedAway, Late
<1>10. OnServer'
  BY <1>1, <1>8, <1>9 DEF SessionInv, PlaceInv, OnServer
<1>11. SeatedAt(i)'
  BY <1>1, <1>2 DEF SeatedAt
<1>12. Chain'
  BY <1>1, <1>2 DEF Chain
<1>13. QED
  BY <1>1, <1>3, <1>5, <1>6, <1>7, <1>10, <1>11, <1>12 DEF SessionInv, ClientInv, PlaceInv

\* Whoever has something to receive is loaded and has no question under way.
LEMMA ReceiverIsLate ==
    ASSUME SessionInv, client.state \notin {"kConnecting", "kDisconnected"},
           snaps # <<>> \/ locals # <<>>
    PROVE  client.state \in Late /\ toServer = <<>> /\ client.loaded
<1>1. client.state \in ConnectionStates
  BY DEF SessionInv, ClientInv, SessionTypes, Client
<1>2. client.state \notin Early /\ toServer = <<>>
  BY DEF SessionInv, ClientInv, Received
<1>3. client.state \in Late
  BY <1>1, <1>2 DEF ConnectionStates, Early, Late
<1>4. QED
  BY <1>2, <1>3 DEF SessionInv, ClientInv, Received

LEMMA DataStep ==
    ASSUME SessionInv, ReceiveClientData
    PROVE  SessionInv'
<1>1. /\ locals # <<>> /\ client.state \notin {"kConnecting", "kDisconnected"} /\ mode # "endgame"
      /\ client' = HandleClientDataUpdate(client, Head(locals))
      /\ locals' = Tail(locals)
      /\ UNCHANGED <<vars, mode, frame, slot, toServer, toClient, snaps>>
  BY DEF ReceiveClientData, Listening, Updating, serverVars
<1>2. client.state \in Late /\ toServer = <<>> /\ client.loaded
  BY <1>1, ReceiverIsLate
<1>3. client \in Client(Tokens) /\ locals \in Seq(Slots) /\ snaps \in Seq(Data)
  BY DEF SessionInv, ClientInv, SessionTypes
<1>4. PICK i \in Slots : SeatedAt(i)
  BY DEF SessionInv, PlaceInv
<1>5. Head(locals) = i
  <2>1. 1 \in DOMAIN locals /\ Head(locals) = locals[1]
    BY <1>1, <1>3
  <2>2. QED BY <1>4, <2>1 DEF SeatedAt
<1>6. locals' \in Seq(Slots) /\ \A k \in DOMAIN locals' : locals'[k] = i
  <2>1. /\ Tail(locals) \in Seq(Slots)
        /\ \A k \in DOMAIN Tail(locals) : k + 1 \in DOMAIN locals /\ Tail(locals)[k] = locals[k + 1]
    BY <1>1, <1>3
  <2>2. QED BY <1>1, <1>4, <2>1 DEF SeatedAt
<1>7. PICK u :
        /\ u.playerIndex = i /\ u.gotData
        /\ u.loaded = client.loaded /\ u.levelLoaded = client.levelLoaded
        /\ u.gotSim = client.gotSim /\ u.token = client.token /\ u.sim = client.sim
        /\ u.state = client.state
        /\ Finalized(u, client')
  BY <1>1, <1>2, <1>3, <1>5, DataShape
<1>8. /\ client.gotSim => HasSeat(client.sim, i)
      /\ \A k \in DOMAIN snaps : HasSeat(snaps[k], i)
  BY <1>4 DEF SeatedAt
<1>9. /\ client.gotSim => \A k \in DOMAIN snaps : Follows(client.sim, snaps[k])
      /\ InOrder(snaps)
      /\ Open => \A e : Mine(e) /\ e.loaded =>
            /\ client.gotSim => Follows(client.sim, games[inst[slot]].data)
            /\ \A k \in DOMAIN snaps : Follows(snaps[k], games[inst[slot]].data)
  BY DEF SessionInv, PlaceInv, Chain
<1>10. snaps' = snaps
  BY <1>1
<1>11. QED
  BY <1>1, <1>2, <1>3, <1>4, <1>6, <1>7, <1>8, <1>9, <1>10, LateStep

LEMMA SnapshotStep ==
    ASSUME SessionInv, ReceiveSnapshot
    PROVE  SessionInv'
<1>1. PICK k \in DOMAIN snaps :
        /\ client.state \notin {"kConnecting", "kDisconnected"} /\ mode # "endgame"
        /\ client' = HandleSimUpdate(client, snaps[k])
        /\ snaps' = SubSeq(snaps, k + 1, Len(snaps))
        /\ UNCHANGED <<vars, mode, frame, slot, toServer, toClient, locals>>
  BY DEF ReceiveSnapshot, Listening, Updating, serverVars, Deliverable
<1>2. snaps # <<>>
  BY <1>1
<1>3. client.state \in Late /\ toServer = <<>> /\ client.loaded
  BY <1>1, <1>2, ReceiverIsLate
<1>4. client \in Client(Tokens) /\ locals \in Seq(Slots) /\ snaps \in Seq(Data) /\ snaps[k] \in Data
  BY <1>1, ElementOfSeq DEF SessionInv, ClientInv, SessionTypes
<1>5. PICK i \in Slots : SeatedAt(i)
  BY DEF SessionInv, PlaceInv
<1>6. /\ client.gotData => client.playerIndex = i
      /\ \A l \in DOMAIN locals : locals[l] = i
      /\ \A l \in DOMAIN snaps : HasSeat(snaps[l], i)
  BY <1>5 DEF SeatedAt
<1>7. /\ client.gotSim => \A l \in DOMAIN snaps : Follows(client.sim, snaps[l])
      /\ InOrder(snaps)
      /\ Open => \A e : Mine(e) /\ e.loaded =>
            \A l \in DOMAIN snaps : Follows(snaps[l], games[inst[slot]].data)
  BY DEF SessionInv, PlaceInv, Chain
<1>8. /\ snaps' \in Seq(Data) /\ Rest(snaps', snaps)
      /\ \A a \in DOMAIN snaps' : \E b \in DOMAIN snaps : snaps'[a] = snaps[b] /\ k < b
  BY <1>1, <1>4, LoseFirst
<1>9. InOrder(snaps')
  BY <1>7, <1>8, RestInOrder
<1>10. \A a \in DOMAIN snaps' : Follows(snaps[k], snaps'[a])
  BY <1>7, <1>8 DEF InOrder
<1>11. PICK u :
        /\ u.sim = snaps[k] /\ u.gotSim
        /\ u.loaded = client.loaded /\ u.levelLoaded = client.levelLoaded
        /\ u.gotData = client.gotData /\ u.token = client.token /\ u.playerIndex = client.playerIndex
        /\ u.state = client.state
        /\ Finalized(u, client')
  BY <1>1, <1>3, <1>4, SnapshotShape
<1>12. client.gotSim /\ client.sim.started => u.sim.started
  BY <1>7, <1>11 DEF Follows
<1>13. Open => client.gotData \/ locals # <<>>
  BY <1>3 DEF SessionInv, PlaceInv, OnServer, Promised, Asking, TurnedAway, Late
<1>14. HasSeat(u.sim, i) /\ \A a \in DOMAIN snaps' : HasSeat(snaps'[a], i)
  BY <1>6, <1>8, <1>11
<1>15. Open => \A e : Mine(e) /\ e.loaded =>
          /\ Follows(u.sim, games[inst[slot]].data)
          /\ \A a \in DOMAIN snaps' : Follows(snaps'[a], games[inst[slot]].data)
  BY <1>7, <1>8, <1>11
<1>16. locals' = locals /\ \A a \in DOMAIN snaps' : Follows(u.sim, snaps'[a])
  BY <1>1, <1>10, <1>11
<1>17. /\ u.state = client.state /\ u.loaded /\ u.levelLoaded = client.levelLoaded
       /\ u.token = client.token
       /\ client.gotSim => u.gotSim
       /\ client.gotData => u.gotData
       /\ u.gotData => u.playerIndex = i
       /\ Open => u.gotData \/ locals' # <<>>
  BY <1>3, <1>6, <1>11, <1>13, <1>16
<1>18. locals' \in Seq(Slots) /\ \A l \in DOMAIN locals' : locals'[l] = i
  BY <1>4, <1>6, <1>16
<1>19. UNCHANGED <<vars, mode, frame, slot, toServer, toClient>> /\ mode # "endgame"
  BY <1>1
<1>20. u.gotSim /\ Finalized(u, client')
  BY <1>11
<1>21. QED
  BY <1>3, <1>5, <1>8, <1>9, <1>12, <1>14, <1>15, <1>16, <1>17, <1>18, <1>19, <1>20, LateStep

\* The client's frames change the level and the clocks of what it shows, and
\* nothing that the handshake turns on.
LEMMA FrameStep ==
    ASSUME SessionInv, UNCHANGED <<vars, slot, toServer, toClient, snaps, locals>>,
           client' \in Client(Tokens), client'.state = client.state,
           client'.loaded = client.loaded, client'.gotSim = client.gotSim,
           client'.gotData = client.gotData, client'.token = client.token,
           client'.playerIndex = client.playerIndex,
           client.levelLoaded => client'.levelLoaded,
           client.gotSim => /\ client'.sim.players = client.sim.players
                            /\ client'.sim.started = client.sim.started,
           Modes'
    PROVE  SessionInv'
<1>1. /\ SessionServer'
      /\ UNCHANGED <<conn, inst, games, refused, slot>>
      /\ Open' <=> Open
      /\ \A e : Mine(e)' <=> Mine(e)
  BY ServerRests
<1>2. SessionTypes'
  BY DEF SessionInv, ClientInv, SessionTypes
<1>3. Pipes'
  BY DEF SessionInv, ClientInv, Pipes, Told
<1>4. Received'
  BY DEF SessionInv, ClientInv, Received
<1>5. (Asking' <=> Asking) /\ (TurnedAway' <=> TurnedAway) /\ \A e : Promised(e)' <=> Promised(e)
  <2>1. Asking' <=> Asking
    BY DEF Asking
  <2>2. TurnedAway' <=> TurnedAway
    BY <1>1 DEF TurnedAway
  <2>3. \A e : Promised(e)' <=> Promised(e)
    BY DEF Promised, Told
  <2>4. QED BY <2>1, <2>2, <2>3
<1>6. OnServer'
  BY <1>1, <1>5 DEF SessionInv, PlaceInv, OnServer
<1>7. PICK i \in Slots : SeatedAt(i)
  BY DEF SessionInv, PlaceInv
<1>8. SeatedAt(i)'
  <2>1. client.gotSim => HasSeat(client'.sim, i)
    BY <1>7 DEF SeatedAt, HasSeat
  <2>2. QED BY <1>1, <1>7, <2>1 DEF SeatedAt
<1>9. Chain'
  <2>1. client.gotSim => \A d : Follows(client.sim, d) => Follows(client'.sim, d)
    BY DEF Follows
  <2>2. QED BY <1>1, <2>1 DEF SessionInv, PlaceInv, Chain
<1>10. QED
  BY <1>1, <1>2, <1>3, <1>4, <1>6, <1>7, <1>8, <1>9 DEF SessionInv, ClientInv, PlaceInv

LEMMA LevelStep ==
    ASSUME SessionInv, FinishLoadingLevel
    PROVE  SessionInv'
<1>1. /\ mode # "endgame" /\ ~client.levelLoaded /\ client' = LevelReady(client)
      /\ UNCHANGED <<vars, mode, frame, slot, toServer, toClient, snaps, locals>>
  BY DEF FinishLoadingLevel, serverVars, pipes
<1>2. /\ client' \in Client(Tokens) /\ client'.state = client.state
      /\ client'.loaded = client.loaded /\ client'.gotSim = client.gotSim
      /\ client'.gotData = client.gotData /\ client'.token = client.token
      /\ client'.playerIndex = client.playerIndex /\ client'.levelLoaded
  BY <1>1, NewClientOK DEF LevelReady, SessionInv, ClientInv, SessionTypes, Client
<1>3. ~client.gotSim /\ client.state # "kConnected"
  BY <1>1 DEF SessionInv, ClientInv, Received
<1>4. Modes'
  BY <1>1, <1>2, <1>3 DEF SessionInv, ClientInv, Modes
<1>5. QED
  BY <1>1, <1>2, <1>3, <1>4, FrameStep

LEMMA PredictShape ==
    ASSUME NEW c \in Client(Tokens), NEW p, p = Predict(c)
    PROVE  /\ p \in Client(Tokens) /\ p.state = c.state
           /\ p.loaded = c.loaded /\ p.levelLoaded = c.levelLoaded
           /\ p.gotSim = c.gotSim /\ p.gotData = c.gotData /\ p.token = c.token
           /\ p.playerIndex = c.playerIndex
           /\ p.sim.players = c.sim.players /\ p.sim.started = c.sim.started
<1>1. CASE c.gotSim
  <2>1. c.sim \in Data
    BY DEF Client
  <2>2. /\ UpdateController(c.sim) \in Data
        /\ UpdateController(c.sim).players = c.sim.players
        /\ UpdateController(c.sim).started = c.sim.started
    BY <2>1, PredictionShape
  <2>3. p = [c EXCEPT !.sim = UpdateController(c.sim)]
    BY <1>1 DEF Predict
  <2>4. QED BY <2>2, <2>3 DEF Client
<1>2. CASE ~c.gotSim
  BY <1>2 DEF Predict
<1>3. QED
  BY <1>1, <1>2

LEMMA ConnectingStep ==
    ASSUME SessionInv, ConnectingFrame
    PROVE  SessionInv'
<1>1. /\ mode = "connecting" /\ client' = Predict(client)
      /\ UNCHANGED <<vars, mode, slot, toServer, toClient, snaps, locals>>
  BY DEF ConnectingFrame, BeginUpdate, serverVars, pipes
<1>2. client \in Client(Tokens)
  BY DEF SessionInv, ClientInv, SessionTypes
<1>3. Modes'
  BY <1>1 DEF Modes
<1>4. QED
  BY <1>1, <1>2, <1>3, PredictShape, FrameStep

LEMMA GameplayStep ==
    ASSUME SessionInv, GameplayFrame
    PROVE  SessionInv'
<1>1. mode = "gameplay" /\ UNCHANGED vars /\ client \in Client(Tokens)
  BY DEF GameplayFrame, serverVars, SessionInv, ClientInv, SessionTypes
<1>2. CASE SwitchMode("connecting")
  <2>1. mode' = "connecting" /\ UNCHANGED <<client, slot, toServer, toClient, snaps, locals>>
    BY <1>2 DEF SwitchMode, pipes
  <2>2. Modes'
    BY <2>1 DEF Modes
  <2>3. QED BY <1>1, <2>1, <2>2, FrameStep
<1>3. CASE client' = ConvertToOffline(client) /\ slot' = None /\ ClearPipes
  <2>1. client' = [NewClient EXCEPT !.state = "kDisconnected", !.token = client.token]
    BY <1>3 DEF ConvertToOffline
  <2>2. /\ client' \in Client(Tokens) /\ client'.state = "kDisconnected"
        /\ client'.loaded = NewClient.loaded
        /\ client'.gotSim = NewClient.gotSim /\ client'.gotData = NewClient.gotData
    BY <1>1, <2>1, NewClientOK DEF Client, ConnectionStates
  <2>3. ~client'.loaded /\ ~client'.gotSim /\ ~client'.gotData
    BY <2>2 DEF NewClient
  <2>4. QED BY <1>1, <1>3, <2>2, <2>3, GoneStep
<1>4. CASE BeginUpdate
  <2>1. client' = Predict(client) /\ UNCHANGED <<mode, slot, toServer, toClient, snaps, locals>>
    BY <1>4 DEF BeginUpdate, pipes
  <2>2. /\ client'.state = client.state /\ client'.sim.started = client.sim.started
    BY <1>1, <2>1, PredictShape
  <2>3. Modes'
    BY <2>1, <2>2 DEF SessionInv, ClientInv, Modes
  <2>4. QED BY <1>1, <2>1, <2>3, PredictShape, FrameStep
<1>5. QED
  BY <1>2, <1>3, <1>4 DEF GameplayFrame

LEMMA EndUpdateStep ==
    ASSUME SessionInv, EndUpdate
    PROVE  SessionInv'
<1>1. /\ mode # "endgame" /\ client' = FinishLoading(client)
      /\ toServer' = IF HasFinishedLoading(client)
                     THEN Append(toServer, FinishLoadingMessage(client.token)) ELSE toServer
      /\ mode' = IF client'.state = "kConnected" /\ client'.sim.started THEN "gameplay" ELSE mode
      /\ UNCHANGED <<vars, slot, toClient, snaps, locals>>
  BY DEF EndUpdate, Updating, serverVars
<1>2. client \in Client(Tokens)
  BY DEF SessionInv, ClientInv, SessionTypes
<1>3. CASE ~HasFinishedLoading(client)
  <2>1. client' = client /\ toServer' = toServer
    BY <1>1, <1>3 DEF FinishLoading
  <2>2. Modes'
    BY <1>1, <2>1 DEF SessionInv, ClientInv, Modes
  <2>3. QED BY <1>1, <1>2, <2>1, <2>2, FrameStep
<1>4. CASE HasFinishedLoading(client)
  <2>1. client.state = "kLoading" /\ client.levelLoaded
    BY <1>4 DEF HasFinishedLoading
  <2>2. toServer = <<>> /\ toClient = <<>> /\ client.token \in Tokens
    BY <2>1 DEF SessionInv, ClientInv, Pipes
  <2>3. ~client.gotSim /\ ~client.gotData /\ snaps = <<>> /\ locals = <<>>
    BY <2>1 DEF SessionInv, ClientInv, Received, Early
  <2> DEFINE w == [client EXCEPT !.state = "kWaitingForInitialSync", !.loaded = TRUE]
  <2>4. /\ w \in Client(Tokens) /\ w.state = "kWaitingForInitialSync" /\ w.loaded
        /\ w.levelLoaded = client.levelLoaded /\ w.token = client.token
        /\ w.gotSim = client.gotSim /\ w.gotData = client.gotData
    BY <1>2 DEF Client, ConnectionStates
  <2>5. client' = CheckFinalizeConnect(w)
    BY <1>1, <1>4 DEF FinishLoading
  <2> HIDE DEF w
  <2>6. /\ client' \in Client(Tokens) /\ client'.state = "kWaitingForInitialSync"
        /\ client'.loaded /\ client'.levelLoaded /\ client'.token = client.token
        /\ ~client'.gotSim /\ ~client'.gotData
    BY <2>1, <2>3, <2>4, <2>5, FinalizeShape DEF Finalized
  <2>7. toServer' = <<FinishLoadingMessage(client.token)>> /\ toServer' # <<>>
    BY <1>1, <1>4, <2>2, ShortPipes
  <2>8. /\ SessionServer'
        /\ UNCHANGED <<conn, inst, games, refused, slot>>
        /\ Open' <=> Open
        /\ \A e : Mine(e)' <=> Mine(e)
    BY <1>1, ServerRests
  <2>9. SessionTypes'
    BY <1>1, <2>6 DEF SessionInv, ClientInv, SessionTypes
  <2>10. Modes'
    BY <1>1, <2>1, <2>6 DEF SessionInv, ClientInv, Modes
  <2>11. Pipes'
    BY <1>1, <2>2, <2>6, <2>7 DEF Pipes, Late
  <2>12. Received'
    BY <1>1, <2>3, <2>6 DEF Received, Early
  <2>13. Open => \A e : Mine(e) => Promised(e)' /\ ~e.loaded
    BY <2>1, <2>6, <2>7 DEF SessionInv, PlaceInv, OnServer, Promised, Late
  <2>14. ~Asking /\ ~Asking' /\ ~TurnedAway
    BY <2>1, <2>6 DEF Asking, TurnedAway
  <2>15. OnServer'
    BY <2>8, <2>13, <2>14 DEF SessionInv, PlaceInv, OnServer
  <2>16. PICK i \in Slots : SeatedAt(i)
    BY DEF SessionInv, PlaceInv
  <2>17. DOMAIN snaps = {} /\ DOMAIN locals = {}
    BY <2>3
  <2>18. SeatedAt(i)'
    BY <1>1, <2>6, <2>8, <2>13, <2>17 DEF SeatedAt
  <2>19. Chain'
    BY <1>1, <2>6, <2>8, <2>13, <2>17 DEF Chain, InOrder
  <2>20. QED
    BY <2>8, <2>9, <2>10, <2>11, <2>12, <2>15, <2>16, <2>18, <2>19 DEF SessionInv, ClientInv, PlaceInv
<1>5. QED
  BY <1>3, <1>4

LEMMA PlayOnlineStep ==
    ASSUME SessionInv, PlayOnline
    PROVE  SessionInv'
<1>1. /\ mode = "endgame" /\ client' = NewClient /\ mode' = "connecting"
      /\ UNCHANGED <<vars, frame, slot, toServer, toClient, snaps, locals>>
  BY DEF PlayOnline, serverVars, pipes
<1>2. client.state = "kDisconnected"
  BY <1>1 DEF SessionInv, ClientInv, Modes
<1>3. /\ slot = None /\ toServer = <<>> /\ toClient = <<>> /\ snaps = <<>> /\ locals = <<>>
      /\ DOMAIN snaps = {} /\ DOMAIN locals = {}
  BY <1>2 DEF SessionInv, ClientInv, Pipes
<1>4. /\ client'.state = "kConnecting" /\ ~client'.loaded /\ ~client'.gotSim /\ ~client'.gotData
  BY <1>1 DEF NewClient
<1>5. SessionServer'
  BY <1>1, ServerStutters DEF SessionInv
<1>6. SessionTypes'
  BY <1>1, NewClientOK DEF SessionInv, ClientInv, SessionTypes
<1>7. Modes' /\ Pipes' /\ Received'
  BY <1>1, <1>3, <1>4 DEF Modes, Pipes, Received, Late
<1>8. PICK i \in Slots : SeatedAt(i)
  BY DEF SessionInv, PlaceInv
<1>9. OnServer' /\ SeatedAt(i)' /\ Chain'
  BY <1>1, <1>3, <1>4 DEF OnServer, SeatedAt, Chain, InOrder, Open
<1>10. QED
  BY <1>5, <1>6, <1>7, <1>8, <1>9 DEF SessionInv, ClientInv, PlaceInv

LEMMA SessionStutters ==
    ASSUME SessionInv, UNCHANGED allVars
    PROVE  SessionInv'
<1>1. UNCHANGED vars /\ UNCHANGED sessionVars
  BY DEF allVars
<1>2. slot # None => Keeps(slot)
  BY <1>1, FollowsItself DEF vars, Keeps
<1>3. QED
  BY <1>1, <1>2, ServerStutters, ClientStutters, PlaceIsKept DEF SessionInv

LEMMA SessionStep == SessionInv /\ [SessionNext]_allVars => SessionInv'
  BY AcceptStep, CleanupStep, StartStep, LoseStep, ReceivesStep, TickStep, OthersStep, MessageStep,
     DataStep, SnapshotStep, LevelStep, ConnectingStep, GameplayStep, EndUpdateStep, PlayOnlineStep,
     SessionStutters DEF SessionNext, Frame

LEMMA SessionInvariance == SessionSpec => []SessionInv
  BY SessionStarts, SessionStep, PTL DEF SessionSpec

-----------------------------------------------------------------------------
(* What the invariant says of the client.                                   *)

\* The server has an entry for the client as soon as it has read the question
\* of an open connection that it does not turn away.
LEMMA PlaceOfClient ==
    ASSUME SessionInv, Open, ~Asking, ~TurnedAway
    PROVE  \E e \in Entry :
              /\ Mine(e) /\ Promised(e)
              /\ inst[slot] \in DOMAIN games /\ InList(games[inst[slot]], e)
              /\ Listed(slot, inst[slot]) /\ Live(inst[slot])
              /\ MyEntry(inst[slot]) = e
              /\ IsLoaded(inst[slot]) <=> e.loaded
<1>1. PICK e : Mine(e)
  BY DEF SessionInv, PlaceInv, OnServer
<1>2. Promised(e)
  BY <1>1 DEF SessionInv, PlaceInv, OnServer
<1>3. /\ Listed(slot, inst[slot]) /\ Live(inst[slot])
      /\ games[inst[slot]].entries[EntryOf(games[inst[slot]], slot)] = e
      /\ e \in Entry
  BY <1>1, MyEntryIs DEF Mine, SessionInv
<1>4. MyEntry(inst[slot]) = e /\ (IsLoaded(inst[slot]) <=> e.loaded)
  BY <1>3 DEF MyEntry, IsLoaded, Listed
<1>5. QED
  BY <1>1, <1>2, <1>3, <1>4 DEF Mine, HasIn

\* The handshake of GameNetworkClient and GameInstance never stops half way,
\* whatever is lost, and whoever joins, leaves or is kicked meanwhile.
THEOREM HandshakeGoesOn == SessionSpec => []HandshakeIsNeverLost
<1>1. SessionInv => HandshakeIsNeverLost
  <2> SUFFICES ASSUME SessionInv, Open
               PROVE  /\ client.state = "kJoining" =>
                            \/ Occurs(JoinGame, toServer)
                            \/ \E t \in Tokens : Occurs(LoadLevel(t), toClient)
                            \/ slot \in refused
                      /\ client.state = "kLoading" =>
                            /\ Listed(slot, inst[slot])
                            /\ MyEntry(inst[slot]).token = client.token
                            /\ ~IsLoaded(inst[slot])
                      /\ client.state = "kWaitingForInitialSync" =>
                            \/ Occurs(FinishLoadingMessage(client.token), toServer)
                            \/ IsLoaded(inst[slot]) /\ (client.gotData \/ locals # <<>>)
    BY DEF HandshakeIsNeverLost
  <2>1. CASE client.state = "kJoining"
    <3>1. CASE Asking
      <4>1. toServer = <<Ping, JoinGame>> \/ toServer = <<JoinGame>>
        BY <2>1, <3>1 DEF Asking, SessionInv, ClientInv, Pipes
      <4>2. Occurs(JoinGame, <<Ping, JoinGame>>) /\ Occurs(JoinGame, <<JoinGame>>)
        BY ShortPipes
      <4>3. QED BY <2>1, <4>1, <4>2
    <3>2. CASE TurnedAway
      BY <2>1, <3>2 DEF TurnedAway
    <3>3. CASE ~Asking /\ ~TurnedAway
      <4>1. PICK e \in Entry : Promised(e)
        BY <3>3, PlaceOfClient
      <4>2. Told(e.token) /\ e.token \in Tokens
        BY <2>1, <4>1 DEF Promised, Late, Entry
      <4>3. Occurs(LoadLevel(e.token), <<LoadLevel(e.token)>>)
            /\ Occurs(LoadLevel(e.token), <<Pong, LoadLevel(e.token)>>)
        BY ShortPipes
      <4>4. Occurs(LoadLevel(e.token), toClient)
        BY <4>2, <4>3 DEF Told
      <4>5. QED BY <2>1, <4>2, <4>4
    <3>4. QED BY <3>1, <3>2, <3>3
  <2>2. CASE client.state = "kLoading"
    <3>1. ~Asking /\ ~TurnedAway
      BY <2>2 DEF Asking, TurnedAway
    <3>2. PICK e \in Entry :
            /\ Promised(e) /\ Listed(slot, inst[slot]) /\ MyEntry(inst[slot]) = e
            /\ IsLoaded(inst[slot]) <=> e.loaded
      BY <3>1, PlaceOfClient
    <3>3. client.token = e.token /\ ~e.loaded
      BY <2>2, <3>2 DEF Promised, Late
    <3>4. QED BY <2>2, <3>2, <3>3
  <2>3. CASE client.state = "kWaitingForInitialSync"
    <3>1. CASE toServer # <<>>
      <4>1. toServer = <<FinishLoadingMessage(client.token)>>
        BY <2>3, <3>1 DEF SessionInv, ClientInv, Pipes, Late
      <4>2. QED BY <2>3, <4>1, ShortPipes
    <3>2. CASE toServer = <<>>
      <4>1. ~Asking /\ ~TurnedAway
        BY <2>3 DEF Asking, TurnedAway
      <4>2. PICK e \in Entry : Promised(e) /\ (IsLoaded(inst[slot]) <=> e.loaded)
        BY <4>1, PlaceOfClient
      <4>3. e.loaded /\ (client.gotData \/ locals # <<>>)
        BY <2>3, <3>2, <4>2 DEF Promised
      <4>4. QED BY <2>3, <4>2, <4>3
    <3>3. QED BY <3>1, <3>2
  <2>4. QED
    BY <2>1, <2>2, <2>3
<1>2. QED
  BY SessionInvariance, <1>1, PTL

\* A connected client and the server agree on who it is.
LEMMA ConnectedHasPlace ==
    ASSUME SessionInv, client.state = "kConnected"
    PROVE  /\ client.gotSim /\ client.gotData
           /\ Open => \E e \in Entry :
                 /\ Mine(e) /\ e.loaded /\ IsLoaded(inst[slot]) /\ MyEntry(inst[slot]) = e
<1>1. client.gotSim /\ client.gotData /\ toServer = <<>>
  BY DEF SessionInv, ClientInv, Received
<1>2. ASSUME Open
      PROVE  \E e \in Entry :
                /\ Mine(e) /\ e.loaded /\ IsLoaded(inst[slot]) /\ MyEntry(inst[slot]) = e
  <2>1. ~Asking /\ ~TurnedAway
    BY DEF Asking, TurnedAway
  <2>2. PICK e \in Entry :
          /\ Mine(e) /\ Promised(e) /\ MyEntry(inst[slot]) = e
          /\ IsLoaded(inst[slot]) <=> e.loaded
    BY <1>2, <2>1, PlaceOfClient
  <2>3. e.loaded
    BY <1>1, <2>2 DEF Promised
  <2>4. QED BY <2>2, <2>3
<1>3. QED
  BY <1>1, <1>2

\* The player index a connected client holds names its own slot, in the match it
\* shows and on the server, so GameModeEndGame finds the player it looks up.
THEOREM ConnectedClientAlwaysOwnsItsSlot == SessionSpec => []ConnectedClientOwnsItsSlot
<1>1. SessionInv => ConnectedClientOwnsItsSlot
  <2> SUFFICES ASSUME SessionInv, client.state = "kConnected"
               PROVE  /\ HasSeat(client.sim, client.playerIndex)
                      /\ Open => IsLoaded(inst[slot]) /\ MyEntry(inst[slot]).index = client.playerIndex
    BY DEF ConnectedClientOwnsItsSlot, HasSeat
  <2>1. PICK i \in Slots : SeatedAt(i)
    BY DEF SessionInv, PlaceInv
  <2>2. client.gotSim /\ client.gotData
    BY ConnectedHasPlace
  <2>3. client.playerIndex = i /\ HasSeat(client.sim, i)
    BY <2>1, <2>2 DEF SeatedAt
  <2>4. ASSUME Open PROVE IsLoaded(inst[slot]) /\ MyEntry(inst[slot]).index = i
    BY <2>1, <2>4, ConnectedHasPlace DEF SeatedAt
  <2>5. QED BY <2>3, <2>4
<1>2. QED
  BY SessionInvariance, <1>1, PTL

\* GameModeOnlineGameplay never falls back on a snapshot that came late.
THEOREM GameplayAlwaysKeepsItsMatch == SessionSpec => []GameplayKeepsItsMatch
<1>1. SessionInv => GameplayKeepsItsMatch
  BY DEF SessionInv, ClientInv, Modes, GameplayKeepsItsMatch
<1>2. QED
  BY SessionInvariance, <1>1, PTL

\* What a connected client shows of a match that has started, the server has,
\* except for those who have left.
THEOREM ClientAlwaysShowsMatchOfServer == SessionSpec => []ClientShowsMatchOfServer
<1>1. SessionInv => ClientShowsMatchOfServer
  <2> SUFFICES ASSUME SessionInv, client.state = "kConnected", Open, client.sim.started
               PROVE  LET data == games[inst[slot]].data IN
                      /\ data.started
                      /\ \A i \in DOMAIN data.players :
                            i \in DOMAIN client.sim.players /\ client.sim.players[i] = data.players[i]
    BY DEF ClientShowsMatchOfServer
  <2>1. client.gotSim /\ \E e \in Entry : Mine(e) /\ e.loaded
    BY ConnectedHasPlace
  <2>2. Follows(client.sim, games[inst[slot]].data)
    BY <2>1 DEF SessionInv, PlaceInv, Chain
  <2>3. QED BY <2>2 DEF Follows
<1>2. QED
  BY SessionInvariance, <1>1, PTL
=============================================================================
