-------------------------- MODULE PipelinesProofs --------------------------
(* Theorems about Pipelines, for every value of its constants.              *)
EXTENDS Pipelines, TLAPS

-----------------------------------------------------------------------------
(* Types.                                                                   *)

\* Every generation up to the current one has been built from a configuration.
GenerationsBuilt == \A g \in Gen : g <= current => config[g] \in Config

Busy(q) == q.at \notin {"idle", "done"}

\* A request is in the generation it arrived in, and where it is in a pipeline exists.
Placed(q) ==
    /\ Busy(q) => q.gen <= current /\ q.born = config[q.gen]
    /\ q.pipe # 0 => /\ Busy(q)
                     /\ q.pipe \in DOMAIN Pipes[q.born]
                     /\ q.pos \in {0} \cup Steps(q.born, q.pipe)
    /\ q.at \in {"inside", "acting"} => q.pipe # 0
    /\ q.at = "acting" => q.pos # 0

TypeInv == TypeOK /\ GenerationsBuilt /\ \A r \in Req : Placed(request[r])

\* The places of a configuration are within the bounds.
LEMMA PlacesBounded ==
    ASSUME NEW c \in Config, NEW k \in DOMAIN Pipes[c]
    PROVE  /\ k \in 1..MaxPipelines
           /\ Pipes[c][k] \in Pipeline
           /\ \A i \in Steps(c, k) : /\ i \in 1..MaxSteps
                                     /\ StepAt(c, k, i) \in Step
                                     /\ \A g \in Gen : <<g, k, i>> \in Slot
           /\ \E n \in Nat : Steps(c, k) = 1..n
<1>1. Pipes[c] \in Seq(Pipeline) /\ DOMAIN Pipes[c] \subseteq 1..MaxPipelines /\ Steps(c, k) \subseteq 1..MaxSteps
  BY PipelinesAssumption
<1>2. Pipes[c][k] \in Pipeline
  BY <1>1
<1>3. Pipes[c][k].steps \in Seq(Step)
  BY <1>2 DEF Pipeline
<1>4. Steps(c, k) = 1..Len(Pipes[c][k].steps) /\ Len(Pipes[c][k].steps) \in Nat
  BY <1>3 DEF Steps
<1>5. \A i \in Steps(c, k) : StepAt(c, k, i) \in Step
  BY <1>3, <1>4 DEF StepAt
<1>. QED
  BY <1>1, <1>2, <1>4, <1>5 DEF Slot

\* A generation before the current one, or the current one.
LEMMA GenTyped ==
    ASSUME NEW g \in Gen
    PROVE  g \in Nat /\ 1 <= g /\ g <= MaxGens /\ MaxGens \in Nat
  BY PipelinesAssumption DEF Gen

\* The schemas that a bootstrap registers are schemas.
LEMMA AskedTyped ==
    ASSUME NEW c \in Config
    PROVE  Asked(c) \subseteq Schema
<1>. SUFFICES ASSUME NEW p \in (1..MaxPipelines) \X (1..MaxSteps), p[1] \in DOMAIN Pipes[c], p[2] \in Steps(c, p[1]),
                     StepAt(c, p[1], p[2]).schema # None
              PROVE  StepAt(c, p[1], p[2]).schema \in Schema
  BY DEF Asked
<1>1. StepAt(c, p[1], p[2]) \in Step
  BY PlacesBounded
<1>. QED
  BY <1>1 DEF Step

\* A layer is mounted at a time, or not at all.
LEMMA MountedTyped ==
    ASSUME NEW c, NEW k, NEW i, NEW kn
    PROVE  Mounted(c, k, i, kn) \in Nat
  BY DEF Mounted

\* The first generation is typed.
LEMMA InitTyped == Init => TypeInv
<1>. SUFFICES ASSUME Init PROVE TypeInv
  OBVIOUS
<1>1. PICK c \in Config :
         /\ config = [g \in Gen |-> IF g = 1 THEN c ELSE None]
         /\ added = Asked(c) /\ known = Asked(c) \ Remote
         /\ rank = [s \in Slot |->
              IF s[1] = 1 /\ s[2] \in DOMAIN Pipes[c] /\ s[3] \in Steps(c, s[2])
              THEN Mounted(c, s[2], s[3], Asked(c) \ Remote) ELSE 0]
  BY DEF Init
<1>2. MaxGens \in Nat \ {0} /\ MaxUrls \in Nat \ {0}
  BY PipelinesAssumption
<1>3. config \in [Gen -> Config \cup {None}] /\ current \in Gen /\ clock \in Nat /\ up \in BOOLEAN
  BY <1>1, <1>2 DEF Init, Gen
<1>4. added \subseteq Schema /\ known \subseteq added
  BY <1>1, AskedTyped
<1>5. rank \in [Slot -> Nat]
  BY <1>1, MountedTyped
<1>6. turn \in [Slot -> Url] /\ sent \in [Slot -> [Url -> Nat]]
  BY <1>2 DEF Init, Url
<1>7. Idle \in Request /\ Placed(Idle)
  BY <1>2, PipelinesAssumption DEF Idle, Request, Placed, Busy, Gen
<1>8. GenerationsBuilt
  BY <1>1, GenTyped DEF GenerationsBuilt, Init
<1>. QED
  BY <1>3, <1>4, <1>5, <1>6, <1>7, <1>8 DEF TypeInv, TypeOK, Init

\* A process that ends leaves what is typed typed.
LEMMA StopTyped == TypeInv /\ Stop => TypeInv'
<1>. SUFFICES ASSUME TypeInv, Stop PROVE TypeInv'
  OBVIOUS
<1>0. {MaxGens, MaxPipelines, MaxSteps} \subseteq Nat \ {0}
  BY PipelinesAssumption
<1>1. Idle \in Request /\ Done \in Request
  <2>1. 1 \in Gen /\ 0 \in 0..MaxPipelines /\ 0 \in 0..MaxSteps
    BY <1>0 DEF Gen
  <2>2. Idle \in Request
    BY <2>1 DEF Idle, Request
  <2>3. Done \in Request
    BY <2>1 DEF Done, Idle, Request
  <2>. QED
    BY <2>2, <2>3
<1>2. Placed(Idle)' /\ Placed(Done)'
  BY DEF Idle, Done, Placed, Busy
<1>3. \A r \in Req : request'[r] \in {Idle, Done}
  BY DEF Stop
<1>4. request' \in [Req -> Request] /\ \A r \in Req : Placed(request[r])'
  BY <1>1, <1>2, <1>3 DEF Stop
<1>. QED
  BY <1>4 DEF TypeInv, TypeOK, Stop, balance, GenerationsBuilt

\* A new generation is typed, and no request notices it.
LEMMA InstallTyped ==
    ASSUME TypeInv, NEW c \in Config, NEW kn, current < MaxGens, Install(c, current + 1, kn)
    PROVE  /\ current' \in Gen /\ config' \in [Gen -> Config \cup {None}] /\ rank' \in [Slot -> Nat]
           /\ GenerationsBuilt'
           /\ \A g \in Gen : g <= current => g <= current' /\ config'[g] = config[g]
<1>1. current + 1 \in Gen /\ current \in Nat
  BY GenTyped DEF TypeInv, TypeOK, Gen
<1>2. current' = current + 1 /\ config' = [config EXCEPT ![current + 1] = c]
  BY DEF Install
<1>3. config \in [Gen -> Config \cup {None}] /\ rank \in [Slot -> Nat]
  BY DEF TypeInv, TypeOK
<1>4. rank' \in [Slot -> Nat]
  BY <1>3, MountedTyped DEF Install
<1>5. \A g \in Gen : g <= current => g # current + 1 /\ config'[g] = config[g]
  BY <1>1, <1>2, <1>3, GenTyped
<1>6. GenerationsBuilt'
  BY <1>1, <1>2, <1>3, <1>5, GenTyped DEF TypeInv, GenerationsBuilt
<1>. QED
  BY <1>1, <1>2, <1>3, <1>4, <1>5, <1>6, GenTyped

\* Requests that stay, in generations that stay, are placed where they were.
LEMMA PlacedStays ==
    ASSUME TypeInv, NEW q \in Request, Placed(q), current \in Nat, current' \in Nat, current <= current',
           \A g \in Gen : g <= current => config'[g] = config[g]
    PROVE  Placed(q)'
<1>1. q.gen \in Gen /\ q.gen \in Nat
  BY GenTyped DEF Request
<1>. QED
  BY <1>1 DEF Placed, Busy

\* A reload.
LEMMA LoadTyped ==
    ASSUME TypeInv, NEW c \in Config, Load(c)
    PROVE  TypeInv'
<1>1. CASE Clash(added, Asked(c))
  BY <1>1, StopTyped DEF Load
<1>2. ASSUME ~Clash(added, Asked(c)) PROVE TypeInv'
  <2>1. added' = added \cup Asked(c) /\ known' = known \cup (Asked(c) \ Remote) /\ UNCHANGED <<up, clock, turn, sent, request>>
    BY <1>2 DEF Load, balance
  <2>2. added' \subseteq Schema /\ known' \subseteq added'
    BY <2>1, AskedTyped DEF TypeInv, TypeOK
  <2>3. current \in Nat /\ current < MaxGens
    BY GenTyped DEF Load, TypeInv, TypeOK
  <2>4. /\ current' \in Gen /\ config' \in [Gen -> Config \cup {None}] /\ rank' \in [Slot -> Nat]
        /\ GenerationsBuilt' /\ current <= current'
        /\ \A g \in Gen : g <= current => config'[g] = config[g]
    <3>1. CASE Throws(c)
      BY <3>1, <1>2, <2>3 DEF Load, TypeInv, TypeOK, GenerationsBuilt
    <3>2. CASE ~Throws(c)
      <4>1. Install(c, current + 1, known')
        BY <3>2, <1>2 DEF Load
      <4>2. current' = current + 1
        BY <4>1 DEF Install
      <4>3. /\ current' \in Gen /\ config' \in [Gen -> Config \cup {None}] /\ rank' \in [Slot -> Nat]
            /\ GenerationsBuilt'
            /\ \A g \in Gen : g <= current => config'[g] = config[g]
        BY <4>1, <2>3, InstallTyped
      <4>. QED
        BY <4>2, <4>3, <2>3
    <3>. QED
      BY <3>1, <3>2
  <2>5. current' \in Nat
    BY <2>4, GenTyped
  <2>6. \A r \in Req : Placed(request[r])'
    BY <2>1, <2>3, <2>4, <2>5, PlacedStays DEF TypeInv, TypeOK
  <2>. QED
    BY <2>1, <2>2, <2>4, <2>6 DEF TypeInv, TypeOK
<1>. QED
  BY <1>1, <1>2

\* A start.
LEMMA StartTyped ==
    ASSUME TypeInv, NEW c \in Config, Start(c)
    PROVE  TypeInv'
<1>1. added' \subseteq Schema /\ known' \subseteq added' /\ up' \in BOOLEAN
  BY AskedTyped DEF Start
<1>2. current \in Nat /\ current < MaxGens /\ Install(c, current + 1, known')
  BY GenTyped DEF Start, TypeInv, TypeOK
<1>3. current' = current + 1
  BY <1>2 DEF Install
<1>4. \A r \in Req : Placed(request[r])'
  BY <1>2, <1>3, InstallTyped, PlacedStays DEF Start, TypeInv, TypeOK
<1>. QED
  BY <1>1, <1>2, <1>4, InstallTyped DEF Start, balance, TypeInv, TypeOK

\* A schema arrives.
LEMMA FetchedTyped ==
    ASSUME TypeInv, NEW s \in Schema, Fetched(s)
    PROVE  TypeInv'
<1>1. known' \subseteq added /\ clock' \in Nat
  BY DEF Fetched, TypeInv, TypeOK
<1>2. rank' \in [Slot -> Nat]
  BY <1>1 DEF Fetched, TypeInv, TypeOK
<1>3. current \in Nat
  BY GenTyped DEF TypeInv, TypeOK
<1>4. \A r \in Req : Placed(request[r])'
  BY <1>3, PlacedStays DEF Fetched, TypeInv, TypeOK
<1>. QED
  BY <1>1, <1>2, <1>4 DEF Fetched, balance, TypeInv, TypeOK, GenerationsBuilt

-----------------------------------------------------------------------------
(* Requests.                                                                *)

\* A request moves on, and all else but the balancers stays.
Moved(r, q) == q \in Request /\ Placed(q) /\ request' = [request EXCEPT ![r] = q] /\ UNCHANGED build

\* What it is then is typed.
LEMMA MovedTyped ==
    ASSUME TypeInv, NEW r \in Req, NEW q, Moved(r, q), turn' \in [Slot -> Url], sent' \in [Slot -> [Url -> Nat]]
    PROVE  TypeInv'
<1>1. UNCHANGED <<current, config>> /\ request' \in [Req -> Request]
  BY DEF Moved, build, TypeInv, TypeOK
<1>2. \A x \in Req : request'[x] \in {request[x], q}
  BY DEF Moved, TypeInv, TypeOK
<1>3. \A x \in Req : Placed(request'[x])
  BY <1>2 DEF Moved, TypeInv
<1>4. \A x \in Req : Placed(request[x])'
  BY <1>1, <1>3 DEF Placed, Busy
<1>. QED
  BY <1>1, <1>4 DEF Moved, build, TypeInv, TypeOK, GenerationsBuilt

\* The configuration of a request under way.
LEMMA ConfOf ==
    ASSUME TypeInv, NEW r \in Req, Busy(request[r])
    PROVE  /\ Conf(request[r]) = request[r].born
           /\ request[r].born \in Config
           /\ request[r] \in Request
           /\ request[r].gen \in Gen
<1>1. request[r] \in Request /\ Placed(request[r])
  BY DEF TypeInv, TypeOK
<1>2. request[r].gen \in Gen
  BY <1>1 DEF Request
<1>. QED
  BY <1>1, <1>2 DEF TypeInv, GenerationsBuilt, Placed, Conf, RouterOf

\* Nothing is left of a request that is done.
LEMMA DoneTyped == Done \in Request /\ Placed(Done)
<1>1. {MaxGens, MaxPipelines, MaxSteps} \subseteq Nat \ {0}
  BY PipelinesAssumption
<1>2. 1 \in Gen /\ 0 \in 0..MaxPipelines /\ 0 \in 0..MaxSteps
  BY <1>1 DEF Gen
<1>3. Done \in Request
  BY <1>2 DEF Done, Idle, Request
<1>4. Placed(Done)
  BY DEF Done, Idle, Placed, Busy
<1>. QED
  BY <1>3, <1>4

\* A request that arrives.
LEMMA ArriveMoves ==
    ASSUME TypeInv, NEW r \in Req, NEW m, Arrive(r, m)
    PROVE  \E q : Moved(r, q) /\ q.pipe = 0 /\ q.at = "routing" /\ q.gen = current
<1>. DEFINE z == [Idle EXCEPT !.at = "routing", !.gen = current, !.born = config[current], !.matches = m]
<1>1. current \in Gen /\ config[current] \in Config /\ current <= current
  BY GenTyped DEF TypeInv, TypeOK, GenerationsBuilt
<1>2. m \subseteq Nat
  BY <1>1, PipelinesAssumption DEF Arrive
<1>3. /\ z.at = "routing" /\ z.gen = current /\ z.born = config[current] /\ z.matches = m
      /\ z.tried = {} /\ z.route = 0 /\ z.pipe = 0 /\ z.pos = 0 /\ z.met = {} /\ z.whole = FALSE
  BY DEF Idle
<1>4. 0 \in 0..MaxPipelines /\ 0 \in 0..MaxSteps
  BY PipelinesAssumption
<1>5. z \in Request
  BY <1>1, <1>2, <1>4 DEF Idle, Request
<1>6. Placed(z)
  BY <1>1, <1>3 DEF Placed, Busy
<1>. QED
  BY <1>3, <1>5, <1>6 DEF Arrive, Moved

\* A request that takes a route: it is done, or at the beginning of a pipeline.
Began(q, z) ==
    \/ z = Done
    \/ /\ z.at = "inside" /\ z.gen = q.gen /\ z.born = q.born /\ z.matches = q.matches
       /\ z.pos = 0 /\ z.met = {} /\ z.pipe # 0
       /\ z.whole = \A i \in Steps(q.born, z.pipe) : rank[<<q.gen, z.pipe, i>>] > 0

\* Taking a route is such a step.
LEMMA TakeRouteMoves ==
    ASSUME TypeInv, NEW r \in Req, TakeRoute(r)
    PROVE  \E z : Moved(r, z) /\ Began(request[r], z)
<1>. DEFINE q == request[r]  c == Conf(q)
<1>1. Busy(q)
  BY DEF TakeRoute, Busy
<1>2. c = q.born /\ c \in Config /\ q \in Request /\ Placed(q) /\ q.gen \in Gen
  BY <1>1, ConfOf DEF TypeInv
<1>3. CASE request' = [request EXCEPT ![r] = Done]
  BY <1>3, DoneTyped DEF TakeRoute, Moved, Began
<1>4. ASSUME NEW n \in Left(q), NEW k \in PipelineOf(c, n), k # 0,
             request' = [request EXCEPT ![r] =
                   [@ EXCEPT !.at = "inside", !.route = n, !.pipe = k, !.pos = 0, !.met = {},
                           !.whole = \A i \in Steps(c, k) : rank[<<RouterOf(q), k, i>>] > 0]]
      PROVE  \E z : Moved(r, z) /\ Began(request[r], z)
  <2>. DEFINE w == \A i \in Steps(c, k) : rank[<<RouterOf(q), k, i>>] > 0
              z == [q EXCEPT !.at = "inside", !.route = n, !.pipe = k, !.pos = 0, !.met = {}, !.whole = w]
  <2>1. k \in DOMAIN Pipes[c]
    BY <1>4 DEF PipelineOf
  <2>2. k \in 0..MaxPipelines /\ 0 \in 0..MaxSteps /\ k # 0
    BY <2>1, <1>2, PlacesBounded, PipelinesAssumption
  <2>3. n \in Nat
    BY <1>2, <1>4 DEF Left, Request
  <2>4. w \in BOOLEAN
    OBVIOUS
  <2>5. request' = [request EXCEPT ![r] = z]
    BY <1>4, <1>2 DEF TypeInv, TypeOK
  <2>. HIDE DEF w
  <2>6. /\ z.at = "inside" /\ z.gen = q.gen /\ z.born = q.born /\ z.matches = q.matches
        /\ z.pipe = k /\ z.pos = 0 /\ z.met = {} /\ z.whole = w
    BY <1>2 DEF Request
  <2>7. z \in Request
    BY <1>2, <2>2, <2>3, <2>4 DEF Request
  <2>. HIDE DEF z
  <2>8. Placed(z)
    BY <1>1, <1>2, <2>1, <2>2, <2>6 DEF Placed, Busy
  <2>9. Moved(r, z)
    BY <2>5, <2>7, <2>8 DEF Moved, TakeRoute
  <2>10. Began(q, z)
    BY <2>6, <1>2, <1>4 DEF Began, w, RouterOf
  <2>. HIDE DEF q
  <2>. QED
    BY <2>9, <2>10 DEF q
<1>. QED
  BY <1>3, <1>4 DEF TakeRoute

\* A request at a layer, or past it.
Reached(q, z, j) ==
    /\ j \in Nearest(q)
    /\ z.at \in {"inside", "acting"} /\ z.gen = q.gen /\ z.born = q.born /\ z.pipe = q.pipe /\ z.pos = j
    /\ z.met = q.met \cup {<<q.born, q.pipe, j>>} /\ z.whole = q.whole /\ z.pipe # 0

\* A layer that lies ahead is one of the pipeline's.
LEMMA NearestIsStep ==
    ASSUME TypeInv, NEW r \in Req, request[r].at = "inside", NEW j \in Nearest(request[r])
    PROVE  /\ request[r].pipe \in DOMAIN Pipes[request[r].born]
           /\ j \in Steps(request[r].born, request[r].pipe)
           /\ <<request[r].gen, request[r].pipe, j>> \in Slot
           /\ <<request[r].born, request[r].pipe, j>> \in Config \X (1..MaxPipelines) \X (1..MaxSteps)
<1>1. Busy(request[r])
  BY DEF Busy
<1>2. j \in Steps(request[r].born, request[r].pipe)
  BY <1>1, ConfOf DEF Nearest, Ahead
<1>3. request[r].pipe \in DOMAIN Pipes[request[r].born]
  BY <1>1 DEF TypeInv, Placed
<1>. QED
  BY <1>1, <1>2, <1>3, ConfOf, PlacesBounded

\* Where the request is when it has reached a layer, inside or acting.
LEMMA ReachMoves ==
    ASSUME TypeInv, NEW r \in Req, request[r].at = "inside", NEW j \in Nearest(request[r]),
           NEW at \in {"inside", "acting"}, UNCHANGED build,
           request' = [request EXCEPT ![r] = [At(request[r], j) EXCEPT !.at = at]]
    PROVE  \E z : Moved(r, z) /\ Reached(request[r], z, j)
<1>. DEFINE q == request[r]  z == [At(q, j) EXCEPT !.at = at]
<1>1. Busy(q) /\ q \in Request /\ Placed(q) /\ Conf(q) = q.born /\ q.born \in Config /\ q.pipe # 0
  BY ConfOf DEF Busy, TypeInv, TypeOK, Placed
<1>2. /\ q.pipe \in DOMAIN Pipes[q.born] /\ j \in Steps(q.born, q.pipe)
      /\ <<q.born, q.pipe, j>> \in Config \X (1..MaxPipelines) \X (1..MaxSteps)
  BY NearestIsStep
<1>3. j \in 1..MaxSteps /\ j \in 0..MaxSteps /\ j # 0
  BY <1>1, <1>2, PlacesBounded, PipelinesAssumption
<1>4. /\ z.at = at /\ z.gen = q.gen /\ z.born = q.born /\ z.matches = q.matches /\ z.pipe = q.pipe
      /\ z.pos = j /\ z.met = q.met \cup {<<q.born, q.pipe, j>>} /\ z.whole = q.whole
  BY <1>1 DEF At, Request
<1>5. z \in Request
  BY <1>1, <1>2, <1>3 DEF At, Request
<1>. HIDE DEF z
<1>6. Placed(z)
  BY <1>1, <1>2, <1>3, <1>4 DEF Placed, Busy
<1>7. Moved(r, z) /\ Reached(q, z, j)
  BY <1>1, <1>4, <1>5, <1>6 DEF Moved, Reached, z
<1>. HIDE DEF q
<1>. QED
  BY <1>7 DEF q

\* A condition that does not hold.
LEMMA SkipMoves ==
    ASSUME TypeInv, NEW r \in Req, Skip(r)
    PROVE  \E z, j : Moved(r, z) /\ Reached(request[r], z, j) /\ UNCHANGED balance
<1>1. PICK j \in Nearest(request[r]) : request' = [request EXCEPT ![r] = At(@, j)]
  BY DEF Skip
<1>2. request[r].at = "inside" /\ request[r] \in Request
  BY DEF Skip, TypeInv, TypeOK
<1>3. At(request[r], j) = [At(request[r], j) EXCEPT !.at = "inside"]
  BY <1>2 DEF At, Request
<1>4. request' = [request EXCEPT ![r] = [At(request[r], j) EXCEPT !.at = "inside"]]
  BY <1>1, <1>3 DEF TypeInv, TypeOK
<1>5. UNCHANGED build /\ UNCHANGED balance
  BY DEF Skip
<1>. QED
  BY <1>2, <1>4, <1>5, ReachMoves

\* A policy that acts.
LEMMA EnterMoves ==
    ASSUME TypeInv, NEW r \in Req, Enter(r)
    PROVE  \E z : \E j \in Nearest(request[r]) :
             /\ Moved(r, z) /\ Reached(request[r], z, j)
             /\ LET s == <<request[r].gen, request[r].pipe, j>>  n == StepOf(request[r], j).urls IN
                  IF n = 0 THEN UNCHANGED balance
                  ELSE /\ turn' = [turn EXCEPT ![s] = NextTurn(@, n)]
                       /\ sent' = [sent EXCEPT ![s][turn[s]] = @ + 1]
<1>1. PICK j \in Nearest(request[r]) :
             /\ request' = [request EXCEPT ![r] = [At(@, j) EXCEPT !.at = "acting"]]
             /\ LET s == <<request[r].gen, request[r].pipe, j>>  n == StepOf(request[r], j).urls IN
                  IF n = 0 THEN UNCHANGED balance
                  ELSE /\ turn' = [turn EXCEPT ![s] = NextTurn(@, n)]
                       /\ sent' = [sent EXCEPT ![s][turn[s]] = @ + 1]
  BY DEF Enter, RouterOf
<1>2. request[r].at = "inside" /\ UNCHANGED build
  BY DEF Enter
<1>3. request' = [request EXCEPT ![r] = [At(request[r], j) EXCEPT !.at = "acting"]]
  BY <1>1 DEF TypeInv, TypeOK
<1>4. PICK z : Moved(r, z) /\ Reached(request[r], z, j)
  BY <1>2, <1>3, ReachMoves
<1>. QED
  BY <1>1, <1>4

\* A request that is done: its condition failed, or a policy answered.
LEMMA EndMoves ==
    ASSUME TypeInv, NEW r \in Req, UNCHANGED <<build, balance>>, request' = [request EXCEPT ![r] = Done]
    PROVE  Moved(r, Done)
  BY DoneTyped DEF Moved

\* A policy that calls next().
LEMMA ReturnMoves ==
    ASSUME TypeInv, NEW r \in Req, Return(r)
    PROVE  /\ UNCHANGED balance
           /\ \/ Moved(r, Done)
              \/ /\ request[r].at = "acting"
                 /\ Moved(r, [request[r] EXCEPT !.at = "inside"])
<1>. DEFINE q == request[r]  z == [q EXCEPT !.at = "inside"]
<1>1. q \in Request /\ Placed(q) /\ q.at = "acting"
  BY DEF Return, TypeInv, TypeOK
<1>2. z \in Request /\ z.at = "inside" /\ z.gen = q.gen /\ z.born = q.born /\ z.pipe = q.pipe /\ z.pos = q.pos
  BY <1>1 DEF Request
<1>3. Placed(z)
  BY <1>1, <1>2 DEF Placed, Busy
<1>4. request' = [request EXCEPT ![r] = z] \/ request' = [request EXCEPT ![r] = Done]
  BY DEF Return
<1>. QED
  BY <1>1, <1>2, <1>3, <1>4, DoneTyped DEF Return, Moved

\* A request that falls out of a pipeline.
LEMMA FallMoves ==
    ASSUME TypeInv, NEW r \in Req, Fall(r)
    PROVE  /\ UNCHANGED balance
           /\ request[r].at = "inside" /\ Ahead(request[r]) = {}
           /\ Moved(r, [request[r] EXCEPT !.at = "routing", !.tried = @ \cup {request[r].route}])
<1>. DEFINE q == request[r]  z == [q EXCEPT !.at = "routing", !.tried = @ \cup {q.route}]
<1>1. q \in Request /\ Placed(q) /\ q.at = "inside" /\ Ahead(q) = {}
  BY DEF Fall, TypeInv, TypeOK
<1>2. z.at = "routing" /\ z.gen = q.gen /\ z.born = q.born /\ z.pipe = q.pipe /\ z.pos = q.pos
  BY <1>1 DEF Request
<1>3. z \in Request
  BY <1>1 DEF Request
<1>4. Placed(z)
  BY <1>1, <1>2 DEF Placed, Busy
<1>5. request' = [request EXCEPT ![r] = z]
  BY <1>1 DEF Fall, TypeInv, TypeOK
<1>. QED
  BY <1>1, <1>3, <1>4, <1>5 DEF Fall, Moved

\* A request that stays where it is in its pipeline: a policy called next(), or none is left.
Stayed(q, z) ==
    /\ z.gen = q.gen /\ z.born = q.born /\ z.pipe = q.pipe /\ z.pos = q.pos
    /\ z.met = q.met /\ z.whole = q.whole
    /\ \/ z.at = "inside" /\ q.at = "acting"
       \/ z.at = "routing" /\ q.at = "inside" /\ Ahead(q) = {}

\* The balancer of a layer that a request enters, if it has one, takes its turn.
Turned(q, j) ==
    LET s == <<q.gen, q.pipe, j>>  n == StepOf(q, j).urls IN
        /\ n # 0
        /\ turn' = [turn EXCEPT ![s] = NextTurn(@, n)]
        /\ sent' = [sent EXCEPT ![s][turn[s]] = @ + 1]

\* What a step of a request comes to.
RequestStep(r, z) ==
    /\ Moved(r, z)
    /\ \/ UNCHANGED balance
       \/ \E j \in Nearest(request[r]) : Turned(request[r], j) /\ request[r].at = "inside"
    /\ \/ z = Done
       \/ z.at = "routing" /\ z.pipe = 0 /\ z.gen = current
       \/ Began(request[r], z) /\ Busy(request[r])
       \/ \E j : Reached(request[r], z, j) /\ request[r].at = "inside"
       \/ Stayed(request[r], z)

\* Every step of a request is one of these.
LEMMA RequestSteps ==
    ASSUME TypeInv, NEW r \in Req, Advance(r) \/ \E m : Arrive(r, m)
    PROVE  \E z : RequestStep(r, z)
<1>1. ASSUME NEW m, Arrive(r, m) PROVE \E z : RequestStep(r, z)
  <2>1. UNCHANGED balance
    BY <1>1 DEF Arrive
  <2>. QED
    BY <1>1, <2>1, ArriveMoves DEF RequestStep
<1>2. CASE TakeRoute(r)
  <2>1. UNCHANGED balance /\ Busy(request[r])
    BY <1>2 DEF TakeRoute, Busy
  <2>. QED
    BY <1>2, <2>1, TakeRouteMoves DEF RequestStep
<1>3. CASE Skip(r)
  <2>1. request[r].at = "inside"
    BY <1>3 DEF Skip
  <2>. QED
    BY <1>3, <2>1, SkipMoves DEF RequestStep
<1>4. CASE FailCondition(r)
  <2>1. request' = [request EXCEPT ![r] = Done] /\ UNCHANGED <<build, balance>>
    BY <1>4 DEF FailCondition
  <2>. QED
    BY <2>1, EndMoves DEF RequestStep
<1>5. CASE Enter(r)
  <2>1. request[r].at = "inside"
    BY <1>5 DEF Enter
  <2>2. PICK z : \E j \in Nearest(request[r]) :
             /\ Moved(r, z) /\ Reached(request[r], z, j)
             /\ UNCHANGED balance \/ Turned(request[r], j)
    BY <1>5, EnterMoves DEF Turned
  <2>. QED
    BY <2>1, <2>2 DEF RequestStep
<1>6. CASE Return(r)
  <2>. DEFINE z == [request[r] EXCEPT !.at = "inside"]
  <2>1. request[r].at = "acting" => Stayed(request[r], z)
    BY DEF Stayed, TypeInv, TypeOK, Request
  <2>. HIDE DEF z
  <2>2. \/ Moved(r, Done)
        \/ request[r].at = "acting" /\ Moved(r, z)
    BY <1>6, ReturnMoves DEF z
  <2>. QED
    BY <1>6, <2>1, <2>2, ReturnMoves DEF RequestStep
<1>7. CASE Fall(r)
  <2>. DEFINE z == [request[r] EXCEPT !.at = "routing", !.tried = @ \cup {request[r].route}]
  <2>1. request[r].at = "inside" /\ Ahead(request[r]) = {} /\ Moved(r, z) /\ UNCHANGED balance
    BY <1>7, FallMoves
  <2>2. Stayed(request[r], z)
    BY <2>1 DEF Stayed, TypeInv, TypeOK, Request
  <2>. HIDE DEF z
  <2>. QED
    BY <2>1, <2>2 DEF RequestStep
<1>. QED
  BY <1>1, <1>2, <1>3, <1>4, <1>5, <1>6, <1>7 DEF Advance

\* The index of a balancer stays within its urls.
LEMMA NextTurnTyped ==
    ASSUME NEW n \in 1..MaxUrls, NEW u \in Nat
    PROVE  NextTurn(u, n) \in Url /\ NextTurn(u, n) < n
  BY PipelinesAssumption DEF NextTurn, Url

\* Balancers stay typed.
LEMMA TurnedTyped ==
    ASSUME TypeInv, NEW r \in Req, request[r].at = "inside", NEW j \in Nearest(request[r]), Turned(request[r], j)
    PROVE  turn' \in [Slot -> Url] /\ sent' \in [Slot -> [Url -> Nat]]
<1>. DEFINE q == request[r]  s == <<q.gen, q.pipe, j>>  n == StepOf(q, j).urls
<1>1. s \in Slot /\ Conf(q) = q.born /\ q.born \in Config /\ j \in Steps(q.born, q.pipe) /\ q.pipe \in DOMAIN Pipes[q.born]
  BY NearestIsStep, ConfOf DEF Busy
<1>2. StepOf(q, j) \in Step
  BY <1>1, PlacesBounded DEF StepOf
<1>3. n \in 1..MaxUrls
  BY <1>2, PipelinesAssumption DEF Step, Turned
<1>4. turn[s] \in Nat /\ turn[s] \in Url
  BY <1>1 DEF TypeInv, TypeOK, Url
<1>5. NextTurn(turn[s], n) \in Url
  BY <1>3, <1>4, NextTurnTyped
<1>6. turn' = [turn EXCEPT ![s] = NextTurn(turn[s], n)] /\ sent' = [sent EXCEPT ![s] = [sent[s] EXCEPT ![turn[s]] = sent[s][turn[s]] + 1]]
  BY DEF Turned
<1>7. turn' \in [Slot -> Url]
  BY <1>5, <1>6 DEF TypeInv, TypeOK
<1>8. [sent[s] EXCEPT ![turn[s]] = sent[s][turn[s]] + 1] \in [Url -> Nat]
  <2>1. sent[s] \in [Url -> Nat]
    BY <1>1 DEF TypeInv, TypeOK
  <2>2. sent[s][turn[s]] + 1 \in Nat
    BY <2>1, <1>4
  <2>. HIDE DEF s
  <2>. QED
    BY <2>1, <2>2
<1>9. sent' \in [Slot -> [Url -> Nat]]
  BY <1>6, <1>8 DEF TypeInv, TypeOK
<1>. QED
  BY <1>7, <1>9

\* Every step keeps the types.
LEMMA NextTyped == TypeInv /\ [Next]_vars => TypeInv'
<1>. SUFFICES ASSUME TypeInv, [Next]_vars PROVE TypeInv'
  OBVIOUS
<1>1. ASSUME NEW c \in Config, Load(c) \/ Start(c) PROVE TypeInv'
  BY <1>1, LoadTyped, StartTyped
<1>2. ASSUME NEW s \in Schema, Fetched(s) \/ Unfetched(s) PROVE TypeInv'
  BY <1>2, FetchedTyped, StopTyped DEF Unfetched
<1>3. ASSUME NEW r \in Req, Advance(r) \/ \E m : Arrive(r, m) PROVE TypeInv'
  <2>1. PICK z : RequestStep(r, z)
    BY <1>3, RequestSteps
  <2>2. turn' \in [Slot -> Url] /\ sent' \in [Slot -> [Url -> Nat]]
    <3>1. CASE UNCHANGED balance
      BY <3>1 DEF balance, TypeInv, TypeOK
    <3>2. ASSUME NEW j \in Nearest(request[r]), Turned(request[r], j), request[r].at = "inside"
          PROVE  turn' \in [Slot -> Url] /\ sent' \in [Slot -> [Url -> Nat]]
      BY <3>2, TurnedTyped
    <3>. QED
      BY <2>1, <3>1, <3>2 DEF RequestStep
  <2>. QED
    BY <2>1, <2>2, MovedTyped DEF RequestStep
<1>4. CASE UNCHANGED vars
  BY <1>4 DEF vars, build, balance, TypeInv, TypeOK, GenerationsBuilt, Placed, Busy
<1>. QED
  BY <1>1, <1>2, <1>3, <1>4 DEF Next

\* Every variable has its type, requests are where they can be, and no balancer points
\* past the urls there may be (pipelines.js:121-175, strategies/round-robin.js:11-18).
THEOREM Typing == Spec => []TypeOK
<1>1. TypeInv => TypeOK
  BY DEF TypeInv
<1>. QED
  BY <1>1, InitTyped, NextTyped, PTL DEF Spec

\* The same with what it rests on.
LEMMA Typed == Spec => []TypeInv
  BY InitTyped, NextTyped, PTL DEF Spec

-----------------------------------------------------------------------------
(* The order of the layers.                                                 *)

\* What the building of generations does to those there are, and to requests.
BuildStep ==
    /\ UNCHANGED balance
    /\ current <= current'
    /\ \A g \in Gen : g <= current => config'[g] = config[g]
    /\ \A s \in Slot : s[1] <= current /\ rank[s] # 0 => rank'[s] = rank[s]
    /\ \A r \in Req : request'[r] \in {request[r], Idle, Done}
    /\ current' # current =>
         /\ current' = current + 1
         /\ \A s \in Slot :
              /\ s[1] = current' /\ s[2] \in DOMAIN Pipes[config'[current']] /\ s[3] \in Steps(config'[current'], s[2]) =>
                   rank'[s] = Mounted(config'[current'], s[2], s[3], known')

\* Installing a generation is such a step.
LEMMA Installs ==
    ASSUME TypeInv, NEW c \in Config, current < MaxGens, Install(c, current + 1, known'),
           UNCHANGED balance, UNCHANGED request
    PROVE  BuildStep
<1>1. current \in Nat /\ current + 1 \in Gen /\ current' = current + 1
  BY GenTyped DEF Install, TypeInv, TypeOK, Gen
<1>2. config' = [config EXCEPT ![current + 1] = c] /\ config'[current + 1] = c
  BY <1>1 DEF Install, TypeInv, TypeOK
<1>3. \A s \in Slot : rank'[s] = IF s[1] = current + 1
         THEN IF s[2] \in DOMAIN Pipes[c] /\ s[3] \in Steps(c, s[2])
              THEN Mounted(c, s[2], s[3], known') ELSE 0
         ELSE rank[s]
  BY DEF Install
<1>4. \A g \in Gen : g <= current => config'[g] = config[g]
  BY InstallTyped
<1>. QED
  BY <1>1, <1>2, <1>3, <1>4 DEF BuildStep

\* A process that ends builds nothing.
LEMMA Stops == TypeInv /\ Stop => BuildStep
<1>. SUFFICES ASSUME TypeInv, Stop PROVE BuildStep
  OBVIOUS
<1>1. current \in Nat /\ UNCHANGED <<current, config, rank, balance>>
  BY GenTyped DEF Stop, TypeInv, TypeOK
<1>2. \A r \in Req : request'[r] \in {Idle, Done}
  BY DEF Stop
<1>. QED
  BY <1>1, <1>2 DEF BuildStep

\* Reloads, starts, ends, and the arrival of schemas are such steps.
LEMMA BuildSteps ==
    ASSUME TypeInv,
           (\E c \in Config : Load(c) \/ Start(c)) \/ (\E s \in Schema : Fetched(s) \/ Unfetched(s))
    PROVE  BuildStep
<1>1. current \in Nat
  BY GenTyped DEF TypeInv, TypeOK
<1>2. ASSUME NEW c \in Config, Load(c) PROVE BuildStep
  <2>1. CASE Clash(added, Asked(c))
    BY <1>2, <2>1, Stops DEF Load
  <2>2. CASE ~Clash(added, Asked(c)) /\ Throws(c)
    BY <1>1, <1>2, <2>2 DEF Load, BuildStep
  <2>3. CASE ~Clash(added, Asked(c)) /\ ~Throws(c)
    BY <1>2, <2>3, Installs DEF Load
  <2>. QED
    BY <2>1, <2>2, <2>3
<1>3. ASSUME NEW c \in Config, Start(c) PROVE BuildStep
  BY <1>3, Installs DEF Start
<1>4. ASSUME NEW s \in Schema, Fetched(s) PROVE BuildStep
  BY <1>1, <1>4 DEF Fetched, BuildStep
<1>5. ASSUME NEW s \in Schema, Unfetched(s) PROVE BuildStep
  BY <1>5, Stops DEF Unfetched
<1>. QED
  BY <1>2, <1>3, <1>4, <1>5

\* The layers of a pipeline without a json-schema condition are mounted at once.
PlainAtOnce ==
    \A s \in Slot :
        s[1] <= current /\ s[2] \in DOMAIN Pipes[config[s[1]]] /\ s[3] \in Steps(config[s[1]], s[2])
          /\ Plain(config[s[1]], s[2]) => rank[s] = 1

\* The steps a request has met if it met those up to where it is.
Passed(q) == {<<q.born, q.pipe, i>> : i \in
    {j \in Steps(q.born, q.pipe) : q.pos # 0 /\ (j = q.pos \/ Over(q, j, q.pos))}}

\* A request that found every policy mounted has met those up to where it is.
Kept(q) ==
    q.pipe # 0 =>
        /\ Plain(q.born, q.pipe) => q.whole
        /\ q.whole => /\ \A i \in Steps(q.born, q.pipe) : rank[<<q.gen, q.pipe, i>>] > 0
                      /\ q.met = Passed(q)
                      /\ q.at = "routing" => q.met = {<<q.born, q.pipe, i>> : i \in Steps(q.born, q.pipe)}

OrderInv == PlainAtOnce /\ \A r \in Req : Kept(request[r])

\* What a pipeline without such a condition waits for.
LEMMA PlainNeeds ==
    ASSUME NEW c, NEW k, NEW i \in Steps(c, k), NEW kn, Plain(c, k)
    PROVE  Mounted(c, k, i, kn) = 1
<1>1. Needs(c, k, i) = {}
  BY DEF Needs, Plain
<1>. QED
  BY <1>1 DEF Mounted

\* The first generation.
LEMMA InitOrder == Init => OrderInv
<1>. SUFFICES ASSUME Init PROVE OrderInv
  OBVIOUS
<1>1. PlainAtOnce
  <2>1. PICK c \in Config :
         /\ config = [g \in Gen |-> IF g = 1 THEN c ELSE None]
         /\ rank = [s \in Slot |->
              IF s[1] = 1 /\ s[2] \in DOMAIN Pipes[c] /\ s[3] \in Steps(c, s[2])
              THEN Mounted(c, s[2], s[3], Asked(c) \ Remote) ELSE 0]
    BY DEF Init
  <2>2. \A s \in Slot : s[1] \in Gen /\ (s[1] <= current => s[1] = 1)
    BY GenTyped DEF Init, Slot
  <2>3. \A s \in Slot : s[1] <= current => config[s[1]] = c
    BY <2>1, <2>2
  <2>. QED
    BY <2>1, <2>2, <2>3, PlainNeeds DEF PlainAtOnce
<1>2. \A r \in Req : Kept(request[r])
  BY DEF Init, Idle, Kept
<1>. QED
  BY <1>1, <1>2 DEF OrderInv

\* Building leaves the order of what is mounted alone.
LEMMA BuildKeepsOrder ==
    ASSUME TypeInv, OrderInv, BuildStep
    PROVE  OrderInv'
<1>1. current \in Nat /\ current' \in Nat
  BY GenTyped DEF BuildStep, TypeInv, TypeOK
<1>2. PlainAtOnce'
  <2>. SUFFICES ASSUME NEW s \in Slot, s[1] <= current', s[2] \in DOMAIN Pipes[config'[s[1]]],
                       s[3] \in Steps(config'[s[1]], s[2]), Plain(config'[s[1]], s[2])
                PROVE  rank'[s] = 1
    BY DEF PlainAtOnce
  <2>1. s[1] \in Gen /\ s[1] \in Nat
    BY GenTyped DEF Slot
  <2>2. CASE s[1] <= current
    <3>1. config'[s[1]] = config[s[1]]
      BY <2>1, <2>2 DEF BuildStep
    <3>2. rank[s] = 1
      BY <2>2, <3>1 DEF OrderInv, PlainAtOnce
    <3>. QED
      BY <2>2, <3>2 DEF BuildStep
  <2>3. CASE ~(s[1] <= current)
    <3>1. s[1] = current' /\ current' # current
      BY <1>1, <2>1, <2>3 DEF BuildStep
    <3>2. rank'[s] = Mounted(config'[s[1]], s[2], s[3], known')
      BY <3>1 DEF BuildStep
    <3>. QED
      BY <3>2, PlainNeeds
  <2>. QED
    BY <2>2, <2>3
<1>3. ASSUME NEW r \in Req PROVE Kept(request[r])'
  <2>1. CASE request'[r] \in {Idle, Done}
    BY <2>1 DEF Kept, Idle, Done
  <2>2. CASE request'[r] = request[r] /\ request[r].pipe # 0
    <3>. DEFINE q == request[r]
    <3>1. q.gen \in Gen /\ q.gen <= current /\ q.born \in Config /\ q.pipe \in DOMAIN Pipes[q.born]
          /\ q.pos \in {0} \cup Steps(q.born, q.pipe)
      BY <2>2, ConfOf DEF TypeInv, Placed
    <3>2. \A i \in Steps(q.born, q.pipe) : <<q.gen, q.pipe, i>> \in Slot
      BY <3>1, PlacesBounded
    <3>3. rank \in [Slot -> Nat]
      BY DEF TypeInv, TypeOK
    <3>4. CASE q.whole
      <4>1. \A i \in Steps(q.born, q.pipe) : rank[<<q.gen, q.pipe, i>>] > 0
        BY <2>2, <3>4 DEF OrderInv, Kept
      <4>2. \A i \in Steps(q.born, q.pipe) : rank'[<<q.gen, q.pipe, i>>] = rank[<<q.gen, q.pipe, i>>]
        BY <3>1, <3>2, <3>3, <4>1 DEF BuildStep
      <4>3. \A j \in Steps(q.born, q.pipe) :
              (q.pos # 0 /\ (j = q.pos \/ Over(q, j, q.pos))) <=> (q.pos # 0 /\ (j = q.pos \/ Over(q, j, q.pos)'))
        BY <2>2, <3>1, <4>2 DEF Over, RankOf, RouterOf
      <4>4. Passed(q)' = Passed(q)
        BY <2>2, <4>3 DEF Passed
      <4>. QED
        BY <2>2, <3>4, <4>1, <4>2, <4>4 DEF OrderInv, Kept
    <3>5. CASE ~q.whole
      BY <2>2, <3>5 DEF OrderInv, Kept
    <3>. QED
      BY <3>4, <3>5
  <2>3. CASE request'[r] = request[r] /\ request[r].pipe = 0
    BY <2>3 DEF Kept
  <2>. QED
    BY <2>1, <2>2, <2>3 DEF BuildStep
<1>. QED
  BY <1>2, <1>3 DEF OrderInv

\* The layers of a pipeline, once mounted, are in one order.
LEMMA OverOrders ==
    ASSUME TypeInv, NEW q \in Request, q.born \in Config, q.pipe \in DOMAIN Pipes[q.born]
    PROVE  /\ \A i, j \in Steps(q.born, q.pipe) : i = j \/ Over(q, i, j) \/ Over(q, j, i)
           /\ \A i, j \in Steps(q.born, q.pipe) : Over(q, i, j) => i # j /\ ~Over(q, j, i)
           /\ \A i, j, k \in Steps(q.born, q.pipe) : Over(q, i, j) /\ Over(q, j, k) => Over(q, i, k)
<1>. DEFINE R(i) == RankOf(q, i)
<1>1. \A i \in Steps(q.born, q.pipe) : R(i) \in Nat /\ i \in Nat
  <2>1. q.gen \in Gen
    BY DEF Request
  <2>2. \A i \in Steps(q.born, q.pipe) : <<q.gen, q.pipe, i>> \in Slot /\ i \in 1..MaxSteps
    BY <2>1, PlacesBounded
  <2>. QED
    BY <2>2, PipelinesAssumption DEF RankOf, RouterOf, TypeInv, TypeOK
<1>2. \A i, j : Over(q, i, j) <=> R(i) < R(j) \/ (R(i) = R(j) /\ i < j)
  BY DEF Over
<1>. HIDE DEF R
<1>. QED
  BY <1>1, <1>2

\* A request that reaches the nearest layer has met those up to it.
LEMMA ReachedKept ==
    ASSUME TypeInv, NEW r \in Req, Kept(request[r]), NEW z, NEW j, Reached(request[r], z, j), request[r].at = "inside"
    PROVE  Kept(z)
<1>. DEFINE q == request[r]  S == Steps(q.born, q.pipe)
<1>1. q \in Request /\ q.born \in Config /\ Conf(q) = q.born /\ Placed(q)
  BY ConfOf DEF Busy, TypeInv
<1>2. q.pipe # 0 /\ q.pipe \in DOMAIN Pipes[q.born] /\ q.pos \in {0} \cup S
  BY <1>1 DEF Placed
<1>3. S \subseteq Nat \ {0}
  BY <1>1, <1>2, PlacesBounded, PipelinesAssumption
<1>4. /\ \A i, k \in S : i = k \/ Over(q, i, k) \/ Over(q, k, i)
      /\ \A i, k \in S : Over(q, i, k) => i # k /\ ~Over(q, k, i)
      /\ \A i, k, l \in S : Over(q, i, k) /\ Over(q, k, l) => Over(q, i, l)
  BY <1>1, <1>2, OverOrders
<1>5. Ahead(q) = {i \in S : RankOf(q, i) > 0 /\ (q.pos = 0 \/ Over(q, q.pos, i))}
  BY <1>1 DEF Ahead
<1>6. j \in Ahead(q) /\ j \in S /\ \A i \in Ahead(q) : i = j \/ Over(q, j, i)
  BY <1>5 DEF Reached, Nearest
<1>7. \A i, k : Over(z, i, k) <=> Over(q, i, k)
  BY DEF Reached, Over, RankOf, RouterOf
<1>8. CASE q.whole
  <2>1. /\ \A i \in S : rank[<<q.gen, q.pipe, i>>] > 0 /\ RankOf(q, i) > 0
        /\ q.met = Passed(q)
    BY <1>2, <1>8 DEF Kept, RankOf, RouterOf
  <2>2. \A i \in S : Over(q, i, j) <=> q.pos # 0 /\ (i = q.pos \/ Over(q, i, q.pos))
    <3>1. ASSUME NEW i \in S, q.pos # 0, i = q.pos \/ Over(q, i, q.pos) PROVE Over(q, i, j)
      BY <1>2, <1>4, <1>5, <1>6, <3>1
    <3>2. ASSUME NEW i \in S, Over(q, i, j) PROVE q.pos # 0 /\ (i = q.pos \/ Over(q, i, q.pos))
      <4>1. i \notin Ahead(q)
        BY <1>4, <1>6, <3>2
      <4>2. q.pos # 0 /\ ~Over(q, q.pos, i)
        BY <1>5, <2>1, <4>1
      <4>. QED
        BY <1>2, <1>4, <4>2
    <3>. QED
      BY <3>1, <3>2
  <2>3. Passed(q) = {<<q.born, q.pipe, i>> : i \in {k \in S : Over(q, k, j)}}
    BY <2>2 DEF Passed
  <2>4. Passed(z) = {<<q.born, q.pipe, i>> : i \in {k \in S : k = j \/ Over(q, k, j)}}
    <3>1. z.born = q.born /\ z.pipe = q.pipe /\ z.pos = j /\ j # 0
      BY <1>3, <1>6 DEF Reached
    <3>. QED
      BY <1>7, <3>1 DEF Passed
  <2>5. {k \in S : k = j \/ Over(q, k, j)} = {k \in S : Over(q, k, j)} \cup {j}
    BY <1>6
  <2>6. Passed(z) = Passed(q) \cup {<<q.born, q.pipe, j>>}
    BY <2>3, <2>4, <2>5
  <2>7. z.met = Passed(z)
    BY <2>1, <2>6 DEF Reached
  <2>. QED
    BY <1>8, <2>1, <2>7 DEF Kept, Reached
<1>9. CASE ~q.whole
  BY <1>2, <1>9 DEF Kept, Reached
<1>. QED
  BY <1>8, <1>9

\* A request that falls out of a pipeline has met what is mounted there; one that goes
\* on in it has met no more.
LEMMA StayedKept ==
    ASSUME TypeInv, NEW r \in Req, Kept(request[r]), NEW z, Stayed(request[r], z)
    PROVE  Kept(z)
<1>. DEFINE q == request[r]  S == Steps(q.born, q.pipe)
<1>1. Busy(q)
  BY DEF Busy, Stayed
<1>2. q \in Request /\ q.born \in Config /\ Conf(q) = q.born /\ Placed(q)
  BY <1>1, ConfOf DEF TypeInv
<1>3. Passed(z) = Passed(q)
  BY DEF Passed, Over, RankOf, RouterOf, Stayed
<1>4. ASSUME q.whole, q.pipe # 0, z.at = "routing" PROVE z.met = {<<q.born, q.pipe, i>> : i \in S}
  <2>1. q.pipe \in DOMAIN Pipes[q.born] /\ q.pos \in {0} \cup S
    BY <1>2, <1>4 DEF Placed
  <2>2. \A i \in S : RankOf(q, i) > 0
    BY <1>4 DEF Kept, RankOf, RouterOf
  <2>3. \A i \in S : ~(q.pos = 0 \/ Over(q, q.pos, i))
    BY <1>2, <1>4, <2>2 DEF Stayed, Ahead
  <2>4. \A i \in S : q.pos # 0 /\ (i = q.pos \/ Over(q, i, q.pos))
    BY <1>2, <2>1, <2>3, OverOrders
  <2>5. Passed(q) = {<<q.born, q.pipe, i>> : i \in S}
    BY <2>4 DEF Passed
  <2>. QED
    BY <1>4, <2>5 DEF Kept, Stayed
<1>. QED
  BY <1>3, <1>4 DEF Kept, Stayed

\* A request at the beginning of a pipeline has met nothing, and finds it whole if no
\* policy has a json-schema condition.
LEMMA BeganKept ==
    ASSUME TypeInv, PlainAtOnce, NEW r \in Req, Busy(request[r]), NEW z, Began(request[r], z), Placed(z)
    PROVE  Kept(z)
<1>1. CASE z = Done
  BY <1>1 DEF Kept, Done, Idle
<1>2. CASE z # Done
  <2>1. /\ z.at = "inside" /\ z.gen = request[r].gen /\ z.born = request[r].born /\ z.pos = 0 /\ z.met = {} /\ z.pipe # 0
        /\ z.whole = \A i \in Steps(z.born, z.pipe) : rank[<<z.gen, z.pipe, i>>] > 0
    BY <1>2 DEF Began
  <2>2. z.born \in Config /\ z.gen \in Gen /\ z.gen <= current /\ z.born = config[z.gen] /\ z.pipe \in DOMAIN Pipes[z.born]
    BY <2>1, ConfOf DEF Placed, Busy
  <2>3. \A i \in Steps(z.born, z.pipe) : <<z.gen, z.pipe, i>> \in Slot
    BY <2>2, PlacesBounded
  <2>4. Plain(z.born, z.pipe) => \A i \in Steps(z.born, z.pipe) : rank[<<z.gen, z.pipe, i>>] = 1
    BY <2>2, <2>3 DEF PlainAtOnce
  <2>5. Plain(z.born, z.pipe) => z.whole
    BY <2>1, <2>4
  <2>6. Passed(z) = {}
    BY <2>1 DEF Passed
  <2>. QED
    BY <2>1, <2>5, <2>6 DEF Kept
<1>. QED
  BY <1>1, <1>2

\* A step of a request keeps what it has met in order.
LEMMA MoveKeepsOrder ==
    ASSUME TypeInv, OrderInv, NEW r \in Req, NEW z, RequestStep(r, z)
    PROVE  OrderInv'
<1>1. Kept(z)
  <2>1. CASE z = Done
    BY <2>1 DEF Kept, Done, Idle
  <2>2. CASE z.pipe = 0
    BY <2>2 DEF Kept
  <2>. QED
    BY <2>1, <2>2, BeganKept, ReachedKept, StayedKept DEF RequestStep, Moved, OrderInv
<1>2. UNCHANGED <<current, config, rank>>
  BY DEF RequestStep, Moved, build
<1>3. \A x \in Req : Kept(request'[x])
  BY <1>1 DEF RequestStep, Moved, OrderInv, TypeInv, TypeOK
<1>4. \A x \in Req : Kept(request[x])'
  BY <1>2, <1>3 DEF Kept, Passed, Over, RankOf, RouterOf
<1>5. PlainAtOnce'
  BY <1>2 DEF OrderInv, PlainAtOnce
<1>. QED
  BY <1>4, <1>5 DEF OrderInv

\* Every step.
LEMMA NextOrder == TypeInv /\ OrderInv /\ [Next]_vars => OrderInv'
<1>. SUFFICES ASSUME TypeInv, OrderInv, [Next]_vars PROVE OrderInv'
  OBVIOUS
<1>1. CASE (\E c \in Config : Load(c) \/ Start(c)) \/ (\E s \in Schema : Fetched(s) \/ Unfetched(s))
  BY <1>1, BuildSteps, BuildKeepsOrder
<1>2. ASSUME NEW r \in Req, Advance(r) \/ \E m : Arrive(r, m) PROVE OrderInv'
  BY <1>2, RequestSteps, MoveKeepsOrder
<1>3. CASE UNCHANGED vars
  BY <1>3 DEF vars, build, OrderInv, PlainAtOnce, Kept, Passed, Over, RankOf, RouterOf
<1>. QED
  BY <1>1, <1>2, <1>3 DEF Next

\* In a pipeline without a json-schema condition every request meets the steps in their
\* order, none left out, of the configuration it arrived under (pipelines.js:121-175).
THEOREM StepsStayInOrder == Spec => []StepsInOrder
<1>1. TypeInv /\ OrderInv => StepsInOrder
  <2>. SUFFICES ASSUME TypeInv, OrderInv, NEW r \in Req, request[r].at \in {"inside", "acting"},
                       Plain(request[r].born, request[r].pipe)
                PROVE  request[r].met = {<<request[r].born, request[r].pipe, i>> : i \in 1..request[r].pos}
    BY DEF StepsInOrder
  <2>. DEFINE q == request[r]  S == Steps(q.born, q.pipe)
  <2>1. q.born \in Config /\ q.gen \in Gen /\ Placed(q) /\ q.pipe # 0
    BY ConfOf DEF Busy, TypeInv, Placed
  <2>2. /\ q.gen <= current /\ q.born = config[q.gen] /\ q.pipe \in DOMAIN Pipes[q.born] /\ q.pos \in {0} \cup S
    BY <2>1 DEF Placed, Busy
  <2>3. q.met = Passed(q)
    BY <2>1 DEF OrderInv, Kept
  <2>4. \A i \in S : rank[<<q.gen, q.pipe, i>>] = 1
    <3>1. \A i \in S : <<q.gen, q.pipe, i>> \in Slot
      BY <2>1, <2>2, PlacesBounded
    <3>. QED
      BY <2>2, <3>1 DEF OrderInv, PlainAtOnce
  <2>5. PICK n \in Nat : S = 1..n
    BY <2>1, <2>2, PlacesBounded
  <2>6. {j \in S : q.pos # 0 /\ (j = q.pos \/ Over(q, j, q.pos))} = 1..q.pos
    <3>1. CASE q.pos = 0
      BY <3>1
    <3>2. CASE q.pos \in S
      <4>1. \A j \in S : Over(q, j, q.pos) <=> j < q.pos
        BY <2>4, <3>2 DEF Over, RankOf, RouterOf
      <4>. QED
        BY <2>5, <3>2, <4>1
    <3>. QED
      BY <2>2, <3>1, <3>2
  <2>. QED
    BY <2>3, <2>6 DEF Passed
<1>. QED
  BY <1>1, InitTyped, NextTyped, InitOrder, NextOrder, PTL DEF Spec

\* A request that found every policy mounted, and leaves the pipeline at its end, has
\* met all of them, in whatever order they were mounted (pipelines.js:171).
THEOREM PassesAreWhole == Spec => []WholePass
<1>1. TypeInv /\ OrderInv => WholePass
  BY DEF OrderInv, Kept, WholePass
<1>. QED
  BY <1>1, InitTyped, NextTyped, InitOrder, NextOrder, PTL DEF Spec

-----------------------------------------------------------------------------
(* The turns of the balancers.                                              *)

\* The urls before the index have been the target once more than those from it on.
InTurn(s, n) ==
    n # 0 => /\ turn[s] < n
             /\ \A u \in 0..(n - 1) : sent[s][u] = sent[s][n - 1] + IF u < turn[s] THEN 1 ELSE 0

Unused(s) == turn[s] = 0 /\ \A u \in Url : sent[s][u] = 0

\* Whatever a generation that is still to come is built of, its balancers are unused.
TurnInv == \A s \in Slot :
    /\ s[1] > current => Unused(s)
    /\ s[1] <= current /\ s[2] \in DOMAIN Pipes[config[s[1]]] /\ s[3] \in Steps(config[s[1]], s[2]) =>
         InTurn(s, StepAt(config[s[1]], s[2], s[3]).urls)

\* An unused balancer is in turn.
LEMMA UnusedInTurn ==
    ASSUME TypeInv, NEW s \in Slot, Unused(s), NEW n \in 0..MaxUrls
    PROVE  InTurn(s, n)
<1>1. MaxUrls \in Nat
  BY PipelinesAssumption
<1>2. n # 0 => (n - 1) \in Url /\ \A u \in 0..(n - 1) : u \in Url
  BY <1>1 DEF Url
<1>. QED
  BY <1>2 DEF InTurn, Unused

\* How many urls a step has.
LEMMA UrlsBounded ==
    ASSUME NEW c \in Config, NEW k \in DOMAIN Pipes[c], NEW i \in Steps(c, k)
    PROVE  StepAt(c, k, i).urls \in 0..MaxUrls
  BY PlacesBounded DEF Step

\* At first no balancer has been used.
LEMMA InitTurn == Init => TurnInv
<1>. SUFFICES ASSUME Init PROVE TurnInv
  OBVIOUS
<1>1. TypeInv
  BY InitTyped
<1>2. \A s \in Slot : Unused(s)
  BY DEF Init, Unused
<1>3. ASSUME NEW s \in Slot, s[1] <= current, s[2] \in DOMAIN Pipes[config[s[1]]], s[3] \in Steps(config[s[1]], s[2])
      PROVE  InTurn(s, StepAt(config[s[1]], s[2], s[3]).urls)
  <2>1. s[1] \in Gen
    BY DEF Slot
  <2>2. config[s[1]] \in Config
    BY <1>1, <1>3, <2>1 DEF TypeInv, GenerationsBuilt
  <2>. QED
    BY <1>1, <1>2, <1>3, <2>2, UrlsBounded, UnusedInTurn
<1>. QED
  BY <1>2, <1>3 DEF TurnInv

\* A new generation begins anew.
LEMMA BuildKeepsTurn ==
    ASSUME TypeInv, TypeInv', TurnInv, BuildStep
    PROVE  TurnInv'
<1>1. current \in Nat /\ current' \in Nat /\ current <= current'
  BY GenTyped DEF BuildStep, TypeInv, TypeOK
<1>2. turn' = turn /\ sent' = sent
  BY DEF BuildStep, balance
<1>3. \A s, n : InTurn(s, n)' <=> InTurn(s, n)
  BY <1>2 DEF InTurn
<1>4. \A s : Unused(s)' <=> Unused(s)
  BY <1>2 DEF Unused
<1>5. ASSUME NEW s \in Slot, s[1] > current' PROVE Unused(s)'
  <2>1. s[1] \in Nat
    BY GenTyped DEF Slot
  <2>2. s[1] > current
    BY <1>1, <1>5, <2>1
  <2>. QED
    BY <1>4, <2>2 DEF TurnInv
<1>6. ASSUME NEW s \in Slot, s[1] <= current', s[2] \in DOMAIN Pipes[config'[s[1]]], s[3] \in Steps(config'[s[1]], s[2]),
             NEW n, n = StepAt(config'[s[1]], s[2], s[3]).urls
      PROVE  InTurn(s, n)'
  <2>1. s[1] \in Gen /\ s[1] \in Nat
    BY GenTyped DEF Slot
  <2>2. CASE s[1] <= current
    <3>1. config'[s[1]] = config[s[1]]
      BY <2>1, <2>2 DEF BuildStep
    <3>2. InTurn(s, n)
      BY <1>6, <2>2, <3>1 DEF TurnInv
    <3>. QED
      BY <1>3, <3>2
  <2>3. CASE ~(s[1] <= current)
    <3>1. Unused(s)
      BY <1>1, <2>1, <2>3 DEF TurnInv
    <3>2. config'[s[1]] \in Config
      BY <1>6, <2>1 DEF TypeInv, GenerationsBuilt
    <3>3. n \in 0..MaxUrls
      BY <1>6, <3>2, UrlsBounded
    <3>4. InTurn(s, n)
      BY <3>1, <3>3, UnusedInTurn
    <3>. QED
      BY <1>3, <3>4
  <2>. QED
    BY <2>2, <2>3
<1>. QED
  BY <1>5, <1>6 DEF TurnInv

\* A balancer in turn that takes its turn is in turn.
LEMMA TurnTaken ==
    ASSUME TypeInv, NEW s \in Slot, NEW n \in 1..MaxUrls, InTurn(s, n),
           turn' = [turn EXCEPT ![s] = NextTurn(@, n)], sent' = [sent EXCEPT ![s][turn[s]] = @ + 1]
    PROVE  InTurn(s, n)'
<1>1. turn[s] \in Nat /\ turn[s] < n /\ turn[s] \in 0..(n - 1)
  BY PipelinesAssumption DEF TypeInv, TypeOK, Url, InTurn
<1>2. 0..(n - 1) \subseteq Url /\ n - 1 \in 0..(n - 1) /\ n \in Nat
  BY PipelinesAssumption DEF Url
<1>3. sent[s] \in [Url -> Nat]
  BY DEF TypeInv, TypeOK
<1>4. turn'[s] = NextTurn(turn[s], n)
  BY DEF TypeInv, TypeOK
<1>5. sent'[s] = [sent[s] EXCEPT ![turn[s]] = @ + 1]
  BY DEF TypeInv, TypeOK
<1>6. \A u \in 0..(n - 1) : sent'[s][u] = IF u = turn[s] THEN sent[s][u] + 1 ELSE sent[s][u]
  BY <1>1, <1>2, <1>3, <1>5
<1>7. \A u \in 0..(n - 1) : sent[s][u] = sent[s][n - 1] + IF u < turn[s] THEN 1 ELSE 0
  BY <1>2 DEF InTurn
<1>8. sent[s][n - 1] \in Nat
  BY <1>2, <1>3
<1>9. CASE turn[s] = n - 1
  <2>1. turn'[s] = 0
    BY <1>1, <1>2, <1>4, <1>9 DEF NextTurn
  <2>2. \A u \in 0..(n - 1) : sent'[s][u] = sent[s][n - 1] + 1
    BY <1>2, <1>6, <1>7, <1>8, <1>9
  <2>. QED
    BY <1>2, <1>8, <2>1, <2>2 DEF InTurn
<1>10. CASE turn[s] # n - 1
  <2>1. turn'[s] = turn[s] + 1 /\ turn'[s] < n
    BY <1>1, <1>2, <1>4, <1>10 DEF NextTurn
  <2>2. sent'[s][n - 1] = sent[s][n - 1]
    BY <1>2, <1>6, <1>10
  <2>3. \A u \in 0..(n - 1) : sent'[s][u] = sent[s][n - 1] + IF u < turn[s] + 1 THEN 1 ELSE 0
    BY <1>1, <1>2, <1>6, <1>7, <1>8
  <2>. QED
    BY <2>1, <2>2, <2>3 DEF InTurn
<1>. QED
  BY <1>9, <1>10

\* A balancer that takes its turn stays in turn, and the others are not touched.
LEMMA TurnedInTurn ==
    ASSUME TypeInv, TurnInv, NEW r \in Req, request[r].at = "inside", NEW j \in Nearest(request[r]),
           Turned(request[r], j), UNCHANGED build
    PROVE  TurnInv'
<1>. DEFINE q == request[r]  s == <<q.gen, q.pipe, j>>  n == StepOf(q, j).urls
<1>1. /\ s \in Slot /\ q.gen <= current /\ q.born = config[q.gen] /\ q.born \in Config /\ Conf(q) = q.born
      /\ q.pipe \in DOMAIN Pipes[q.born] /\ j \in Steps(q.born, q.pipe)
  BY NearestIsStep, ConfOf DEF Busy, TypeInv, Placed
<1>2. n \in 1..MaxUrls /\ n = StepAt(config[s[1]], s[2], s[3]).urls
  BY <1>1, UrlsBounded, PipelinesAssumption DEF Turned, StepOf
<1>3. InTurn(s, n)
  BY <1>1, <1>2 DEF TurnInv
<1>4. UNCHANGED <<current, config>>
  BY DEF build
<1>5. \A x \in Slot : x # s => turn'[x] = turn[x] /\ sent'[x] = sent[x]
  BY DEF Turned, TypeInv, TypeOK
<1>6. ASSUME NEW x \in Slot, x # s
      PROVE  /\ Unused(x)' <=> Unused(x)
             /\ \A m : InTurn(x, m)' <=> InTurn(x, m)
  BY <1>5, <1>6 DEF Unused, InTurn
<1>7. ASSUME NEW x \in Slot, x = s, NEW m, m = n PROVE InTurn(x, m)'
  BY <1>2, <1>3, <1>7, TurnTaken DEF Turned
<1>8. ASSUME NEW x \in Slot
      PROVE  /\ x[1] > current => Unused(x)'
             /\ \A m : /\ x[1] <= current /\ x[2] \in DOMAIN Pipes[config[x[1]]] /\ x[3] \in Steps(config[x[1]], x[2])
                      /\ m = StepAt(config[x[1]], x[2], x[3]).urls
                      => InTurn(x, m)'
  <2>1. CASE x = s
    <3>1. ~(x[1] > current)
      BY <1>1, <2>1, GenTyped DEF TypeInv, TypeOK, Slot
    <3>. QED
      BY <1>2, <1>4, <1>7, <2>1, <3>1
  <2>2. CASE x # s
    BY <1>4, <1>6, <2>2 DEF TurnInv
  <2>. QED
    BY <2>1, <2>2
<1>. QED
  BY <1>4, <1>8 DEF TurnInv

\* Every step.
LEMMA NextInTurn == TypeInv /\ TypeInv' /\ TurnInv /\ [Next]_vars => TurnInv'
<1>. SUFFICES ASSUME TypeInv, TypeInv', TurnInv, [Next]_vars PROVE TurnInv'
  OBVIOUS
<1>1. CASE (\E c \in Config : Load(c) \/ Start(c)) \/ (\E s \in Schema : Fetched(s) \/ Unfetched(s))
  BY <1>1, BuildSteps, BuildKeepsTurn
<1>2. ASSUME UNCHANGED <<build, balance>> PROVE TurnInv'
  BY <1>2 DEF build, balance, TurnInv, Unused, InTurn
<1>3. ASSUME NEW r \in Req, Advance(r) \/ \E m : Arrive(r, m) PROVE TurnInv'
  <2>1. PICK z : RequestStep(r, z)
    BY <1>3, RequestSteps
  <2>2. UNCHANGED build
    BY <2>1 DEF RequestStep, Moved
  <2>. QED
    BY <1>2, <2>1, <2>2, TurnedInTurn DEF RequestStep
<1>4. CASE UNCHANGED vars
  BY <1>2, <1>4 DEF vars
<1>. QED
  BY <1>1, <1>3, <1>4 DEF Next

\* The urls of a proxy are targets equally often, give or take one, whatever requests
\* overlap and however many urls there are (strategies/round-robin.js:11-18).
THEOREM TurnsStayEven == Spec => []EvenTurns
<1>1. TypeInv /\ TurnInv => EvenTurns
  <2>. SUFFICES ASSUME TypeInv, TurnInv, NEW s \in Slot, s[1] <= current,
                       s[2] \in DOMAIN Pipes[config[s[1]]], s[3] \in Steps(config[s[1]], s[2]),
                       NEW u \in 0..(StepAt(config[s[1]], s[2], s[3]).urls - 1),
                       NEW v \in 0..(StepAt(config[s[1]], s[2], s[3]).urls - 1)
                PROVE  sent[s][u] <= sent[s][v] + 1
    BY DEF EvenTurns
  <2>. DEFINE n == StepAt(config[s[1]], s[2], s[3]).urls
  <2>1. s[1] \in Gen
    BY DEF Slot
  <2>2. n \in 0..MaxUrls
    BY <2>1, UrlsBounded DEF TypeInv, GenerationsBuilt
  <2>3. n # 0 /\ n - 1 \in Url /\ n \in Nat
    BY <2>2, PipelinesAssumption DEF Url
  <2>4. InTurn(s, n)
    BY DEF TurnInv
  <2>5. sent[s][n - 1] \in Nat
    BY <2>3 DEF TypeInv, TypeOK
  <2>6. /\ sent[s][u] = sent[s][n - 1] + IF u < turn[s] THEN 1 ELSE 0
        /\ sent[s][v] = sent[s][n - 1] + IF v < turn[s] THEN 1 ELSE 0
    BY <2>3, <2>4 DEF InTurn
  <2>. HIDE DEF n
  <2>. QED
    BY <2>5, <2>6
<1>. QED
  BY <1>1, InitTyped, NextTyped, InitTurn, NextInTurn, PTL DEF Spec

-----------------------------------------------------------------------------
(* The schemas of conditions.                                               *)

SingleIds == \A x, y \in added : IdOf[x] = IdOf[y] => x = y

\* The conditions mounted in a generation have their schemas compiled.
Own(g) == \A s \in Slot :
    /\ s[1] = g /\ s[2] \in DOMAIN Pipes[config[g]] /\ s[3] \in Steps(config[g], s[2])
    /\ rank[s] > 0 /\ StepAt(config[g], s[2], s[3]).when = "schema"
    => StepAt(config[g], s[2], s[3]).schema \in known

\* So it is of every generation that a request is or may come to be in.  Those of an
\* earlier process may have lost them.
OwnInv ==
    /\ SingleIds
    /\ up => Own(current)
    /\ \A r \in Req : Busy(request[r]) => up /\ Own(request[r].gen)

\* What is mounted has its schemas compiled.
LEMMA MountedOwn ==
    ASSUME NEW c \in Config, NEW k, NEW i \in Steps(c, k), NEW kn, StepAt(c, k, i).when = "schema", Mounted(c, k, i, kn) > 0
    PROVE  StepAt(c, k, i).schema \in kn
<1>1. StepAt(c, k, i).schema \in Needs(c, k, i)
  BY DEF Needs
<1>2. Needs(c, k, i) # {} /\ Needs(c, k, i) \subseteq kn
  BY <1>1 DEF Mounted
<1>. QED
  BY <1>1, <1>2

\* A generation that is installed has the schemas it shows.
LEMMA InstallOwn ==
    ASSUME TypeInv, NEW c \in Config, current < MaxGens, Install(c, current + 1, known')
    PROVE  Own(current)'
<1>1. current' = current + 1 /\ config'[current'] = c /\ current' \in Gen
  BY GenTyped DEF Install, TypeInv, TypeOK, Gen
<1>2. \A s \in Slot : s[1] = current' /\ s[2] \in DOMAIN Pipes[c] /\ s[3] \in Steps(c, s[2]) =>
         rank'[s] = Mounted(c, s[2], s[3], known')
  BY <1>1 DEF Install
<1>. QED
  BY <1>1, <1>2, MountedOwn DEF Own

\* The first generation.
LEMMA InitOwn == Init => OwnInv
<1>. SUFFICES ASSUME Init PROVE OwnInv
  OBVIOUS
<1>1. PICK c \in Config :
         /\ ~Clash({}, Asked(c))
         /\ config = [g \in Gen |-> IF g = 1 THEN c ELSE None]
         /\ added = Asked(c) /\ known = Asked(c) \ Remote
         /\ rank = [s \in Slot |->
              IF s[1] = 1 /\ s[2] \in DOMAIN Pipes[c] /\ s[3] \in Steps(c, s[2])
              THEN Mounted(c, s[2], s[3], Asked(c) \ Remote) ELSE 0]
  BY DEF Init
<1>2. SingleIds
  BY <1>1 DEF SingleIds, Clash
<1>3. current = 1 /\ config[1] = c
  BY <1>1, PipelinesAssumption DEF Init, Gen
<1>4. Own(current)
  BY <1>1, <1>3, MountedOwn DEF Own
<1>5. \A r \in Req : ~Busy(request[r])
  BY DEF Init, Idle, Busy
<1>. QED
  BY <1>2, <1>4, <1>5 DEF OwnInv

\* A process that ends.
LEMMA StopOwn == Stop => OwnInv'
<1>. SUFFICES ASSUME Stop PROVE OwnInv'
  OBVIOUS
<1>1. \A r \in Req : request'[r].at \in {"idle", "done"}
  BY DEF Stop, Idle, Done
<1>2. \A r \in Req : ~Busy(request[r])'
  BY <1>1 DEF Busy
<1>3. added' = {} /\ up' = FALSE
  BY DEF Stop
<1>. QED
  BY <1>2, <1>3 DEF OwnInv, SingleIds

\* What is mounted in generations that stay keeps its schemas.
LEMMA OwnStays ==
    ASSUME NEW g, Own(g), config'[g] = config[g], known \subseteq known',
           \A s \in Slot : s[1] = g => rank'[s] = rank[s]
    PROVE  Own(g)'
  BY DEF Own

\* A reload.
LEMMA LoadOwn ==
    ASSUME TypeInv, OwnInv, NEW c \in Config, Load(c)
    PROVE  OwnInv'
<1>1. CASE Clash(added, Asked(c))
  BY <1>1, StopOwn DEF Load
<1>2. ASSUME ~Clash(added, Asked(c)) PROVE OwnInv'
  <2>1. added' = added \cup Asked(c) /\ known \subseteq known' /\ UNCHANGED <<up, request>> /\ up
    BY <1>2 DEF Load
  <2>2. SingleIds'
    BY <1>2, <2>1 DEF OwnInv, SingleIds, Clash
  <2>3. ASSUME NEW g \in Gen, g <= current, Own(g) PROVE Own(g)'
    <3>1. CASE Throws(c)
      BY <1>2, <2>1, <2>3, <3>1, OwnStays DEF Load
    <3>2. CASE ~Throws(c)
      <4>1. Install(c, current + 1, known') /\ current < MaxGens
        BY <1>2, <3>2 DEF Load
      <4>2. config'[g] = config[g] /\ g # current + 1
        BY <4>1, <2>3, InstallTyped, GenTyped DEF TypeInv, TypeOK
      <4>3. \A s \in Slot : s[1] = g => rank'[s] = rank[s]
        BY <4>1, <4>2 DEF Install
      <4>. QED
        BY <2>1, <2>3, <4>2, <4>3, OwnStays
    <3>. QED
      BY <3>1, <3>2
  <2>4. Own(current)'
    <3>1. CASE Throws(c)
      <4>1. current' = current /\ current \in Gen /\ current <= current /\ Own(current)
        BY <1>2, <2>1, <3>1, GenTyped DEF Load, OwnInv, TypeInv, TypeOK
      <4>2. \A g : g = current => (Own(g)' <=> Own(current)')
        BY <4>1 DEF Own
      <4>. QED
        BY <4>1, <4>2, <2>3
    <3>2. CASE ~Throws(c)
      BY <1>2, <3>2, InstallOwn DEF Load
    <3>. QED
      BY <3>1, <3>2
  <2>5. ASSUME NEW r \in Req, Busy(request[r])' PROVE Own(request[r].gen)'
    <3>. DEFINE h == request[r].gen
    <3>1. request' = request /\ Busy(request[r]) /\ Own(h)
      BY <2>1, <2>5 DEF Busy, OwnInv
    <3>2. h \in Gen /\ h <= current
      BY <3>1, ConfOf DEF TypeInv, Placed
    <3>3. \A g : g = h => (Own(g)' <=> Own(h)')
      BY <3>1 DEF Own
    <3>4. \A g : g = h => g \in Gen /\ g <= current /\ Own(g)
      BY <3>1, <3>2
    <3>. QED
      BY <2>3, <3>3, <3>4
  <2>. QED
    BY <2>1, <2>2, <2>4, <2>5 DEF OwnInv
<1>. QED
  BY <1>1, <1>2

\* A start: the process has no requests yet.
LEMMA StartOwn ==
    ASSUME TypeInv, OwnInv, NEW c \in Config, Start(c)
    PROVE  OwnInv'
<1>1. \A r \in Req : ~Busy(request[r])
  BY DEF OwnInv, Start
<1>2. \A r \in Req : ~Busy(request[r])'
  BY <1>1 DEF Start, Busy
<1>3. SingleIds'
  BY DEF Start, SingleIds, Clash
<1>4. Own(current)'
  BY InstallOwn DEF Start
<1>. QED
  BY <1>2, <1>3, <1>4 DEF OwnInv

\* A schema arrives, and what waited for it and no other is mounted.
LEMMA FetchedOwn ==
    ASSUME TypeInv, OwnInv, NEW x \in Schema, Fetched(x)
    PROVE  OwnInv'
<1>1. known' = known \cup {x} /\ UNCHANGED <<up, current, config, added, request>>
  BY DEF Fetched
<1>2. ASSUME NEW g \in Gen, g <= current, Own(g) PROVE Own(g)'
  <2>1. config[g] \in Config
    BY <1>2 DEF TypeInv, GenerationsBuilt
  <2>2. ASSUME NEW s \in Slot, s[1] = g, s[2] \in DOMAIN Pipes[config[g]], s[3] \in Steps(config[g], s[2]),
               rank'[s] > 0, StepAt(config[g], s[2], s[3]).when = "schema"
        PROVE  StepAt(config[g], s[2], s[3]).schema \in known'
    <3>1. CASE rank'[s] = rank[s]
      BY <1>1, <1>2, <2>2, <3>1 DEF Own
    <3>2. CASE rank'[s] # rank[s]
      <4>1. Needs(config[g], s[2], s[3]) \subseteq known'
        BY <2>2, <3>2 DEF Fetched
      <4>2. StepAt(config[g], s[2], s[3]).schema \in Needs(config[g], s[2], s[3])
        BY <2>2 DEF Needs
      <4>. QED
        BY <4>1, <4>2
    <3>. QED
      BY <3>1, <3>2
  <2>. QED
    BY <1>1, <2>2 DEF Own
<1>3. current \in Gen /\ current <= current
  BY GenTyped DEF TypeInv, TypeOK
<1>4. up => Own(current)'
  <2>1. \A g : g = current => (Own(g)' <=> Own(current)')
    BY <1>1 DEF Own
  <2>. QED
    BY <1>2, <1>3, <2>1 DEF OwnInv
<1>5. ASSUME NEW r \in Req, Busy(request[r])' PROVE up /\ Own(request[r].gen)'
  <2>. DEFINE h == request[r].gen
  <2>1. Busy(request[r]) /\ Own(h) /\ up
    BY <1>1, <1>5 DEF Busy, OwnInv
  <2>2. h \in Gen /\ h <= current
    BY <2>1, ConfOf DEF TypeInv, Placed
  <2>3. \A g : g = h => (Own(g)' <=> Own(h)')
    BY <1>1 DEF Own
  <2>4. \A g : g = h => g \in Gen /\ g <= current /\ Own(g)
    BY <2>1, <2>2
  <2>. QED
    BY <1>2, <2>1, <2>3, <2>4
<1>. QED
  BY <1>1, <1>4, <1>5 DEF OwnInv, SingleIds

\* A request stays in its generation, or is in the current one.
LEMMA MoveOwn ==
    ASSUME TypeInv, OwnInv, up, NEW r \in Req, NEW z, RequestStep(r, z)
    PROVE  OwnInv'
<1>1. UNCHANGED <<up, current, config, rank, added, known>>
  BY DEF RequestStep, Moved, build
<1>2. Busy(z) => Own(z.gen)
  <2>1. CASE z = Done
    BY <2>1 DEF Busy, Done, Idle
  <2>2. CASE z.at = "routing" /\ z.pipe = 0 /\ z.gen = current
    BY <2>2 DEF OwnInv
  <2>3. CASE z # Done /\ Began(request[r], z) /\ Busy(request[r])
    BY <2>3 DEF Began, OwnInv
  <2>4. CASE (\E j : Reached(request[r], z, j)) /\ request[r].at = "inside"
    BY <2>4 DEF Reached, OwnInv, Busy
  <2>5. CASE Stayed(request[r], z)
    BY <2>5 DEF Stayed, OwnInv, Busy
  <2>. QED
    BY <2>1, <2>2, <2>3, <2>4, <2>5 DEF RequestStep
<1>3. \A x \in Req : Busy(request'[x]) => Own(request'[x].gen)
  BY <1>2 DEF RequestStep, Moved, OwnInv, TypeInv, TypeOK
<1>4. \A x \in Req : Busy(request[x])' => Own(request[x].gen)'
  BY <1>1, <1>3 DEF Own, Busy
<1>5. Own(current)'
  BY <1>1 DEF Own, OwnInv
<1>. QED
  BY <1>1, <1>4, <1>5 DEF OwnInv, SingleIds

\* Every step.
LEMMA NextOwn == TypeInv /\ OwnInv /\ [Next]_vars => OwnInv'
<1>. SUFFICES ASSUME TypeInv, OwnInv, [Next]_vars PROVE OwnInv'
  OBVIOUS
<1>1. ASSUME NEW c \in Config, Load(c) \/ Start(c) PROVE OwnInv'
  BY <1>1, LoadOwn, StartOwn
<1>2. ASSUME NEW s \in Schema, Fetched(s) \/ Unfetched(s) PROVE OwnInv'
  BY <1>2, FetchedOwn, StopOwn DEF Unfetched
<1>3. ASSUME NEW r \in Req, Advance(r) \/ \E m : Arrive(r, m) PROVE OwnInv'
  <2>1. up
    BY <1>3 DEF Advance, Arrive, TakeRoute, Skip, FailCondition, Enter, Return, Fall
  <2>. QED
    BY <1>3, <2>1, RequestSteps, MoveOwn
<1>4. CASE UNCHANGED vars
  BY <1>4 DEF vars, build, OwnInv, Own, SingleIds, Busy
<1>. QED
  BY <1>1, <1>2, <1>3, <1>4 DEF Next

\* What a condition finds under the $id of its schema is its own schema, through reloads
\* and restarts and for requests of every generation (schemas/index.js:18).
THEOREM SchemasStayOwn == Spec => []SchemasAreOwn
<1>1. TypeInv /\ OwnInv => SchemasAreOwn
  <2>. SUFFICES ASSUME TypeInv, OwnInv, NEW r \in Req, request[r].at = "inside",
                       NEW i \in Ahead(request[r]), NEW x \in added,
                       StepOf(request[r], i).when = "schema", IdOf[x] = IdOf[StepOf(request[r], i).schema]
                PROVE  x = StepOf(request[r], i).schema
    BY DEF SchemasAreOwn
  <2>. DEFINE q == request[r]
  <2>1. Busy(q) /\ Conf(q) = q.born /\ q.born = config[q.gen] /\ q.born \in Config /\ q.gen \in Gen
        /\ q.pipe \in DOMAIN Pipes[q.born]
    BY ConfOf DEF Busy, TypeInv, Placed
  <2>2. i \in Steps(q.born, q.pipe) /\ rank[<<q.gen, q.pipe, i>>] > 0
    BY <2>1 DEF Ahead, RankOf, RouterOf
  <2>3. <<q.gen, q.pipe, i>> \in Slot
    BY <2>1, <2>2, PlacesBounded
  <2>4. StepOf(q, i).schema \in known
    BY <2>1, <2>2, <2>3 DEF OwnInv, Own, StepOf
  <2>. QED
    BY <2>4 DEF OwnInv, SingleIds, TypeInv, TypeOK
<1>. QED
  BY <1>1, InitTyped, NextTyped, InitOwn, NextOwn, PTL DEF Spec
=============================================================================
