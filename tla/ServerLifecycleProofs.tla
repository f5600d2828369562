----------------------- MODULE ServerLifecycleProofs -----------------------
(***************************************************************************)
(* Proofs about the server's life: a published transport is whole until    *)
(* somebody closes the server, serving does not stumble over missing       *)
(* objects before that, and main() leaves nothing of what it opened.       *)
(*                                                                         *)
(* The invariant has three parts: which generation of the transport each   *)
(* point of the serving thread belongs to, what is there while nobody has  *)
(* asked the server to stop, and, for main(), which objects a closing      *)
(* caller at each of its steps has seen deleted.                           *)
(***************************************************************************)
EXTENDS ServerLifecycle, TLAPS

Opened(k) == attr[k] = 1 /\ <<k, 1>> \in alive
Whole     == gen = 1 /\ \A k \in Kinds : Opened(k)
Dead      == \A k \in Kinds : <<k, 1>> \notin alive

(* open() for the first time, before the transport is published.           *)
FirstOpening ==
  pc = "open" \/ (pc = "node" /\ gen = 0) \/ (pc \in {"service", "server", "publish"} /\ gen = 1)

Stages ==
  /\ pc = "open" => gen = 0
  /\ pc = "node" => gen = 0 \/ (gen = 1 /\ closed)
  /\ pc = "drain" => gen = 1
  /\ pc = "asserts" => gen = 2
  /\ pc \in {"service", "server"} => gen # 0
  /\ pc = "publish" => gen = 1
  /\ pc = "service" /\ gen = 1 => Opened("node")
  /\ pc = "server" /\ gen = 1 => Opened("node") /\ Opened("service")
  /\ pc = "publish" => Whole
  /\ FirstOpening => bySignal /\ ~published
  /\ gen = 0 => ~published /\ alive = {}
  /\ gen = 2 => closed
  /\ pc = "finally" => bySignal

Callings ==
  /\ \A c \in Callers : closing[c].step # "idle" => closed
  /\ closing["main"].step # "idle" => bySignal /\ pc \in {"finally", "done"}
  /\ pc = "done" /\ bySignal => closing["main"].step = "finished"
  /\ Busy("other") => published

(* Before close() is called. *)
Undisturbed ==
  ~closed =>
    /\ published => Whole
    /\ pc \in {"loop", "drain", "wait", "receive", "handle"} => published
    /\ pc = "wait" => ref = 1
    /\ error \in {"none", "NativeError", "Unserviceable"}

(* What a caller that has got this far knows about the first transport.    *)
Progress(c) ==
  LET step == closing[c].step
      k    == closing[c].k
  IN /\ step \in {"get", "delete", "clear"} => \A j \in 1 .. 3 : j < k => <<Attrs[j], 1>> \notin alive
     /\ step = "delete" /\ <<Attrs[k], 1>> \in alive => closing[c].held = 1
     /\ step = "clear" => <<Attrs[k], 1>> \notin alive
     /\ step = "unpublish" => Dead
     /\ step = "finished" /\ c = "main" => Dead

Released ==
  bySignal =>
    /\ \A k \in Kinds : <<k, 1>> \in alive => attr[k] = 1
    /\ ~published /\ ~FirstOpening => Dead
    /\ published /\ closing["main"].step = "idle" /\ ~Busy("other") => \A k \in Kinds : attr[k] # None
    /\ (pc = "node" /\ gen = 1) \/ gen = 2 => ~published
    /\ \A c \in Callers : Progress(c)

LifecycleInv == TypeOK /\ Stages /\ Callings /\ Undisturbed /\ Released

-----------------------------------------------------------------------------
LEMMA AttrFacts ==
  /\ Kinds = {"server", "service", "node"} /\ DOMAIN Attrs = 1 .. 3 /\ Len(Attrs) = 3
  /\ Attrs[1] = "server" /\ Attrs[2] = "service" /\ Attrs[3] = "node"
  /\ \A k \in Kinds : \E i \in 1 .. 3 : k = Attrs[i]
  /\ Gens = {0, 1, 2} /\ None = 0
BY DEF Kinds, Attrs, Gens, None

LEMMA LifecycleInit == Init => LifecycleInv
<1> SUFFICES ASSUME Init PROVE LifecycleInv
  OBVIOUS
<1>1. /\ \A c \in Callers : closing[c] = Idle
      /\ closing["main"].step = "idle" /\ closing["other"].step = "idle"
  BY DEF Init, Callers, Idle
<1>2. \/ /\ bySignal = TRUE /\ published = FALSE /\ gen = 0 /\ alive = {} /\ pc = "open"
         /\ \A k \in Kinds : attr[k] = 0
      \/ /\ bySignal = FALSE /\ published = TRUE /\ gen = 1 /\ alive = Kinds \X {1} /\ pc = "loop"
         /\ \A k \in Kinds : attr[k] = 1
  BY LifecycleAssumption DEF Init
<1>3. attr = [k \in Kinds |-> gen] /\ closed = FALSE /\ ref = 0 /\ error = "none"
      /\ budget = MaxRequests /\ closing = [c \in Callers |-> Idle]
  BY AttrFacts DEF Init
<1>7. TypeOK
  <2>1. Idle \in [step : {"idle", "get", "delete", "clear", "unpublish", "finished"},
                  k : DOMAIN Attrs, held : Gens]
    BY AttrFacts DEF Idle
  <2>2. attr \in [Kinds -> Gens] /\ gen \in Gens /\ alive \subseteq Kinds \X Gens
    BY <1>2, <1>3, AttrFacts
  <2>3. budget \in 0 .. MaxRequests /\ error \in Errors /\ ref \in Gens
    BY <1>3, AttrFacts, LifecycleAssumption DEF Errors
  <2> QED BY <1>2, <1>3, <2>1, <2>2, <2>3 DEF TypeOK
<1>8. Stages
  BY <1>2, <1>3 DEF Stages, FirstOpening
<1>4. Callings
  BY <1>1 DEF Callings, Busy, Init, Idle
<1>5. Undisturbed
  BY <1>2, <1>3 DEF Undisturbed, Whole, Opened
<1>6. Released
  BY <1>1, <1>2 DEF Released, Progress, Idle, FirstOpening
<1> QED BY <1>7, <1>8, <1>4, <1>5, <1>6 DEF LifecycleInv

(* A step of the serving thread that touches neither objects nor callers.  *)
LEMMA PcStep ==
  ASSUME LifecycleInv, UNCHANGED <<bySignal, closed, published, objects, closing>>,
         TypeOK', Stages', Undisturbed',
         closing["main"].step # "idle" => pc' \in {"finally", "done"},
         pc' = "done" => pc = "done" \/ ~bySignal \/ closing["main"].step = "finished",
         FirstOpening => FirstOpening' \/ Dead,
         (pc' = "node" /\ gen = 1) => pc = "node" \/ ~bySignal \/ ~published
  PROVE  LifecycleInv'
<1>1. Callings'
  BY DEF LifecycleInv, Callings, Busy
<1>2. Released'
  BY DEF LifecycleInv, Released, Progress, Busy, Dead, objects
<1> QED BY <1>1, <1>2 DEF LifecycleInv

(* While the serving thread runs, main() has not begun to close.           *)
LEMMA MainIdle ==
  ASSUME LifecycleInv, pc \notin {"finally", "done"}
  PROVE  closing["main"].step = "idle"
BY DEF LifecycleInv, Callings

LEMMA PcTyped ==
  ASSUME TypeOK, UNCHANGED <<bySignal, closed, published, objects, closing>>,
         pc' \in Kinds \cup {"open", "publish", "loop", "drain", "asserts", "wait",
                             "receive", "handle", "finally", "done"},
         error' \in Errors, ref' \in Gens, budget' \in 0 .. MaxRequests
  PROVE  TypeOK'
BY DEF TypeOK, objects

LEMMA OpenKeeps ==
  ASSUME LifecycleInv, Open
  PROVE  LifecycleInv'
<1>1. /\ pc = "open" /\ pc' = IF closed \/ published THEN "loop" ELSE "node"
      /\ UNCHANGED <<bySignal, closed, published, objects, ref, error, closing, budget>>
      /\ UNCHANGED <<attr, gen, alive>>
  BY DEF Open, At, objects
<1>2. gen = 0 /\ ~published /\ alive = {} /\ closing["main"].step = "idle"
  BY <1>1, MainIdle DEF LifecycleInv, Stages
<1>3. TypeOK'
  BY <1>1, AttrFacts, PcTyped DEF LifecycleInv, TypeOK
<1>4. Stages'
  BY <1>1, <1>2 DEF LifecycleInv, Stages, FirstOpening
<1>5. Undisturbed'
  BY <1>1, <1>2 DEF LifecycleInv, Undisturbed
<1>6. FirstOpening => FirstOpening' \/ Dead
  BY <1>2 DEF Dead
<1> QED BY <1>1, <1>2, <1>3, <1>4, <1>5, <1>6, PcStep

(* Serving ends: by itself or over an exception. *)
LEMMA LeaveStep ==
  ASSUME LifecycleInv, pc \notin {"finally", "done"}, pc' = Leave,
         UNCHANGED <<bySignal, closed, published, objects, closing>>,
         error' \in Errors, ref' \in Gens, budget' \in 0 .. MaxRequests,
         error' \in {"none", "NativeError", "Unserviceable"} \/ closed,
         FirstOpening => Dead
  PROVE  LifecycleInv'
<1>1. UNCHANGED <<attr, gen, alive>>
  BY DEF objects
<1>2. (pc' = "finally" /\ bySignal) \/ (pc' = "done" /\ ~bySignal)
  BY DEF Leave
<1>3. TypeOK'
  BY <1>2, PcTyped DEF LifecycleInv
<1>4. Stages'
  BY <1>1, <1>2 DEF LifecycleInv, Stages, FirstOpening
<1>5. Undisturbed'
  BY <1>1, <1>2 DEF LifecycleInv, Undisturbed, Whole, Opened
<1> QED BY <1>2, <1>3, <1>4, <1>5, PcStep, MainIdle

(* Creating an object, for the first time or for a reopened transport.     *)
LEMMA CreatedReleased ==
  ASSUME LifecycleInv, pc \in Kinds, ~(bySignal /\ Busy("other")),
         NEW k \in Kinds, NEW g \in Nat,
         attr' = [attr EXCEPT ![k] = g], alive' = alive \cup {<<k, g>>}, gen' = g,
         UNCHANGED <<bySignal, published, closing>>,
         pc' # "node",
         (g = 1 /\ FirstOpening /\ FirstOpening') \/ (g = 2 /\ ~FirstOpening)
  PROVE  Released'
<1> SUFFICES ASSUME bySignal PROVE Released'
  BY DEF Released
<1>1. closing["main"].step = "idle" /\ closing["other"].step \in {"idle", "finished"}
  BY MainIdle, AttrFacts DEF Busy
<1>2. \A c \in Callers : closing[c].step = "idle" \/ (c # "main" /\ closing[c].step = "finished")
  BY <1>1 DEF Callers
<1>3. \A c \in Callers : Progress(c)'
  BY <1>2 DEF Progress
<1>4. attr'[k] = g /\ \A j \in Kinds : j # k => attr'[j] = attr[j]
  BY DEF LifecycleInv, TypeOK
<1>5. ~published
  <2>1. gen \in {0, 1, 2}
    BY AttrFacts DEF LifecycleInv, TypeOK
  <2>2. FirstOpening => ~published
    BY DEF LifecycleInv, Stages
  <2>3. ~FirstOpening => (pc = "node" /\ gen = 1) \/ gen = 2
    BY <2>1, AttrFacts DEF LifecycleInv, Stages, FirstOpening
  <2> QED BY <2>2, <2>3 DEF LifecycleInv, Released
<1>6. \A j \in Kinds : <<j, 1>> \in alive' => attr'[j] = 1
  <2>1. CASE g = 1
    BY <1>4, <2>1 DEF LifecycleInv, Released
  <2>2. CASE g = 2
    BY <1>5, <2>2 DEF LifecycleInv, Released, Dead
  <2> QED BY <2>1, <2>2
<1>7. FirstOpening' \/ Dead'
  <2>1. CASE g = 2
    BY <1>5, <2>1 DEF LifecycleInv, Released, Dead
  <2> QED BY <2>1
<1> QED BY <1>1, <1>3, <1>5, <1>6, <1>7 DEF Released

LEMMA OpenNodeKeeps ==
  ASSUME LifecycleInv, OpenNode
  PROVE  LifecycleInv'
<1>1. /\ pc = "node" /\ gen' = gen + 1 /\ attr' = [attr EXCEPT !["node"] = gen + 1]
      /\ alive' = alive \cup {<<"node", gen + 1>>} /\ pc' = "service"
      /\ UNCHANGED <<bySignal, closed, published, ref, error, closing, budget>>
      /\ ~(bySignal /\ Busy("other"))
  BY DEF OpenNode, At, Created
<1>2. (gen = 0 /\ bySignal /\ ~published /\ alive = {}) \/ (gen = 1 /\ closed)
  BY <1>1 DEF LifecycleInv, Stages, FirstOpening
<1>3. attr'["node"] = gen + 1 /\ \A k \in Kinds : k # "node" => attr'[k] = attr[k]
  BY <1>1, AttrFacts DEF LifecycleInv, TypeOK
<1>4. TypeOK'
  BY <1>1, <1>2, AttrFacts DEF LifecycleInv, TypeOK
<1>5. Stages'
  BY <1>1, <1>2, <1>3 DEF LifecycleInv, Stages, FirstOpening, Opened
<1>6. Callings'
  BY <1>1 DEF LifecycleInv, Callings, Busy
<1>7. Undisturbed'
  BY <1>1, <1>2 DEF LifecycleInv, Undisturbed
<1>8. Released'
  <2>1. CASE gen = 0
    <3>1. FirstOpening /\ FirstOpening' /\ gen + 1 = 1 /\ "node" \in Kinds
      BY <1>1, <2>1, AttrFacts DEF FirstOpening
    <3>2. /\ gen' = 1 /\ attr' = [attr EXCEPT !["node"] = 1] /\ alive' = alive \cup {<<"node", 1>>}
          /\ pc \in Kinds /\ pc' # "node" /\ UNCHANGED <<bySignal, published, closing>>
      BY <1>1, <3>1
    <3> QED BY <1>1, <3>1, <3>2, CreatedReleased
  <2>2. CASE gen = 1
    <3>1. ~FirstOpening /\ gen + 1 = 2 /\ "node" \in Kinds
      BY <1>1, <2>2, AttrFacts DEF FirstOpening
    <3>2. /\ gen' = 2 /\ attr' = [attr EXCEPT !["node"] = 2] /\ alive' = alive \cup {<<"node", 2>>}
          /\ pc \in Kinds /\ pc' # "node" /\ UNCHANGED <<bySignal, published, closing>>
      BY <1>1, <3>1
    <3> QED BY <1>1, <3>1, <3>2, CreatedReleased
  <2> QED BY <1>2, <2>1, <2>2
<1> QED BY <1>4, <1>5, <1>6, <1>7, <1>8 DEF LifecycleInv

(* Where the second and the third object are created. *)
LEMMA ObjectCreated ==
  ASSUME LifecycleInv, NEW k \in Kinds, pc \in {"service", "server"},
         ~(bySignal /\ Busy("other")),
         Created(k, gen), UNCHANGED <<bySignal, closed, published, gen, ref, error, closing, budget>>
  PROVE  /\ attr'[k] = gen /\ gen \in {1, 2} /\ (gen = 1 => FirstOpening) /\ (gen = 2 => closed)
         /\ \A j \in Kinds : j # k => attr'[j] = attr[j]
         /\ alive' = alive \cup {<<k, gen>>}
         /\ pc' \in {"server", "publish", "asserts"} => TypeOK'
         /\ Callings /\ closing["main"].step = "idle"
         /\ (gen = 1 => FirstOpening') /\ pc' # "node" => Released'
<1>1. attr' = [attr EXCEPT ![k] = gen] /\ alive' = alive \cup {<<k, gen>>}
  BY DEF Created
<1>2. gen \in {1, 2}
  BY AttrFacts DEF LifecycleInv, TypeOK, Stages
<1>3. (gen = 1 => FirstOpening) /\ (gen = 2 => closed /\ ~FirstOpening) /\ gen' = gen
  BY DEF LifecycleInv, Stages, FirstOpening
<1>4. attr'[k] = gen /\ \A j \in Kinds : j # k => attr'[j] = attr[j]
  BY <1>1 DEF LifecycleInv, TypeOK
<1>5. ASSUME pc' \in {"server", "publish", "asserts"} PROVE TypeOK'
  BY <1>1, <1>2, <1>5, AttrFacts DEF LifecycleInv, TypeOK
<1>6. ASSUME gen = 1 => FirstOpening', pc' # "node" PROVE Released'
  <2>1. pc \in Kinds /\ gen \in Nat
    BY <1>2, AttrFacts
  <2>2. (gen = 1 /\ FirstOpening /\ FirstOpening') \/ (gen = 2 /\ ~FirstOpening)
    BY <1>2, <1>3, <1>6
  <2> QED BY <1>1, <1>3, <1>6, <2>1, <2>2, CreatedReleased
<1> QED BY <1>1, <1>2, <1>3, <1>4, <1>5, <1>6, MainIdle DEF LifecycleInv

LEMMA OpenServiceKeeps ==
  ASSUME LifecycleInv, OpenService
  PROVE  LifecycleInv'
<1>1. pc = "service" /\ UNCHANGED <<bySignal, closed, published, ref, closing, budget>>
      /\ ~(bySignal /\ Busy("other"))
  BY DEF OpenService, At
<1>2. CASE attr["node"] = None /\ Raise("NoneAttribute") /\ UNCHANGED objects
  <2>1. gen # 1 /\ gen # 0
    BY <1>1, <1>2, AttrFacts DEF LifecycleInv, Stages, Opened
  <2>2. gen = 2 /\ closed
    BY <2>1, AttrFacts DEF LifecycleInv, Stages, TypeOK
  <2>3. ~FirstOpening
    BY <1>1, <2>2 DEF FirstOpening
  <2>4. /\ pc' = Leave /\ error' \in Errors /\ ref' \in Gens /\ budget' \in 0 .. MaxRequests
        /\ pc \notin {"finally", "done"}
    BY <1>1, <1>2 DEF Raise, Errors, LifecycleInv, TypeOK
  <2> QED BY <1>1, <1>2, <2>2, <2>3, <2>4, LeaveStep
<1>3. CASE Created("service", gen) /\ pc' = "server" /\ UNCHANGED <<gen, error>>
  <2>1. "service" \in Kinds /\ "service" # "node"
    BY AttrFacts
  <2>2. /\ attr'["service"] = gen /\ gen \in {1, 2} /\ (gen = 1 => FirstOpening) /\ (gen = 2 => closed)
        /\ \A j \in Kinds : j # "service" => attr'[j] = attr[j]
        /\ alive' = alive \cup {<<"service", gen>>}
        /\ TypeOK' /\ closing["main"].step = "idle" /\ Callings
        /\ (gen = 1 => FirstOpening') /\ pc' # "node" => Released'
    BY <1>1, <1>3, <2>1, ObjectCreated
  <2>3. FirstOpening' <=> gen = 1
    BY <1>3 DEF FirstOpening
  <2>4. Stages'
    BY <1>1, <1>3, <2>2, <2>3, AttrFacts DEF LifecycleInv, Stages, Opened
  <2>5. Callings'
    BY <1>1, <1>3, <2>2 DEF Callings, Busy
  <2>6. Undisturbed'
    BY <1>1, <1>3, <2>2 DEF LifecycleInv, Undisturbed, Stages
  <2> QED BY <1>3, <2>2, <2>3, <2>4, <2>5, <2>6 DEF LifecycleInv
<1> QED BY <1>2, <1>3 DEF OpenService

LEMMA OpenServerKeeps ==
  ASSUME LifecycleInv, OpenServer
  PROVE  LifecycleInv'
<1>1. pc = "server" /\ UNCHANGED <<bySignal, closed, published, ref, closing, budget>>
      /\ ~(bySignal /\ Busy("other"))
  BY DEF OpenServer, At
<1>2. CASE attr["service"] = None /\ Raise("NoneAttribute") /\ UNCHANGED objects
  <2>1. gen # 1 /\ gen # 0
    BY <1>1, <1>2, AttrFacts DEF LifecycleInv, Stages, Opened
  <2>2. gen = 2 /\ closed
    BY <2>1, AttrFacts DEF LifecycleInv, Stages, TypeOK
  <2>3. ~FirstOpening
    BY <1>1, <2>2 DEF FirstOpening
  <2>4. /\ pc' = Leave /\ error' \in Errors /\ ref' \in Gens /\ budget' \in 0 .. MaxRequests
        /\ pc \notin {"finally", "done"}
    BY <1>1, <1>2 DEF Raise, Errors, LifecycleInv, TypeOK
  <2> QED BY <1>1, <1>2, <2>2, <2>3, <2>4, LeaveStep
<1>3. CASE /\ Created("server", gen) /\ pc' = IF Opening THEN "publish" ELSE "asserts"
           /\ UNCHANGED <<gen, error>>
  <2>1. "server" \in Kinds
    BY AttrFacts
  <2>2. /\ attr'["server"] = gen /\ gen \in {1, 2} /\ (gen = 1 => FirstOpening) /\ (gen = 2 => closed)
        /\ \A j \in Kinds : j # "server" => attr'[j] = attr[j]
        /\ alive' = alive \cup {<<"server", gen>>}
        /\ TypeOK' /\ closing["main"].step = "idle" /\ Callings
        /\ (gen = 1 => FirstOpening') /\ pc' # "node" => Released'
    BY <1>1, <1>3, <2>1, ObjectCreated
  <2>3. (gen = 1 /\ pc' = "publish") \/ (gen = 2 /\ pc' = "asserts")
    BY <1>1, <1>3, <2>2 DEF Opening
  <2>4. FirstOpening' <=> gen = 1
    BY <1>3, <2>3 DEF FirstOpening
  <2>5. gen = 1 => Whole'
    BY <1>1, <1>3, <2>2, AttrFacts DEF LifecycleInv, Stages, Whole, Opened
  <2>6. Stages'
    BY <1>1, <1>3, <2>2, <2>3, <2>4, <2>5 DEF LifecycleInv, Stages
  <2>7. Callings'
    BY <1>1, <1>3, <2>2 DEF Callings, Busy
  <2>8. Undisturbed'
    BY <1>1, <1>3, <2>2, <2>3 DEF LifecycleInv, Undisturbed, Stages
  <2> QED BY <1>3, <2>2, <2>3, <2>4, <2>6, <2>7, <2>8 DEF LifecycleInv
<1> QED BY <1>2, <1>3 DEF OpenServer

LEMMA OpenFailsKeeps ==
  ASSUME LifecycleInv, OpenFails
  PROVE  LifecycleInv'
<1>1. /\ pc \in {"server", "service", "node"} /\ ~(bySignal /\ Busy("other"))
      /\ error' = "NativeError" /\ pc' = Leave
      /\ UNCHANGED <<bySignal, closed, published, ref, closing, budget>>
  BY AttrFacts DEF OpenFails, At, Raise
<1>2. Opening <=> FirstOpening
  BY <1>1, AttrFacts DEF LifecycleInv, TypeOK, Stages, Opening, FirstOpening
<1>3. CASE /\ Opening /\ attr' = [k \in Kinds |-> None] /\ UNCHANGED gen
           /\ alive' = alive \ {<<k, attr[k]>> : k \in Kinds}
  <2>1. bySignal /\ ~published /\ pc' = "finally" /\ closing["main"].step = "idle"
    BY <1>1, <1>2, <1>3, MainIdle DEF LifecycleInv, Stages, Leave
  <2>2. Dead' /\ \A x \in alive' : x \in alive
    <3> SUFFICES ASSUME NEW k \in Kinds PROVE <<k, 1>> \notin alive'
      BY <1>3 DEF Dead
    <3>1. CASE <<k, 1>> \in alive
      BY <1>3, <2>1, <3>1 DEF LifecycleInv, Released
    <3>2. CASE <<k, 1>> \notin alive
      BY <1>3, <3>2
    <3> QED BY <3>1, <3>2
  <2>3. TypeOK'
    BY <1>1, <1>3, <2>1, AttrFacts DEF LifecycleInv, TypeOK, Errors
  <2>4. Stages'
    BY <1>1, <1>3, <2>1, <2>2 DEF LifecycleInv, Stages, FirstOpening
  <2>5. Callings'
    BY <1>1, <2>1 DEF LifecycleInv, Callings, Busy
  <2>6. Undisturbed'
    BY <1>1, <2>1 DEF LifecycleInv, Undisturbed
  <2>7. Released'
    BY <1>1, <2>1, <2>2 DEF LifecycleInv, Released, Progress, Dead
  <2> QED BY <2>3, <2>4, <2>5, <2>6, <2>7 DEF LifecycleInv
<1>4. CASE ~Opening /\ UNCHANGED objects
  <2>1. /\ error' \in Errors /\ ref' \in Gens /\ budget' \in 0 .. MaxRequests
        /\ pc \notin {"finally", "done"} /\ error' \in {"none", "NativeError", "Unserviceable"}
    BY <1>1 DEF Errors, LifecycleInv, TypeOK
  <2> QED BY <1>1, <1>2, <1>4, <2>1, LeaveStep
<1> QED BY <1>3, <1>4 DEF OpenFails

LEMMA PublishKeeps ==
  ASSUME LifecycleInv, Publish
  PROVE  LifecycleInv'
<1>1. /\ pc = "publish" /\ published' = TRUE /\ pc' = "loop" /\ ~(bySignal /\ Busy("other"))
      /\ UNCHANGED <<bySignal, closed, attr, gen, alive, ref, error, closing, budget>>
  BY DEF Publish, At, objects
<1>2. gen = 1 /\ Whole /\ bySignal /\ closing["main"].step = "idle"
  BY <1>1, MainIdle DEF LifecycleInv, Stages, FirstOpening
<1>3. TypeOK'
  BY <1>1 DEF LifecycleInv, TypeOK
<1>4. Stages'
  BY <1>1, <1>2 DEF LifecycleInv, Stages, FirstOpening
<1>5. Callings'
  BY <1>1, <1>2 DEF LifecycleInv, Callings, Busy
<1>6. Undisturbed'
  BY <1>1, <1>2 DEF LifecycleInv, Undisturbed, Whole, Opened
<1>7. Released'
  <2>1. \A c \in Callers : Progress(c)'
    BY <1>1, <1>2 DEF LifecycleInv, Released, Progress, Dead
  <2>2. \A k \in Kinds : attr'[k] # None
    BY <1>1, <1>2, AttrFacts DEF Whole, Opened
  <2> QED BY <1>1, <1>2, <2>1, <2>2 DEF LifecycleInv, Released
<1> QED BY <1>3, <1>4, <1>5, <1>6, <1>7 DEF LifecycleInv

LEMMA LoopKeeps ==
  ASSUME LifecycleInv, Loop
  PROVE  LifecycleInv'
<1>1. /\ pc = "loop" /\ pc' = IF closed THEN Leave ELSE "drain"
      /\ UNCHANGED <<bySignal, closed, published, objects, ref, error, closing, budget>>
  BY DEF Loop, At
<1>2. ~FirstOpening /\ error' \in Errors /\ ref' \in Gens /\ budget' \in 0 .. MaxRequests
  BY <1>1 DEF FirstOpening, LifecycleInv, TypeOK
<1>3. CASE closed
  BY <1>1, <1>2, <1>3, LeaveStep
<1>4. CASE ~closed
  <2>1. Whole /\ published /\ pc' = "drain" /\ UNCHANGED <<attr, gen, alive>>
    BY <1>1, <1>4 DEF LifecycleInv, Undisturbed, objects
  <2>2. TypeOK'
    BY <1>1, <1>2, <2>1, PcTyped DEF LifecycleInv
  <2>3. Stages'
    BY <1>1, <2>1 DEF LifecycleInv, Stages, FirstOpening, Whole
  <2>4. Undisturbed'
    BY <1>1, <2>1 DEF LifecycleInv, Undisturbed, Whole, Opened
  <2> QED BY <1>1, <1>2, <2>1, <2>2, <2>3, <2>4, PcStep, MainIdle
<1> QED BY <1>3, <1>4

(* Nothing is missing before close() is called. *)
LEMMA NothingMissing ==
  ASSUME LifecycleInv, pc \in {"drain", "asserts", "wait", "receive", "handle"}, ~closed
  PROVE  /\ \A k \in Kinds : attr[k] = 1 /\ attr[k] # None /\ Usable(k, attr[k])
         /\ pc = "wait" => Usable("node", ref)
<1>1. pc # "asserts"
  BY DEF LifecycleInv, Stages
<1> QED BY <1>1, AttrFacts DEF LifecycleInv, Undisturbed, Whole, Opened, Usable

LEMMA ProceedKeeps ==
  ASSUME LifecycleInv, pc \in {"drain", "asserts"}, Proceed, ~(bySignal /\ Busy("other")),
         UNCHANGED <<bySignal, closed, published, objects, closing, budget>>
  PROVE  LifecycleInv'
<1>1. ~FirstOpening /\ "node" \in Kinds /\ "server" \in Kinds /\ budget' \in 0 .. MaxRequests
  BY AttrFacts DEF FirstOpening, LifecycleInv, TypeOK
<1>2. CASE /\ attr["node"] = None \/ attr["server"] = None
           /\ Raise("AssertionError") /\ UNCHANGED ref
  <2>1. closed
    BY <1>1, <1>2, NothingMissing
  <2>2. error' \in Errors /\ ref' \in Gens /\ pc' = Leave /\ pc \notin {"finally", "done"}
    BY <1>2 DEF Raise, Errors, LifecycleInv, TypeOK
  <2> QED BY <1>1, <2>1, <2>2, LeaveStep
<1>3. CASE /\ attr["node"] # None /\ attr["server"] # None
           /\ ref' = attr["node"] /\ pc' = "wait" /\ UNCHANGED error
  <2>1. UNCHANGED <<attr, gen, alive>> /\ ref' \in Gens /\ error' \in Errors
    BY <1>1, <1>3 DEF objects, LifecycleInv, TypeOK
  <2>2. TypeOK'
    BY <1>1, <1>3, <2>1, PcTyped DEF LifecycleInv
  <2>3. Stages'
    BY <1>3, <2>1 DEF LifecycleInv, Stages, FirstOpening
  <2>4. Undisturbed'
    BY <1>1, <1>3, <2>1, NothingMissing DEF LifecycleInv, Undisturbed, Whole, Opened, Stages
  <2> QED BY <1>1, <1>3, <2>2, <2>3, <2>4, PcStep, MainIdle
<1> QED BY <1>2, <1>3 DEF Proceed

LEMMA DrainKeeps ==
  ASSUME LifecycleInv, Drain
  PROVE  LifecycleInv'
<1>1. /\ pc = "drain" /\ ~(bySignal /\ Busy("other"))
      /\ UNCHANGED <<bySignal, closed, published, objects, closing, budget>>
      /\ UNCHANGED <<attr, gen, alive>>
  BY DEF Drain, At, objects
<1>2. CASE attr["server"] = None /\ pc' = "node" /\ UNCHANGED <<ref, error>>
  <2>1. closed /\ gen = 1 /\ "server" \in Kinds /\ ~FirstOpening
    BY <1>1, <1>2, AttrFacts, NothingMissing DEF LifecycleInv, Stages, FirstOpening
  <2>2. TypeOK'
    BY <1>1, <1>2, AttrFacts, PcTyped DEF LifecycleInv, TypeOK
  <2>3. Stages'
    BY <1>1, <1>2, <2>1 DEF LifecycleInv, Stages, FirstOpening
  <2>4. Undisturbed'
    BY <1>1, <2>1 DEF Undisturbed
  <2>5. ~bySignal \/ ~published
    BY <1>1, <1>2, <2>1, MainIdle DEF LifecycleInv, Released
  <2> QED BY <1>1, <1>2, <2>1, <2>2, <2>3, <2>4, <2>5, PcStep, MainIdle
<1>3. CASE Proceed
  BY <1>1, <1>3, ProceedKeeps
<1> QED BY <1>2, <1>3 DEF Drain

LEMMA AssertsKeeps ==
  ASSUME LifecycleInv, Asserts
  PROVE  LifecycleInv'
BY ProceedKeeps DEF Asserts, At

(* A call that goes on, after which the loop takes the next step.          *)
LEMMA ServingStep ==
  ASSUME LifecycleInv, pc \in {"wait", "receive", "handle"}, pc' \in {"receive", "loop", "handle"},
         UNCHANGED <<bySignal, closed, published, objects, error, closing>>,
         ref' \in Gens, budget' \in 0 .. MaxRequests
  PROVE  LifecycleInv'
<1>1. UNCHANGED <<attr, gen, alive>> /\ ~FirstOpening /\ error' \in Errors
  BY DEF objects, FirstOpening, LifecycleInv, TypeOK
<1>2. TypeOK'
  BY <1>1, PcTyped DEF LifecycleInv
<1>3. Stages'
  BY <1>1 DEF LifecycleInv, Stages, FirstOpening
<1>4. Undisturbed'
  BY <1>1 DEF LifecycleInv, Undisturbed, Whole, Opened
<1> QED BY <1>1, <1>2, <1>3, <1>4, PcStep, MainIdle

(* Or it fails: over a deleted object only after close() was called.       *)
LEMMA FailingStep ==
  ASSUME LifecycleInv, pc \in {"wait", "receive", "handle"}, NEW e, Raise(e),
         e \in Errors, e \in {"none", "NativeError", "Unserviceable"} \/ closed,
         UNCHANGED <<bySignal, closed, published, objects, closing>>,
         ref' \in Gens, budget' \in 0 .. MaxRequests
  PROVE  LifecycleInv'
<1>1. error' = e /\ pc' = Leave /\ ~FirstOpening /\ pc \notin {"finally", "done"}
  BY DEF Raise, FirstOpening
<1> QED BY <1>1, LeaveStep

LEMMA WaitKeeps ==
  ASSUME LifecycleInv, Wait
  PROVE  LifecycleInv'
<1>1. /\ pc = "wait" /\ UNCHANGED <<bySignal, closed, published, objects, closing>>
      /\ ref' \in Gens /\ budget' \in 0 .. MaxRequests
  BY AttrFacts DEF Wait, At, LifecycleInv, TypeOK
<1>2. CASE pc' = "receive" /\ UNCHANGED error
  BY <1>1, <1>2, ServingStep
<1>3. CASE Failing("node", ref)
  <2> DEFINE e == IF Usable("node", ref) THEN "NativeError" ELSE "Released"
  <2>1. Raise(e) /\ e \in Errors /\ (e = "NativeError" \/ closed)
    BY <1>1, <1>3, NothingMissing DEF Failing, Errors
  <2> HIDE DEF e
  <2> QED BY <1>1, <2>1, FailingStep
<1> QED BY <1>2, <1>3 DEF Wait

LEMMA ServerFails ==
  ASSUME LifecycleInv, pc \in {"receive", "handle"}, Failing("server", attr["server"]),
         UNCHANGED <<bySignal, closed, published, objects, closing>>,
         ref' \in Gens, budget' \in 0 .. MaxRequests
  PROVE  LifecycleInv'
<1> DEFINE e == IF Usable("server", attr["server"]) THEN "NativeError" ELSE "Released"
<1>1. "server" \in Kinds
  BY AttrFacts
<1>2. Raise(e) /\ e \in Errors /\ (e = "NativeError" \/ closed)
  BY <1>1, NothingMissing DEF Failing, Errors
<1> HIDE DEF e
<1> QED BY <1>2, FailingStep

LEMMA ReceiveRequestKeeps ==
  ASSUME LifecycleInv, Receive
  PROVE  LifecycleInv'
<1>1. /\ pc = "receive" /\ UNCHANGED <<bySignal, closed, published, objects, closing, ref>>
      /\ ref' \in Gens /\ budget \in 0 .. MaxRequests
  BY AttrFacts DEF Receive, At, LifecycleInv, TypeOK
<1>2. CASE attr["server"] = None /\ Raise("NoneReceive") /\ UNCHANGED budget
  <2>1. closed /\ "NoneReceive" \in Errors
    BY <1>1, <1>2, AttrFacts, NothingMissing DEF Errors
  <2> QED BY <1>1, <1>2, <2>1, FailingStep
<1>3. CASE pc' = "loop" /\ UNCHANGED <<error, budget>>
  BY <1>1, <1>3, ServingStep
<1>4. CASE budget > 0 /\ budget' = budget - 1 /\ pc' = "handle" /\ UNCHANGED error
  <2>1. budget' \in 0 .. MaxRequests
    BY <1>1, <1>4, LifecycleAssumption
  <2> QED BY <1>1, <1>4, <2>1, ServingStep
<1>5. CASE Failing("server", attr["server"]) /\ UNCHANGED budget
  BY <1>1, <1>5, ServerFails
<1> QED BY <1>2, <1>3, <1>4, <1>5 DEF Receive

LEMMA HandleRequestKeeps ==
  ASSUME LifecycleInv, Handle
  PROVE  LifecycleInv'
<1>1. /\ pc = "handle" /\ UNCHANGED <<bySignal, closed, published, objects, closing>>
      /\ ref' \in Gens /\ budget' \in 0 .. MaxRequests
  BY DEF Handle, At, LifecycleInv, TypeOK
<1>2. CASE pc' = "receive" /\ UNCHANGED error
  BY <1>1, <1>2, ServingStep
<1>3. CASE Raise("Unserviceable")
  BY <1>1, <1>3, FailingStep DEF Errors
<1>4. CASE Failing("server", attr["server"])
  BY <1>1, <1>4, ServerFails
<1> QED BY <1>2, <1>3, <1>4 DEF Handle

LEMMA ServingKeeps ==
  ASSUME LifecycleInv, Serving
  PROVE  LifecycleInv'
BY OpenKeeps, OpenNodeKeeps, OpenServiceKeeps, OpenServerKeeps, OpenFailsKeeps, PublishKeeps,
   LoopKeeps, DrainKeeps, AssertsKeeps, WaitKeeps, ReceiveRequestKeeps, HandleRequestKeeps
   DEF Serving

-----------------------------------------------------------------------------
(* close() *)

CloseState == [step : {"idle", "get", "delete", "clear", "unpublish", "finished"},
               k : DOMAIN Attrs, held : Gens]

(* A caller of close() moves on: what it does to the objects is in attr',  *)
(* alive' and published'.                                                  *)
LEMMA CallerMoves ==
  ASSUME LifecycleInv, NEW c \in Callers, NEW s \in CloseState,
         closing' = [closing EXCEPT ![c] = s], s.step # "idle", closed' = TRUE,
         c = "main" => bySignal /\ pc = "finally",
         UNCHANGED <<bySignal, gen, pc, ref, error, budget>>,
         attr' \in [Kinds -> Gens], alive' \subseteq alive, published' \in BOOLEAN,
         published' => published,
         c = "other" /\ s.step # "finished" => published',
         Busy("other") => published' \/ c = "other",
         FirstOpening => UNCHANGED <<attr, alive>>
  PROVE  /\ TypeOK' /\ Stages' /\ Callings' /\ Undisturbed' /\ closing'[c] = s
         /\ \A d \in Callers : d # c => closing'[d] = closing[d]
<1>1. /\ closing'[c] = s /\ \A d \in Callers : d # c => closing'[d] = closing[d]
      /\ closing' \in [Callers -> CloseState]
  BY DEF LifecycleInv, TypeOK, CloseState
<1>2. TypeOK'
  BY <1>1 DEF LifecycleInv, TypeOK, CloseState
<1>3. Stages'
  BY DEF LifecycleInv, Stages, FirstOpening, Opened, Whole
<1>4. Callings'
  BY <1>1 DEF LifecycleInv, Callings, Busy, Callers
<1>5. Undisturbed'
  BY DEF Undisturbed
<1> QED BY <1>1, <1>2, <1>3, <1>4, <1>5

LEMMA CallerStep ==
  ASSUME LifecycleInv, NEW c \in Callers, NEW s \in CloseState,
         closing' = [closing EXCEPT ![c] = s], s.step # "idle", closed' = TRUE,
         c = "main" => bySignal /\ pc = "finally",
         UNCHANGED <<bySignal, gen, pc, ref, error, budget>>,
         attr' \in [Kinds -> Gens], alive' \subseteq alive, published' \in BOOLEAN,
         published' => published,
         c = "other" => (s.step # "finished" <=> published'),
         Busy("other") => published' \/ c = "other",
         FirstOpening => UNCHANGED <<attr, alive>>,
         bySignal => \A k \in Kinds : <<k, 1>> \in alive' => attr'[k] = 1,
         bySignal /\ published /\ ~published' => Dead',
         bySignal => Progress(c)'
  PROVE  LifecycleInv'
<1>1. /\ TypeOK' /\ Stages' /\ Callings' /\ Undisturbed' /\ closing'[c] = s
      /\ \A d \in Callers : d # c => closing'[d] = closing[d]
  BY CallerMoves
<1>2. ASSUME bySignal PROVE Released'
  <2>1. \A d \in Callers : d # c => Progress(d)'
    BY <1>1, <1>2 DEF LifecycleInv, Released, Progress, Dead
  <2>2. FirstOpening' = FirstOpening
    BY DEF FirstOpening
  <2>3. ~published' /\ ~FirstOpening' => Dead'
    BY <1>2, <2>2 DEF LifecycleInv, Released, Dead
  <2>4. \/ ~(published' /\ closing'["main"].step = "idle" /\ ~Busy("other")')
        \/ (c = "other" /\ s.step = "finished") \/ c = "main"
    BY <1>1 DEF Callers, Busy
  <2>5. c = "main" => closing'["main"].step # "idle"
    BY <1>1
  <2> QED BY <1>2, <2>1, <2>3, <2>4, <2>5 DEF LifecycleInv, Released
<1>3. ~bySignal => Released'
  BY DEF Released
<1> QED BY <1>1, <1>2, <1>3 DEF LifecycleInv

LEMMA CloseKeeps ==
  ASSUME LifecycleInv, NEW c \in Callers, Close(c)
  PROVE  LifecycleInv'
<1> DEFINE s == IF published THEN [Idle EXCEPT !.step = "get"] ELSE Finished
<1>1. /\ closing[c] = Idle /\ (Requested(c) \/ Finally(c))
      /\ closed' = TRUE /\ closing' = [closing EXCEPT ![c] = s]
      /\ UNCHANGED <<bySignal, published, attr, gen, alive, pc, ref, error, budget>>
  BY DEF Close, MayClose, objects, LifecycleInv, TypeOK
<1>2. s \in CloseState /\ s.k = 1 /\ s.step = IF published THEN "get" ELSE "finished"
  BY AttrFacts DEF Idle, Finished, CloseState
<1> HIDE DEF s
<1>3. c = "main" => bySignal /\ pc = "finally"
  BY <1>1 DEF Requested, Finally, At, LifecycleInv, Stages
<1>4. closing'[c] = s
  BY <1>1 DEF LifecycleInv, TypeOK
<1>5. ASSUME bySignal PROVE Progress(c)'
  <2>1. ASSUME c = "main", ~published PROVE Dead
    BY <1>3, <1>5, <2>1 DEF LifecycleInv, Released, FirstOpening
  <2>2. \A j \in 1 .. 3 : ~(j < 1)
    OBVIOUS
  <2> QED BY <1>1, <1>2, <1>4, <2>1, <2>2 DEF Progress, Dead
<1>6. /\ s.step # "idle" /\ (s.step # "finished" <=> published)
      /\ published' \in BOOLEAN /\ attr' \in [Kinds -> Gens]
      /\ Busy("other") => published'
      /\ bySignal => \A k \in Kinds : <<k, 1>> \in alive' => attr'[k] = 1
  BY <1>1, <1>2 DEF LifecycleInv, TypeOK, Callings, Released
<1> QED BY <1>1, <1>2, <1>3, <1>5, <1>6, CallerStep

(* Between two steps of close(), the caller is where the next one begins:  *)
(* main() in its finally, with no signal handler in between.               *)
LEMMA CallerTurn ==
  ASSUME LifecycleInv, NEW c \in Callers, Busy(c), Turn(c)
  PROVE  /\ closed /\ (c = "main" => bySignal /\ pc = "finally" /\ ~Busy("other"))
         /\ (c = "other" => published /\ ~FirstOpening) /\ (c = "main" => ~FirstOpening)
         /\ closing[c] \in CloseState /\ closing[c].k \in 1 .. 3 /\ Attrs[closing[c].k] \in Kinds
<1>1. /\ c = "main" => pc = "finally" /\ ~(bySignal /\ Busy("other"))
      /\ closing[c].step # "idle"
  BY DEF Turn, At, Busy
<1>2. closing[c] \in CloseState /\ closing[c].k \in 1 .. 3
  BY AttrFacts DEF LifecycleInv, TypeOK, CloseState
<1>3. \A i \in 1 .. 3 : Attrs[i] \in Kinds
  BY AttrFacts
<1> QED BY <1>1, <1>2, <1>3 DEF LifecycleInv, Callings, Stages, FirstOpening, Callers

LEMMA GetAttrKeeps ==
  ASSUME LifecycleInv, NEW c \in Callers, GetAttr(c)
  PROVE  LifecycleInv'
<1> DEFINE i == closing[c].k
           obj == attr[Attrs[i]]
           s == [step |-> IF obj = None THEN "clear" ELSE "delete", k |-> i, held |-> obj]
<1>1. /\ closing[c].step = "get" /\ Turn(c) /\ Busy(c)
      /\ UNCHANGED <<bySignal, closed, published, attr, gen, alive, pc, ref, error, budget>>
  BY DEF GetAttr, Busy, objects
<1>2. /\ closed /\ (c = "main" => bySignal /\ pc = "finally" /\ ~Busy("other"))
      /\ (c = "other" => published)
      /\ closing[c] \in CloseState /\ i \in 1 .. 3 /\ Attrs[i] \in Kinds
  BY <1>1, CallerTurn
<1>3. s \in CloseState
  <2>1. obj \in Gens /\ i \in DOMAIN Attrs
    BY <1>2, AttrFacts DEF LifecycleInv, TypeOK
  <2> QED BY <2>1 DEF CloseState
<1>4. closing' = [closing EXCEPT ![c] = s]
  <2>1. closing \in [Callers -> CloseState] /\ closing' \in [Callers -> CloseState]
    BY <1>2, <1>3, AttrFacts DEF GetAttr, LifecycleInv, TypeOK, CloseState
  <2>2. closing'[c] = s
    BY <1>2, <2>1 DEF GetAttr, CloseState
  <2>3. \A d \in Callers : d # c => closing'[d] = closing[d]
    BY <2>1 DEF GetAttr
  <2> QED BY <2>1, <2>2, <2>3
<1>5. /\ s.k = i /\ s.held = obj
      /\ (s.step = "clear" /\ obj = None) \/ (s.step = "delete" /\ obj # None)
      /\ s.step \notin {"idle", "get", "unpublish", "finished"}
  OBVIOUS
<1>6. closing'[c] = s
  BY <1>4 DEF LifecycleInv, TypeOK
<1> HIDE DEF s
<1>7. ASSUME bySignal PROVE Progress(c)'
  <2>1. \A j \in 1 .. 3 : j < i => <<Attrs[j], 1>> \notin alive
    BY <1>1, <1>7 DEF LifecycleInv, Released, Progress
  <2>2. <<Attrs[i], 1>> \in alive => obj = 1
    BY <1>2, <1>7 DEF LifecycleInv, Released
  <2>3. obj = None => <<Attrs[i], 1>> \notin alive
    BY <2>2, AttrFacts
  <2> QED BY <1>1, <1>5, <1>6, <2>1, <2>2, <2>3 DEF Progress
<1>8. /\ published' \in BOOLEAN /\ attr' \in [Kinds -> Gens] /\ alive' \subseteq alive
      /\ bySignal => \A k \in Kinds : <<k, 1>> \in alive' => attr'[k] = 1
      /\ Busy("other") => published' \/ c = "other"
  BY <1>1, <1>2 DEF LifecycleInv, TypeOK, Released, Callers
<1> QED BY <1>1, <1>2, <1>3, <1>4, <1>5, <1>7, <1>8, CallerStep

LEMMA DeleteObjectKeeps ==
  ASSUME LifecycleInv, NEW c \in Callers, DeleteObject(c)
  PROVE  LifecycleInv'
<1> DEFINE i == closing[c].k
           s == [step |-> "clear", k |-> i, held |-> None]
<1>1. /\ closing[c].step = "delete" /\ Turn(c) /\ Busy(c)
      /\ alive' = alive \ {<<Attrs[i], closing[c].held>>}
      /\ UNCHANGED <<bySignal, closed, published, attr, gen, pc, ref, error, budget>>
  BY DEF DeleteObject, Busy
<1>2. /\ closed /\ (c = "main" => bySignal /\ pc = "finally" /\ ~Busy("other"))
      /\ (c = "other" => published) /\ ~FirstOpening
      /\ closing[c] \in CloseState /\ i \in 1 .. 3 /\ Attrs[i] \in Kinds
  BY <1>1, CallerTurn DEF Callers
<1>3. s \in CloseState
  BY <1>2, AttrFacts DEF CloseState
<1>4. closing' = [closing EXCEPT ![c] = s]
  <2>1. closing \in [Callers -> CloseState] /\ closing' \in [Callers -> CloseState]
    BY <1>2, <1>3, AttrFacts DEF DeleteObject, LifecycleInv, TypeOK, CloseState
  <2>2. closing'[c] = s
    BY <1>2, <2>1 DEF DeleteObject, CloseState
  <2>3. \A d \in Callers : d # c => closing'[d] = closing[d]
    BY <2>1 DEF DeleteObject
  <2> QED BY <2>1, <2>2, <2>3
<1>5. s.k = i /\ s.step = "clear"
  OBVIOUS
<1>6. closing'[c] = s
  BY <1>4 DEF LifecycleInv, TypeOK
<1> HIDE DEF s
<1>7. ASSUME bySignal PROVE Progress(c)'
  <2>1. \A j \in 1 .. 3 : j < i => <<Attrs[j], 1>> \notin alive'
    BY <1>1, <1>7 DEF LifecycleInv, Released, Progress
  <2>2. <<Attrs[i], 1>> \notin alive'
    BY <1>1, <1>7 DEF LifecycleInv, Released, Progress
  <2> QED BY <1>5, <1>6, <2>1, <2>2 DEF Progress
<1>8. /\ published' \in BOOLEAN /\ attr' \in [Kinds -> Gens] /\ alive' \subseteq alive
      /\ bySignal => \A k \in Kinds : <<k, 1>> \in alive' => attr'[k] = 1
      /\ Busy("other") => published' \/ c = "other"
  BY <1>1, <1>2 DEF LifecycleInv, TypeOK, Released, Callers
<1> QED BY <1>1, <1>2, <1>3, <1>4, <1>5, <1>7, <1>8, CallerStep

LEMMA ClearAttrKeeps ==
  ASSUME LifecycleInv, NEW c \in Callers, ClearAttr(c)
  PROVE  LifecycleInv'
<1> DEFINE i == closing[c].k
           s == IF i < 3 THEN [step |-> "get", k |-> i + 1, held |-> None]
                         ELSE [closing[c] EXCEPT !.step = "unpublish"]
<1>1. /\ closing[c].step = "clear" /\ Turn(c) /\ Busy(c)
      /\ attr' = [attr EXCEPT ![Attrs[i]] = None]
      /\ UNCHANGED <<bySignal, closed, published, gen, alive, pc, ref, error, budget>>
  BY DEF ClearAttr, Busy
<1>2. /\ closed /\ (c = "main" => bySignal /\ pc = "finally" /\ ~Busy("other"))
      /\ (c = "other" => published) /\ ~FirstOpening
      /\ closing[c] \in CloseState /\ i \in 1 .. 3 /\ Attrs[i] \in Kinds
  BY <1>1, CallerTurn DEF Callers
<1>3. /\ s \in CloseState
      /\ (i < 3 /\ s.step = "get" /\ s.k = i + 1) \/ (i = 3 /\ s.step = "unpublish")
  <2>1. CASE i < 3
    <3>1. i + 1 \in DOMAIN Attrs /\ None \in Gens
      BY <1>2, <2>1, AttrFacts
    <3> QED BY <2>1, <3>1 DEF CloseState
  <2>2. CASE ~(i < 3)
    BY <1>2, <2>2 DEF CloseState
  <2> QED BY <2>1, <2>2
<1>4. closing' = [closing EXCEPT ![c] = s]
  BY AttrFacts DEF ClearAttr
<1> HIDE DEF s
<1>5. closing'[c] = s
  BY <1>4 DEF LifecycleInv, TypeOK
<1>6. /\ attr' \in [Kinds -> Gens] /\ attr'[Attrs[i]] = None
      /\ \A k \in Kinds : k # Attrs[i] => attr'[k] = attr[k]
  BY <1>1, <1>2, AttrFacts DEF LifecycleInv, TypeOK
<1>7. ASSUME bySignal PROVE Progress(c)'
  <2>1. \A j \in 1 .. 3 : j < i + 1 => <<Attrs[j], 1>> \notin alive
    <3> SUFFICES ASSUME NEW j \in 1 .. 3, j < i + 1 PROVE <<Attrs[j], 1>> \notin alive
      OBVIOUS
    <3>1. j < i \/ j = i
      BY <1>2
    <3> QED BY <1>1, <1>7, <3>1 DEF LifecycleInv, Released, Progress
  <2>2. i = 3 => Dead
    BY <2>1, AttrFacts DEF Dead
  <2>3. alive' = alive /\ (i = 3 => Dead')
    BY <1>1, <2>2 DEF Dead
  <2> QED BY <1>3, <1>5, <2>1, <2>3 DEF Progress
<1>8. bySignal => \A k \in Kinds : <<k, 1>> \in alive' => attr'[k] = 1
  <2> SUFFICES ASSUME bySignal, NEW k \in Kinds, <<k, 1>> \in alive PROVE attr'[k] = 1
    BY <1>1
  <2>1. k # Attrs[i]
    BY <1>1 DEF LifecycleInv, Released, Progress
  <2> QED BY <1>6, <2>1 DEF LifecycleInv, Released
<1>9. /\ published' \in BOOLEAN /\ alive' \subseteq alive
      /\ Busy("other") => published' \/ c = "other"
      /\ s.step \notin {"idle", "finished"}
  BY <1>1, <1>2, <1>3 DEF LifecycleInv, TypeOK, Callers
<1> QED BY <1>1, <1>2, <1>3, <1>4, <1>6, <1>7, <1>8, <1>9, CallerStep

LEMMA UnpublishKeeps ==
  ASSUME LifecycleInv, NEW c \in Callers, Unpublish(c)
  PROVE  LifecycleInv'
<1>1. /\ closing[c].step = "unpublish" /\ Turn(c) /\ Busy(c) /\ published' = FALSE
      /\ closing' = [closing EXCEPT ![c] = Finished]
      /\ UNCHANGED <<bySignal, closed, attr, gen, alive, pc, ref, error, budget>>
  BY DEF Unpublish, Busy, objects
<1>2. /\ closed /\ (c = "main" => bySignal /\ pc = "finally" /\ ~Busy("other")) /\ ~FirstOpening
  BY <1>1, CallerTurn DEF Callers
<1>3. Finished \in CloseState /\ Finished.step = "finished"
  BY AttrFacts DEF Finished, CloseState
<1>4. bySignal => Dead /\ Dead'
  BY <1>1 DEF LifecycleInv, Released, Progress, Dead
<1>5. closing'[c] = Finished
  BY <1>1 DEF LifecycleInv, TypeOK
<1>6. bySignal => Progress(c)'
  BY <1>3, <1>4, <1>5 DEF Progress
<1>7. /\ published' \in BOOLEAN /\ attr' \in [Kinds -> Gens] /\ alive' \subseteq alive
      /\ Busy("other") => published' \/ c = "other"
      /\ bySignal => \A k \in Kinds : <<k, 1>> \in alive' => attr'[k] = 1
  BY <1>1, <1>2 DEF LifecycleInv, TypeOK, Released, Callers
<1>8. closed' = TRUE /\ ~published'
  BY <1>1, <1>2 DEF LifecycleInv, TypeOK
<1> QED BY <1>1, <1>2, <1>3, <1>4, <1>6, <1>7, <1>8, CallerStep

LEMMA ReturnKeeps ==
  ASSUME LifecycleInv, Return
  PROVE  LifecycleInv'
<1>1. /\ pc = "finally" /\ pc' = "done"
      /\ UNCHANGED <<bySignal, closed, published, objects, ref, error, closing, budget>>
      /\ UNCHANGED <<attr, gen, alive>>
  BY DEF Return, At, objects
<1>2. TypeOK'
  BY <1>1, PcTyped DEF LifecycleInv, TypeOK
<1>3. Stages'
  BY <1>1 DEF LifecycleInv, Stages, FirstOpening
<1>4. Undisturbed'
  BY <1>1 DEF LifecycleInv, Undisturbed, Whole, Opened
<1>5. ~FirstOpening
  BY <1>1 DEF FirstOpening
<1>6. closing["main"].step = "finished"
  BY DEF Return, Finished
<1> QED BY <1>1, <1>2, <1>3, <1>4, <1>5, <1>6, PcStep

LEMMA LifecycleStutters ==
  ASSUME LifecycleInv, UNCHANGED vars
  PROVE  LifecycleInv'
<1>1. UNCHANGED <<bySignal, closed, published, attr, gen, alive, pc, ref, error, closing, budget>>
  BY DEF vars
<1>2. TypeOK' /\ Stages'
  BY <1>1 DEF LifecycleInv, TypeOK, Stages, FirstOpening, Opened, Whole
<1>3. Undisturbed'
  BY <1>1 DEF LifecycleInv, Undisturbed, Opened, Whole
<1> QED BY <1>1, <1>2, <1>3, PcStep DEF objects, FirstOpening, LifecycleInv, Callings

LEMMA LifecycleNext == LifecycleInv /\ [Next]_vars => LifecycleInv'
<1> SUFFICES ASSUME LifecycleInv, [Next]_vars PROVE LifecycleInv'
  OBVIOUS
<1>1. ASSUME NEW c \in Callers, Close(c) \/ Closing(c)
      PROVE  LifecycleInv'
  BY <1>1, CloseKeeps, GetAttrKeeps, DeleteObjectKeeps, ClearAttrKeeps, UnpublishKeeps DEF Closing
<1>2. "main" \in Callers /\ "other" \in Callers
  BY DEF Callers
<1> QED BY <1>1, <1>2, ServingKeeps, ReturnKeeps, LifecycleStutters DEF Next, MainThread, StopRequest

(* The inductive invariant of the server's life. *)
THEOREM LifecycleInvariant == Spec => []LifecycleInv
BY LifecycleInit, LifecycleNext, PTL DEF Spec

-----------------------------------------------------------------------------
(* What follows from it. *)

(* The state keeps its types.  In particular drain_requests opens the      *)
(* transport again at most once, whenever close() is called.               *)
THEOREM LifecycleTypeCorrect == Spec => []TypeOK
<1>1. LifecycleInv => TypeOK
  BY DEF LifecycleInv
<1> QED BY <1>1, LifecycleInvariant, PTL

(* _transport is set when all three native objects exist, and they do      *)
(* until close() is called.                                                *)
THEOREM PublishedWholeHolds == Spec => []PublishedWhole
<1>1. LifecycleInv => PublishedWhole
  BY AttrFacts DEF LifecycleInv, Undisturbed, Whole, Opened, PublishedWhole
<1> QED BY <1>1, LifecycleInvariant, PTL

(* Wherever the signal meets main(), the objects of the transport that it  *)
(* opened are deleted when it returns.                                     *)
THEOREM ReleasedAtEndHolds == Spec => []ReleasedAtEnd
<1>1. LifecycleInv => ReleasedAtEnd
  BY DEF LifecycleInv, Callings, Released, Progress, Dead, ReleasedAtEnd, Callers
<1> QED BY <1>1, LifecycleInvariant, PTL

(* serve_forever fails over a missing or deleted object only after close().*)
THEOREM NoFailureWhileServingHolds == Spec => []NoFailureWhileServing
<1>1. LifecycleInv => NoFailureWhileServing
  BY DEF LifecycleInv, Undisturbed, NoFailureWhileServing
<1> QED BY <1>1, LifecycleInvariant, PTL

=============================================================================
