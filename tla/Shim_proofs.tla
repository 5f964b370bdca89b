----------------------------- MODULE Shim_proofs -----------------------------
(***************************************************************************)
(* No pause of the bridge outlives the reconnection, and after a pause the *)
(* bridge is on the air again.  Neither is inductive: the task of the mesh *)
(* and the host task stop and start the radio in steps that interleave, so *)
(* BridgeInv says what every task may still have to do, and that whoever   *)
(* switched the radio off, or was to start it, has the start before it.    *)
(***************************************************************************)
EXTENDS Shim, TLAPS

\* What a call may have to do: while it pauses the bridge, while it resumes it,
\* and on the other tasks.
PauseWords == {"pause", "test scanning", "test adv", "disc cancel", "not scanning", "adv stop"}
ResumeWords == {"resume", "disc", "scanning", "set fields", "adv start"}
AdvWords == {"adv stop", "set fields", "adv start"}
HostWords == AdvWords \cup {"disc", "scanning", "reset callout"}
Words == PauseWords \cup ResumeWords \cup HostWords

\* The steps a task has still to take, and the next of them.
Steps(q) == {q[i] : i \in DOMAIN q}
Todo(r, a) == Steps(r.todo[a])
First(r, a, m) == r.todo[a] # << >> /\ r.todo[a][1] = m

Statuses == {"boot", "sent", "not sent"}
Names == Statuses \cup {"given", "renamed"}

BridgeState ==
  [app : {"boot", "started", "mesh", "bridge", "loop", "idle"},
   host : {"none", "launched", "running", "failed"}, link : BOOLEAN,
   events : Seq({"CONNECTED", "DISCONNECTED", "ROOT_ADDRESS"}),
   connected : BOOLEAN, have_root : BOOLEAN, cb : BOOLEAN,
   synced : BOOLEAN, paused : BOOLEAN, scanning : BOOLEAN, disc : BOOLEAN, adv : BOOLEAN,
   armed : BOOLEAN, status : Statuses, name : Names, data : {"none"} \cup Names, rare : Nat,
   todo : [{"app", "event", "host"} -> Seq(Words)]]

\* How far the components were brought up.
Phases(r) ==
  /\ r.synced \/ r.armed => r.host = "running"
  /\ r.host # "running" => r.todo["host"] = << >>
  /\ r.host # "none" => r.app \in {"bridge", "loop"}
  /\ r.cb => r.app = "loop"
  /\ r.paused => r.cb /\ r.synced
  /\ r.todo["event"] # << >> => r.cb

\* Who has what to do.
Duties(r) ==
  /\ Todo(r, "app") \subseteq AdvWords
  /\ Todo(r, "host") \subseteq HostWords
  /\ Todo(r, "event") \subseteq PauseWords \/ Todo(r, "event") \subseteq ResumeWords

\* A pause belongs to a link that is down, or is about to be lifted.
Pausing(r) ==
  /\ r.paused => Todo(r, "event") \subseteq PauseWords \cup {"resume"}
  /\ Todo(r, "event") \cap (PauseWords \ {"pause"}) # {} => r.paused
  /\ r.connected => Todo(r, "event") \subseteq ResumeWords
  /\ r.paused /\ r.connected => "resume" \in Todo(r, "event")

\* While no call has failed and nobody renames the node, what is off outside a
\* pause is about to be started: the host task stops advertising before it does
\* anything else and starts it again, and the task of the mesh ends its pauses.
Tidy(q) == \A i \in DOMAIN q : q[i] = "adv stop" => i = 1
Starting(r, m) == m \in Todo(r, "event") \cup Todo(r, "host")
Serving(r) ==
  r.rare = 0 =>
    /\ Todo(r, "app") = {}
    /\ "adv stop" \in Todo(r, "host") => "adv start" \in Todo(r, "host")
    /\ Tidy(r.todo["host"])
    /\ r.synced /\ ~r.paused =>
         (r.disc \/ Starting(r, "disc")) /\ (r.adv \/ Starting(r, "adv start"))

BridgeInv(r) == Phases(r) /\ Duties(r) /\ Pausing(r) /\ Serving(r)

-----------------------------------------------------------------------------

Actors == {"app", "event", "host"}

\* The steps of r come after those of q.
LEMMA JoinSteps ==
  ASSUME NEW q \in Seq(Words), NEW r \in Seq(Words)
  PROVE  /\ q \o r \in Seq(Words)
         /\ Steps(q \o r) = Steps(q) \cup Steps(r)
         /\ Tidy(q) /\ "adv stop" \notin Steps(r) => Tidy(q \o r)
<1> DEFINE u == q \o r
<1>1. /\ u \in Seq(Words) /\ Len(u) = Len(q) + Len(r)
      /\ Len(q) \in Nat /\ Len(r) \in Nat /\ DOMAIN q = 1 .. Len(q) /\ DOMAIN r = 1 .. Len(r)
      /\ DOMAIN u = 1 .. Len(q) + Len(r)
      /\ \A i \in 1 .. Len(q) + Len(r) : u[i] = IF i <= Len(q) THEN q[i] ELSE r[i - Len(q)]
  OBVIOUS
<1> HIDE DEF u
<1>2. Steps(q) \subseteq Steps(u)
  BY <1>1 DEF Steps
<1>3. Steps(r) \subseteq Steps(u)
  <2>1. \A i \in 1 .. Len(r) : Len(q) + i \in DOMAIN u /\ u[Len(q) + i] = r[i]
    BY <1>1
  <2>2. ASSUME NEW i \in DOMAIN r PROVE r[i] \in Steps(u)
    BY <1>1, <2>1 DEF Steps
  <2> QED BY <2>2 DEF Steps
<1>5. \A i \in DOMAIN u : u[i] \in Steps(r) \/ (i \in DOMAIN q /\ u[i] = q[i])
  <2>1. ASSUME NEW i \in DOMAIN u, i > Len(q) PROVE u[i] \in Steps(r)
    <3>1. i - Len(q) \in DOMAIN r /\ u[i] = r[i - Len(q)]
      BY <1>1, <2>1
    <3> QED BY <3>1 DEF Steps
  <2>2. ASSUME NEW i \in DOMAIN u, ~(i > Len(q)) PROVE i \in DOMAIN q /\ u[i] = q[i]
    BY <1>1, <2>2
  <2> QED BY <2>1, <2>2
<1>6. Steps(u) \subseteq Steps(q) \cup Steps(r)
  BY <1>5 DEF Steps
<1>7. Tidy(q) /\ "adv stop" \notin Steps(r) => Tidy(u)
  BY <1>5 DEF Tidy
<1> QED BY <1>1, <1>2, <1>3, <1>6, <1>7 DEF u

\* The first step of t, and the others.
LEMMA TailSteps ==
  ASSUME NEW t \in Seq(Words), t # << >>
  PROVE  /\ Tail(t) \in Seq(Words) /\ Head(t) = t[1] /\ t[1] \in Words
         /\ Steps(t) = {t[1]} \cup Steps(Tail(t))
         /\ Tidy(t) => "adv stop" \notin Steps(Tail(t))
<1> DEFINE r == Tail(t)
<1>1. /\ r \in Seq(Words) /\ Len(r) = Len(t) - 1 /\ Head(t) = t[1] /\ t[1] \in Words
      /\ Len(t) \in Nat \ {0} /\ DOMAIN t = 1 .. Len(t) /\ DOMAIN r = 1 .. Len(t) - 1
      /\ \A i \in 1 .. Len(t) - 1 : r[i] = t[i + 1]
  OBVIOUS
<1> HIDE DEF r
<1>2. \A i \in 1 .. Len(t) : i = 1 \/ (i - 1 \in DOMAIN r /\ r[i - 1] = t[i])
  BY <1>1
<1>3. ASSUME NEW i \in DOMAIN t PROVE t[i] \in {t[1]} \cup Steps(r)
  BY <1>1, <1>2 DEF Steps
<1>4. ASSUME NEW i \in DOMAIN r PROVE r[i] \in Steps(t) /\ (Tidy(t) => r[i] # "adv stop")
  <2>1. r[i] = t[i + 1] /\ i + 1 \in DOMAIN t /\ i + 1 # 1
    BY <1>1
  <2> QED BY <2>1 DEF Steps, Tidy
<1>5. t[1] \in Steps(t)
  BY <1>1 DEF Steps
<1>6. Steps(t) = {t[1]} \cup Steps(r)
  BY <1>3, <1>4, <1>5 DEF Steps
<1>7. Tidy(t) => "adv stop" \notin Steps(r)
  BY <1>4 DEF Steps
<1> QED BY <1>1, <1>6, <1>7 DEF r

\* Who never stops advertising does not stop it late.
LEMMA NoStop ==
  ASSUME NEW q \in Seq(Words), "adv stop" \notin Steps(q) PROVE Tidy(q)
BY DEF Tidy, Steps

\* Steps that are not taken because a call of NimBLE failed.
LEMMA DropSteps ==
  ASSUME NEW t \in Seq(Words), NEW n \in Nat \ {0}
  PROVE  LET u == SubSeq(t, n + 1, Len(t))
         IN  u \in Seq(Words) /\ Steps(u) \subseteq Steps(t)
<1> DEFINE u == SubSeq(t, n + 1, Len(t))
<1>1. /\ u \in Seq(Words) /\ Len(t) \in Nat /\ DOMAIN t = 1 .. Len(t)
      /\ \A i \in DOMAIN u : i \in Nat /\ i > 0 /\ i + n \in DOMAIN t /\ u[i] = t[i + n]
  OBVIOUS
<1> HIDE DEF u
<1>2. Steps(u) \subseteq Steps(t)
  BY <1>1 DEF Steps
<1> QED BY <1>1, <1>2 DEF u

\* The steps of the calls, one by one.
LEMMA Duty ==
  /\ Steps(<< >>) = {} /\ << >> \in Seq(Words)
  /\ \A v \in Words : <<v>> \in Seq(Words) /\ Steps(<<v>>) = {v}
  /\ \A v, w \in Words : <<v, w>> \in Seq(Words) /\ Steps(<<v, w>>) = {v, w}
<1>1. Steps(<< >>) = {} /\ << >> \in Seq(Words)
  BY DEF Steps
<1>2. ASSUME NEW v \in Words
      PROVE  <<v>> \in Seq(Words) /\ Steps(<<v>>) = {v}
  BY DEF Steps
<1>3. ASSUME NEW v \in Words, NEW w \in Words
      PROVE  <<v, w>> \in Seq(Words) /\ Steps(<<v, w>>) = {v, w}
  BY DEF Steps
<1> QED BY <1>1, <1>2, <1>3

\* The steps of the calls that start the radio.
LEMMA StartDuty ==
  /\ LET q == Brg!start_scan \o Brg!start_advertising
     IN  q \in Seq(Words) /\ Steps(q) = {"disc", "set fields", "adv start"}
  /\ LET q == Brg!start_advertising \o Brg!start_scan \o <<"reset callout">>
     IN  q \in Seq(Words) /\ Steps(q) = {"disc", "set fields", "adv start", "reset callout"}
  /\ LET q == <<"adv stop">> \o Brg!start_advertising
     IN  q \in Seq(Words) /\ Steps(q) = AdvWords
  /\ LET q == <<"adv stop">> \o Brg!start_advertising \o <<"reset callout">>
     IN  q \in Seq(Words) /\ Steps(q) = AdvWords \cup {"reset callout"} /\ Tidy(q)
<1>0. {"adv stop", "set fields", "adv start", "disc", "reset callout"} \subseteq Words
  BY DEF Words, HostWords, AdvWords
<1>1. Brg!start_scan \in Seq(Words) /\ Steps(Brg!start_scan) = {"disc"}
  BY <1>0, Duty DEF Brg!start_scan
<1>2. Brg!start_advertising \in Seq(Words) /\ Steps(Brg!start_advertising) = {"set fields", "adv start"}
  BY <1>0, Duty DEF Brg!start_advertising
<1>3. /\ <<"adv stop">> \in Seq(Words) /\ Steps(<<"adv stop">>) = {"adv stop"}
      /\ <<"reset callout">> \in Seq(Words) /\ Steps(<<"reset callout">>) = {"reset callout"}
  BY <1>0, Duty
<1> DEFINE a1 == <<"adv stop">>
           a2 == <<"reset callout">>
<1> HIDE DEF a1, a2
<1>4. /\ a1 \in Seq(Words) /\ Steps(a1) = {"adv stop"} /\ a2 \in Seq(Words) /\ Steps(a2) = {"reset callout"}
  BY <1>3 DEF a1, a2
<1>5. LET q == Brg!start_scan \o Brg!start_advertising
      IN  q \in Seq(Words) /\ Steps(q) = {"disc", "set fields", "adv start"}
  <2>1. Brg!start_scan \o Brg!start_advertising \in Seq(Words) /\ Steps(Brg!start_scan \o Brg!start_advertising) = Steps(Brg!start_scan) \cup Steps(Brg!start_advertising)
    BY <1>1, <1>2, JoinSteps
  <2> QED BY <1>1, <1>2, <2>1
<1>6. LET q == Brg!start_advertising \o Brg!start_scan
      IN  q \in Seq(Words) /\ Steps(q) = {"disc", "set fields", "adv start"}
  <2>1. Brg!start_advertising \o Brg!start_scan \in Seq(Words) /\ Steps(Brg!start_advertising \o Brg!start_scan) = Steps(Brg!start_advertising) \cup Steps(Brg!start_scan)
    BY <1>1, <1>2, JoinSteps
  <2> QED BY <1>1, <1>2, <2>1
<1>7. LET q == Brg!start_advertising \o Brg!start_scan \o a2
      IN  q \in Seq(Words) /\ Steps(q) = {"disc", "set fields", "adv start", "reset callout"}
  <2>1. (Brg!start_advertising \o Brg!start_scan) \o a2 \in Seq(Words) /\ Steps((Brg!start_advertising \o Brg!start_scan) \o a2) = Steps((Brg!start_advertising \o Brg!start_scan)) \cup Steps(a2)
    BY <1>4, <1>6, JoinSteps
  <2> QED BY <1>4, <1>6, <2>1
<1>8. LET q == a1 \o Brg!start_advertising
      IN  q \in Seq(Words) /\ Steps(q) = AdvWords
  <2>1. a1 \o Brg!start_advertising \in Seq(Words) /\ Steps(a1 \o Brg!start_advertising) = Steps(a1) \cup Steps(Brg!start_advertising)
    BY <1>2, <1>4, JoinSteps
  <2> QED BY <1>2, <1>4, <2>1 DEF AdvWords
<1>9. LET q == a1 \o Brg!start_advertising \o a2
      IN  q \in Seq(Words) /\ Steps(q) = AdvWords \cup {"reset callout"}
  <2>1. (a1 \o Brg!start_advertising) \o a2 \in Seq(Words) /\ Steps((a1 \o Brg!start_advertising) \o a2) = Steps((a1 \o Brg!start_advertising)) \cup Steps(a2)
    BY <1>4, <1>8, JoinSteps
  <2> QED BY <1>4, <1>8, <2>1
<1>10. Tidy(<<"adv stop">> \o Brg!start_advertising \o <<"reset callout">>)
  <2>1. Tidy(a1)
    <3>1. \A i \in DOMAIN <<"adv stop">> : i = 1
      OBVIOUS
    <3> QED BY <3>1 DEF Tidy, a1
  <2>2. Tidy(a1 \o Brg!start_advertising)
    BY <1>2, <1>4, <2>1, JoinSteps
  <2>3. Tidy((a1 \o Brg!start_advertising) \o a2)
    BY <1>4, <1>8, <2>2, JoinSteps
  <2> QED BY <2>3 DEF a1, a2
<1> QED BY <1>5, <1>7, <1>8, <1>9, <1>10 DEF a1, a2

-----------------------------------------------------------------------------
(* The steps of a task that is inside a call                               *)

\* What no such step changes.
Same(r, d) ==
  /\ d.app = r.app /\ d.host = r.host /\ d.cb = r.cb /\ d.synced = r.synced
  /\ d.armed = r.armed /\ d.connected = r.connected /\ d.rare = r.rare

\* Task a has done what it had to do next, and goes on with q.
Advanced(r, d, a, q) ==
  /\ d \in BridgeState /\ Same(r, d)
  /\ d.paused = r.paused /\ d.disc = r.disc /\ d.adv = r.adv
  /\ d.todo[a] = q \o Tail(r.todo[a])
  /\ \A b \in Actors \ {a} : d.todo[b] = r.todo[b]

\* That is what Done does.
LEMMA DoneFacts ==
  ASSUME NEW r \in BridgeState, NEW a \in Actors, r.todo[a] # << >>, NEW q \in Seq(Words)
  PROVE  Advanced(r, Brg!Done(r, a, q), a, q)
<1> DEFINE d == Brg!Done(r, a, q)
<1>1. r.todo \in [Actors -> Seq(Words)] /\ r.todo[a] \in Seq(Words)
  BY DEF BridgeState, Actors
<1> DEFINE u == q \o Tail(r.todo[a])
<1>2. u \in Seq(Words)
  BY <1>1, TailSteps, JoinSteps
<1>3. d = [r EXCEPT !.todo = [r.todo EXCEPT ![a] = u]]
  BY DEF Brg!Done
<1> HIDE DEF u, d
<1>4. [r.todo EXCEPT ![a] = u] \in [Actors -> Seq(Words)]
  BY <1>1, <1>2
<1>5. d \in BridgeState
  BY <1>3, <1>4 DEF BridgeState, Actors
<1>6. d.todo = [r.todo EXCEPT ![a] = u]
  BY <1>3 DEF BridgeState
<1>7. d.todo[a] = u /\ \A b \in Actors \ {a} : d.todo[b] = r.todo[b]
  BY <1>1, <1>6
<1>8. Advanced(r, d, a, q)
  BY <1>3, <1>5, <1>7 DEF BridgeState, Same, Advanced, u
<1> QED BY <1>8 DEF d

\* What the tasks have to do before and after such a step.
Moved(r, d, a, new, rest) ==
  /\ d \in BridgeState /\ Same(r, d) /\ r.todo[a] # << >> /\ rest = Steps(Tail(r.todo[a]))
  /\ Todo(r, a) = {r.todo[a][1]} \cup rest /\ Todo(d, a) = new \cup rest
  /\ \A b \in Actors \ {a} : d.todo[b] = r.todo[b] /\ Todo(d, b) = Todo(r, b)

\* In terms of the sets of steps: q comes to what a had after its first step.
LEMMA MoveFacts ==
  ASSUME NEW r \in BridgeState, NEW a \in Actors, r.todo[a] # << >>, NEW q \in Seq(Words),
         NEW d, Advanced(r, d, a, q)
  PROVE  Moved(r, d, a, Steps(q), Steps(Tail(r.todo[a])))
<1> DEFINE t == r.todo[a]
<1>1. t \in Seq(Words)
  BY DEF BridgeState, Actors
<1>2. /\ d \in BridgeState /\ Same(r, d)
      /\ d.todo[a] = q \o Tail(t)
      /\ \A b \in Actors \ {a} : d.todo[b] = r.todo[b]
  BY DEF Advanced
<1>3. Tail(t) \in Seq(Words) /\ Steps(t) = {t[1]} \cup Steps(Tail(t))
  BY <1>1, TailSteps
<1> DEFINE rest == Tail(t)
<1> HIDE DEF rest
<1>4. Steps(q \o rest) = Steps(q) \cup Steps(rest)
  BY <1>3, JoinSteps DEF rest
<1>5. Todo(r, a) = {t[1]} \cup Steps(rest) /\ Todo(d, a) = Steps(q) \cup Steps(rest)
  BY <1>2, <1>3, <1>4 DEF Todo, rest
<1> QED BY <1>2, <1>5 DEF Moved, rest, Todo

\* What the step m does to the radio and to the fields about it, and which
\* steps come next.
Effect(r, d, m, new) ==
  LET keep == d.paused = r.paused
      radio == d.disc = r.disc /\ d.adv = r.adv
  IN  \/ m = "adv stop" /\ new = {} /\ keep /\ d.disc = r.disc /\ ~d.adv
      \/ m = "adv start" /\ new = {} /\ keep /\ d.disc = r.disc /\ d.adv
      \/ m \in {"set fields", "scanning", "not scanning", "reset callout"} /\ new = {} /\ keep /\ radio
      \/ m = "disc" /\ new \subseteq {"scanning"} /\ keep /\ d.adv = r.adv /\ d.disc
      \/ m = "disc cancel" /\ new = {} /\ keep /\ ~d.disc /\ d.adv = r.adv
      \/ m = "test scanning" /\ new \subseteq {"disc cancel", "not scanning"} /\ keep /\ radio
      \/ m = "test adv" /\ new \subseteq {"adv stop"} /\ keep /\ radio
      \/ /\ m = "pause" /\ radio
         /\ \/ (r.paused \/ ~r.synced) /\ new = {} /\ keep
            \/ ~r.paused /\ r.synced /\ d.paused /\ new = {"test scanning", "test adv"}
      \/ /\ m = "resume" /\ ~d.paused /\ radio
         /\ new = IF r.paused THEN {"disc", "set fields", "adv start"} ELSE {}

\* The invariant of the bridge holds after such a step.
LEMMA MoveKeeps ==
  ASSUME NEW r \in BridgeState, BridgeInv(r), NEW a \in Actors, NEW d, NEW new, NEW rest,
         Moved(r, d, a, new, rest), Effect(r, d, r.todo[a][1], new)
  PROVE  BridgeInv(d)
<1> DEFINE m == r.todo[a][1]
<1>0. Effect(r, d, m, new) /\ m \in Todo(r, a)
  BY DEF Moved
<1> USE DEF Moved, Same, BridgeInv, Actors
<1>w. /\ m \in {"pause", "resume", "test scanning", "test adv", "disc cancel", "not scanning"} => a = "event"
      /\ m = "adv stop" /\ a = "event" => r.paused
      /\ m \in {"test scanning", "test adv", "disc cancel", "not scanning"} => r.paused
      /\ m \in {"set fields", "adv start", "disc", "scanning"} /\ a = "event" => ~r.paused
  BY <1>0 DEF Duties, Pausing, PauseWords, ResumeWords, AdvWords, HostWords
<1>1. Phases(d)
  <2>1. d.paused => r.paused \/ (m = "pause" /\ r.synced)
    BY <1>0 DEF Effect
  <2>2. a = "host" => r.host = "running"
    BY DEF Phases, BridgeState
  <2>3. a = "event" => r.cb
    BY DEF Phases, BridgeState
  <2>4. d.host # "running" => d.todo["host"] = << >>
    BY <2>2 DEF Phases
  <2>5. d.todo["event"] # << >> => d.cb
    BY <2>3 DEF Phases
  <2>6. d.paused => d.cb /\ d.synced
    BY <1>w, <2>1, <2>3 DEF Phases
  <2> QED BY <2>4, <2>5, <2>6 DEF Phases
<1>2. Duties(d)
  <2> HIDE DEF m
  <2> QED BY <1>0 DEF Duties, PauseWords, ResumeWords, AdvWords, HostWords, Effect
<1>3. Pausing(d)
  BY ZenonT(40) DEF Pausing, Duties, PauseWords, ResumeWords, AdvWords, HostWords, Effect
<1>4. Serving(d)
  <2> USE DEF Serving, Starting
  <2>r. r.rare = 0 /\ a = "host" => "adv stop" \notin rest
    <3>1. r.todo["host"] \in Seq(Words)
      BY DEF BridgeState
    <3> QED BY <3>1, TailSteps
  <2>t. r.rare = 0 => Tidy(d.todo["host"])
    <3>1. CASE a # "host"
      BY <3>1
    <3>2. CASE a = "host"
      <4>1. r.rare = 0 => "adv stop" \notin Todo(d, "host")
        <5>1. "adv stop" \notin new
          BY <1>0, <1>w, <3>2 DEF Effect
        <5> QED BY <2>r, <3>2, <5>1
      <4>2. d.todo["host"] \in Seq(Words)
        BY DEF BridgeState
      <4> QED BY <4>1, <4>2, NoStop DEF Todo
    <3> QED BY <3>1, <3>2
  <2>1. CASE m = "adv stop"
    <3>1. new = {} /\ d.paused = r.paused /\ d.disc = r.disc
      BY <1>0, <2>1 DEF Effect
    <3>2. CASE a = "event"
      BY <1>w, <2>t, <2>1, <3>1, <3>2
    <3>3. CASE a = "host"
      <4>1. r.rare = 0 => "adv start" \in rest
        BY <1>0, <2>1, <3>3
      <4>2. Todo(d, "host") = rest /\ Todo(d, "app") = Todo(r, "app") /\ Todo(d, "event") = Todo(r, "event")
        BY <3>1, <3>3
      <4>3. Todo(r, "host") = {m} \cup rest
        BY <3>3
      <4>4. d.rare = r.rare /\ d.synced = r.synced
        OBVIOUS
      <4> HIDE DEF m
      <4> QED BY <2>t, <2>1, <3>1, <4>1, <4>2, <4>3, <4>4
    <3>4. CASE a = "app"
      BY <1>0, <2>t, <3>4
    <3> QED BY <3>2, <3>3, <3>4
  <2>2. CASE m = "adv start"
    <3>1. new = {} /\ d.paused = r.paused /\ d.disc = r.disc /\ d.adv
      BY <1>0, <2>2 DEF Effect
    <3>2. a = "host" /\ r.rare = 0 => "adv stop" \notin Todo(d, "host")
      BY <2>r, <3>1
    <3>3. a = "app" => r.rare # 0
      BY <1>0
    <3> QED BY <2>t, <2>2, <3>1, <3>2, <3>3
  <2>3. CASE m \in {"set fields", "scanning", "reset callout"}
    BY <1>0, <1>w, <2>t, <2>3 DEF Effect
  <2>4. CASE m = "disc"
    BY <1>0, <1>w, <2>t, <2>4 DEF Effect
  <2>5. CASE m \in {"disc cancel", "not scanning", "test scanning", "test adv"}
    BY <1>0, <1>w, <2>t, <2>5 DEF Effect
  <2>6. CASE m = "pause"
    BY <1>0, <1>w, <2>t, <2>6 DEF Effect
  <2>7. CASE m = "resume"
    BY <1>0, <1>w, <2>t, <2>7 DEF Effect
  <2> QED BY <1>0, <2>1, <2>2, <2>3, <2>4, <2>5, <2>6, <2>7 DEF Effect
<1> QED BY <1>1, <1>2, <1>3, <1>4

\* The count of rare events grows.
LEMMA OneMore == \A c \in Nat : c + 1 \in Nat /\ c + 1 # 0
OBVIOUS

\* The steps that are calls of NimBLE.
CallWords == {"adv stop", "set fields", "adv start", "disc", "disc cancel"}

\* A call of NimBLE fails, and the steps that follow from it are left out.
Dropped(r, a, n) == [r EXCEPT !.rare = @ + 1, !.todo[a] = SubSeq(@, n + 1, Len(@))]

\* The invariant survives it, whichever call fails.
LEMMA FailKeeps ==
  ASSUME NEW r \in BridgeState, BridgeInv(r), NEW a \in Actors, NEW n \in Nat \ {0}, NEW d,
         NEW m \in CallWords, First(r, a, m),
         d = Dropped(r, a, n)
  PROVE  d \in BridgeState /\ BridgeInv(d)
<1> DEFINE t == r.todo[a]
           u == SubSeq(t, n + 1, Len(t))
<1>0. r.rare + 1 \in Nat /\ r.rare + 1 # 0
  <2>1. r.rare \in Nat
    BY DEF BridgeState
  <2> QED BY <2>1, OneMore, Zenon
<1>1. r.todo \in [Actors -> Seq(Words)] /\ t \in Seq(Words)
  BY DEF BridgeState, Actors
<1>2. u \in Seq(Words) /\ Steps(u) \subseteq Steps(t)
  <2>1. t \in Seq(Words) /\ n \in Nat \ {0}
    BY <1>1
  <2> HIDE DEF t
  <2> QED BY <2>1, DropSteps
<1>3. d = [r EXCEPT !.rare = r.rare + 1, !.todo = [r.todo EXCEPT ![a] = u]]
  BY DEF Dropped
<1>4. t # << >> /\ t[1] = m
  BY DEF First
<1> HIDE DEF u
<1>5. d \in BridgeState
  <2> DEFINE c == r.rare + 1
             f == [r.todo EXCEPT ![a] = u]
  <2>1. c \in Nat /\ f \in [Actors -> Seq(Words)]
    BY <1>0, <1>1, <1>2
  <2>2. d = [r EXCEPT !.rare = c, !.todo = f]
    BY <1>3
  <2> HIDE DEF c, f
  <2> QED BY <2>1, <2>2 DEF BridgeState, Actors
<1>6. d.todo = [r.todo EXCEPT ![a] = u]
  BY <1>3 DEF BridgeState
<1>7. /\ d.app = r.app /\ d.host = r.host /\ d.cb = r.cb /\ d.synced = r.synced
      /\ d.armed = r.armed /\ d.connected = r.connected /\ d.paused = r.paused
      /\ d.rare = r.rare + 1
  BY <1>3 DEF BridgeState
<1>8. /\ d.todo[a] = u /\ \A b \in Actors \ {a} : d.todo[b] = r.todo[b] /\ Todo(d, b) = Todo(r, b)
      /\ Todo(d, a) \subseteq Todo(r, a)
  BY <1>1, <1>2, <1>6 DEF Todo
<1> HIDE DEF t
<1> USE DEF BridgeInv, Actors
<1>9. Phases(d)
  BY <1>4, <1>7, <1>8 DEF Phases, t
<1>10. Duties(d)
  BY <1>7, <1>8 DEF Duties
<1>11. a = "event" => ~(r.paused /\ r.connected)
  <2>1. m \in Todo(r, a)
    <3>1. Steps(t) = {t[1]} \cup Steps(Tail(t))
      BY <1>1, <1>4, TailSteps
    <3> QED BY <1>4, <3>1 DEF Todo, t
  <2> QED BY <2>1 DEF Pausing, PauseWords, ResumeWords, CallWords
<1>12. Pausing(d)
  BY <1>7, <1>8, <1>11 DEF Pausing
<1>13. Serving(d)
  BY <1>0, <1>7 DEF Serving
<1> QED BY <1>5, <1>9, <1>10, <1>12, <1>13

\* Task a takes step m, which leaves the fields of the radio as they are in r.
LEMMA StepKeeps ==
  ASSUME x \in BridgeState, BridgeInv(x), NEW a \in Actors, NEW m, Brg!At(a, m),
         NEW r \in BridgeState, Same(x, r), r.todo = x.todo,
         NEW q \in Seq(Words), Effect(x, r, m, Steps(q)), NEW d, d = Brg!Done(r, a, q)
  PROVE  d \in BridgeState /\ BridgeInv(d)
<1>1. x.todo[a] # << >> /\ Head(x.todo[a]) = m
  BY DEF Brg!At
<1>2. x.todo[a] \in Seq(Words)
  BY DEF BridgeState, Actors
<1>3. x.todo[a][1] = m
  BY <1>1, <1>2, TailSteps
<1>4. Advanced(r, d, a, q)
  BY <1>1, DoneFacts
<1>5. Moved(r, d, a, Steps(q), Steps(Tail(r.todo[a])))
  BY <1>1, <1>4, MoveFacts
<1>6. Moved(x, d, a, Steps(q), Steps(Tail(x.todo[a])))
  BY <1>5 DEF Moved, Same, Todo
<1>7. Effect(x, d, m, Steps(q))
  <2>1. d.paused = r.paused /\ d.disc = r.disc /\ d.adv = r.adv
    BY <1>4 DEF Advanced
  <2> QED BY <2>1, ZenonT(60) DEF Effect
<1>8. BridgeInv(d)
  BY <1>3, <1>6, <1>7, MoveKeeps
<1> QED BY <1>6, <1>8 DEF Moved

\* Starting and stopping the radio.
LEMMA RadioKeeps ==
  ASSUME x \in BridgeState, BridgeInv(x), NEW a \in Actors,
         \/ Brg!ble_gap_adv_stop(a) \/ Brg!ble_gap_adv_set_fields(a) \/ Brg!ble_gap_adv_start(a)
         \/ Brg!ble_gap_disc(a) \/ Brg!ble_gap_disc_cancel(a) \/ Brg!set_scanning(a)
  PROVE  x' \in BridgeState /\ BridgeInv(x')
<1>0. << >> \in Seq(Words) /\ Steps(<< >>) = {}
  BY Duty
<1>1. ASSUME NEW n \in Nat \ {0}, NEW m \in CallWords, Brg!At(a, m),
             Brg!Fails(a, n)
      PROVE  x' \in BridgeState /\ BridgeInv(x')
  <2>1. x' = Dropped(x, a, n)
    BY <1>1 DEF Brg!Fails, Dropped
  <2>2. First(x, a, m)
    <3>1. x.todo[a] \in Seq(Words)
      BY DEF BridgeState, Actors
    <3> QED BY <1>1, <3>1, TailSteps DEF Brg!At, First
  <2> QED BY <2>1, <2>2, FailKeeps
<1>a. /\ 1 \in Nat \ {0} /\ 2 \in Nat \ {0}
      /\ \A m \in {"adv stop", "set fields", "adv start", "disc", "disc cancel"} : m \in CallWords
  BY DEF CallWords
<1>2. CASE Brg!ble_gap_adv_stop(a)
  <2> DEFINE r == [x EXCEPT !.adv = FALSE]
  <2>1. Brg!At(a, "adv stop") /\ (x' = Brg!Done(r, a, << >>) \/ Brg!Fails(a, 1))
    BY <1>2 DEF Brg!ble_gap_adv_stop
  <2>2. r \in BridgeState /\ Same(x, r) /\ r.todo = x.todo /\ Effect(x, r, "adv stop", {})
    BY DEF BridgeState, Same, Effect
  <2> HIDE DEF r
  <2>3. CASE Brg!Fails(a, 1)
    BY <1>1, <1>a, <2>1, <2>3, Zenon
  <2>4. CASE x' = Brg!Done(r, a, << >>)
    BY <1>0, <2>1, <2>2, <2>4, StepKeeps
  <2> QED BY <2>1, <2>3, <2>4
<1>3. CASE Brg!ble_gap_adv_set_fields(a)
  <2> DEFINE r == [x EXCEPT !.data = x.name]
  <2>1. Brg!At(a, "set fields") /\ (x' = Brg!Done(r, a, << >>) \/ Brg!Fails(a, 2))
    BY <1>3 DEF Brg!ble_gap_adv_set_fields
  <2>2. r \in BridgeState /\ Same(x, r) /\ r.todo = x.todo /\ Effect(x, r, "set fields", {})
    BY DEF BridgeState, Same, Effect
  <2> HIDE DEF r
  <2>3. CASE Brg!Fails(a, 2)
    BY <1>1, <1>a, <2>1, <2>3, Zenon
  <2>4. CASE x' = Brg!Done(r, a, << >>)
    BY <1>0, <2>1, <2>2, <2>4, StepKeeps
  <2> QED BY <2>1, <2>3, <2>4
<1>4. CASE Brg!ble_gap_adv_start(a)
  <2> DEFINE r == [x EXCEPT !.adv = TRUE]
  <2>1. Brg!At(a, "adv start") /\ (x' = Brg!Done(r, a, << >>) \/ Brg!Fails(a, 1))
    BY <1>4 DEF Brg!ble_gap_adv_start
  <2>2. r \in BridgeState /\ Same(x, r) /\ r.todo = x.todo /\ Effect(x, r, "adv start", {})
    BY DEF BridgeState, Same, Effect
  <2> HIDE DEF r
  <2>3. CASE Brg!Fails(a, 1)
    BY <1>1, <1>a, <2>1, <2>3, Zenon
  <2>4. CASE x' = Brg!Done(r, a, << >>)
    BY <1>0, <2>1, <2>2, <2>4, StepKeeps
  <2> QED BY <2>1, <2>3, <2>4
<1>5. CASE Brg!ble_gap_disc(a)
  <2> DEFINE r == [x EXCEPT !.disc = TRUE]
             q == <<"scanning">>
  <2>1. /\ Brg!At(a, "disc")
        /\ \/ ~x.disc /\ x' = Brg!Done(r, a, q)
           \/ x.disc /\ x' = Brg!Done(x, a, << >>)
           \/ Brg!Fails(a, 1)
    BY <1>5 DEF Brg!ble_gap_disc
  <2>2. r \in BridgeState /\ Same(x, r) /\ r.todo = x.todo /\ (~x.disc => Effect(x, r, "disc", {"scanning"}))
    BY DEF BridgeState, Same, Effect
  <2>3. q \in Seq(Words) /\ Steps(q) = {"scanning"}
    <3>1. "scanning" \in Words
      BY DEF Words, ResumeWords
    <3> QED BY <3>1, Duty
  <2>4. Same(x, x) /\ (x.disc => Effect(x, x, "disc", {}))
    BY DEF BridgeState, Same, Effect
  <2> HIDE DEF r, q
  <2>5. CASE Brg!Fails(a, 1)
    BY <1>1, <1>a, <2>1, <2>5, Zenon
  <2>6. CASE ~x.disc /\ x' = Brg!Done(r, a, q)
    BY <2>1, <2>2, <2>3, <2>6, StepKeeps
  <2>7. CASE x.disc /\ x' = Brg!Done(x, a, << >>)
    BY <1>0, <2>1, <2>4, <2>7, StepKeeps
  <2> QED BY <2>1, <2>5, <2>6, <2>7
<1>6. CASE Brg!ble_gap_disc_cancel(a)
  <2> DEFINE r == [x EXCEPT !.disc = FALSE]
  <2>1. Brg!At(a, "disc cancel") /\ (x' = Brg!Done(r, a, << >>) \/ Brg!Fails(a, 1))
    BY <1>6 DEF Brg!ble_gap_disc_cancel
  <2>2. r \in BridgeState /\ Same(x, r) /\ r.todo = x.todo /\ Effect(x, r, "disc cancel", {})
    BY DEF BridgeState, Same, Effect
  <2> HIDE DEF r
  <2>3. CASE Brg!Fails(a, 1)
    BY <1>1, <1>a, <2>1, <2>3, Zenon
  <2>4. CASE x' = Brg!Done(r, a, << >>)
    BY <1>0, <2>1, <2>2, <2>4, StepKeeps
  <2> QED BY <2>1, <2>3, <2>4
<1>7. CASE Brg!set_scanning(a)
  <2> DEFINE r(b) == [x EXCEPT !.scanning = b]
  <2>1. \/ Brg!At(a, "scanning") /\ x' = Brg!Done(r(TRUE), a, << >>)
        \/ Brg!At(a, "not scanning") /\ x' = Brg!Done(r(FALSE), a, << >>)
    BY <1>7 DEF Brg!set_scanning
  <2>2. \A b \in BOOLEAN : r(b) \in BridgeState /\ Same(x, r(b)) /\ r(b).todo = x.todo
    BY DEF BridgeState, Same
  <2>3. Effect(x, r(TRUE), "scanning", {}) /\ Effect(x, r(FALSE), "not scanning", {})
    BY DEF BridgeState, Effect
  <2> HIDE DEF r
  <2>4. CASE Brg!At(a, "scanning") /\ x' = Brg!Done(r(TRUE), a, << >>)
    BY <1>0, <2>2, <2>3, <2>4, StepKeeps
  <2>5. CASE Brg!At(a, "not scanning") /\ x' = Brg!Done(r(FALSE), a, << >>)
    BY <1>0, <2>2, <2>3, <2>5, StepKeeps
  <2> QED BY <2>1, <2>4, <2>5
<1> QED BY <1>2, <1>3, <1>4, <1>5, <1>6, <1>7

\* Pausing and resuming the bridge.
LEMMA PauseKeeps ==
  ASSUME x \in BridgeState, BridgeInv(x), NEW a \in Actors,
         Brg!blebridge_pause_scan(a) \/ Brg!Test(a) \/ Brg!blebridge_resume_scan(a)
  PROVE  x' \in BridgeState /\ BridgeInv(x')
<1>0. << >> \in Seq(Words) /\ Steps(<< >>) = {}
  BY Duty
<1>x. Same(x, x)
  BY DEF Same
<1>w. {"test scanning", "test adv", "disc cancel", "not scanning", "adv stop"} \subseteq Words
  BY DEF Words, PauseWords
<1>1. CASE Brg!blebridge_pause_scan(a)
  <2> DEFINE r == [x EXCEPT !.paused = TRUE]
             q == <<"test scanning", "test adv">>
  <2>1. /\ Brg!At(a, "pause")
        /\ \/ (x.paused \/ ~x.synced) /\ x' = Brg!Done(x, a, << >>)
           \/ ~x.paused /\ x.synced /\ x' = Brg!Done(r, a, q)
    BY <1>1 DEF Brg!blebridge_pause_scan
  <2>2. q \in Seq(Words) /\ Steps(q) = {"test scanning", "test adv"}
    BY <1>w, Duty
  <2>4. /\ r \in BridgeState /\ Same(x, r) /\ r.todo = x.todo /\ r.paused = TRUE
        /\ r.disc = x.disc /\ r.adv = x.adv
    BY DEF BridgeState, Same
  <2> HIDE DEF r, q
  <2>5. ~x.paused /\ x.synced => Effect(x, r, "pause", {"test scanning", "test adv"})
    BY <2>4 DEF Effect
  <2>6. x.paused \/ ~x.synced => Effect(x, x, "pause", {})
    BY DEF Effect
  <2>7. CASE ~x.paused /\ x.synced /\ x' = Brg!Done(r, a, q)
    BY <2>1, <2>2, <2>4, <2>5, <2>7, StepKeeps
  <2>8. CASE (x.paused \/ ~x.synced) /\ x' = Brg!Done(x, a, << >>)
    BY <1>0, <1>x, <2>1, <2>6, <2>8, StepKeeps
  <2> QED BY <2>1, <2>7, <2>8
<1>2. CASE Brg!Test(a)
  <2> DEFINE q == <<"disc cancel", "not scanning">>
             w == <<"adv stop">>
  <2>1. \/ Brg!At(a, "test scanning") /\ x.scanning /\ x' = Brg!Done(x, a, q)
        \/ Brg!At(a, "test scanning") /\ ~x.scanning /\ x' = Brg!Done(x, a, << >>)
        \/ Brg!At(a, "test adv") /\ x.adv /\ x' = Brg!Done(x, a, w)
        \/ Brg!At(a, "test adv") /\ ~x.adv /\ x' = Brg!Done(x, a, << >>)
    BY <1>2 DEF Brg!Test
  <2>2. q \in Seq(Words) /\ Steps(q) = {"disc cancel", "not scanning"}
    BY <1>w, Duty
  <2>3. w \in Seq(Words) /\ Steps(w) = {"adv stop"}
    BY <1>w, Duty
  <2>4. /\ x.scanning => Effect(x, x, "test scanning", {"disc cancel", "not scanning"})
        /\ ~x.scanning => Effect(x, x, "test scanning", {})
        /\ x.adv => Effect(x, x, "test adv", {"adv stop"})
        /\ ~x.adv => Effect(x, x, "test adv", {})
    BY DEF Effect
  <2> HIDE DEF q, w
  <2>5. CASE Brg!At(a, "test scanning") /\ x.scanning /\ x' = Brg!Done(x, a, q)
    BY <1>x, <2>2, <2>4, <2>5, StepKeeps
  <2>6. CASE Brg!At(a, "test scanning") /\ ~x.scanning /\ x' = Brg!Done(x, a, << >>)
    BY <1>0, <1>x, <2>4, <2>6, StepKeeps
  <2>7. CASE Brg!At(a, "test adv") /\ x.adv /\ x' = Brg!Done(x, a, w)
    BY <1>x, <2>3, <2>4, <2>7, StepKeeps
  <2>8. CASE Brg!At(a, "test adv") /\ ~x.adv /\ x' = Brg!Done(x, a, << >>)
    BY <1>0, <1>x, <2>4, <2>8, StepKeeps
  <2> QED BY <2>1, <2>5, <2>6, <2>7, <2>8
<1>3. CASE Brg!blebridge_resume_scan(a)
  <2> DEFINE r == [x EXCEPT !.paused = FALSE]
             q == Brg!start_scan \o Brg!start_advertising
  <2>1. /\ Brg!At(a, "resume")
        /\ \/ x.paused /\ x' = Brg!Done(r, a, q)
           \/ ~x.paused /\ x' = Brg!Done(x, a, << >>)
    BY <1>3 DEF Brg!blebridge_resume_scan
  <2>2. q \in Seq(Words) /\ Steps(q) = {"disc", "set fields", "adv start"}
    BY StartDuty
  <2>3. /\ r \in BridgeState /\ Same(x, r) /\ r.todo = x.todo
        /\ x.paused => Effect(x, r, "resume", {"disc", "set fields", "adv start"})
    BY DEF BridgeState, Same, Effect
  <2>4. ~x.paused => Effect(x, x, "resume", {})
    BY DEF Effect
  <2> HIDE DEF r, q
  <2>6. CASE x.paused /\ x' = Brg!Done(r, a, q)
    BY <2>1, <2>2, <2>3, <2>6, StepKeeps
  <2>7. CASE ~x.paused /\ x' = Brg!Done(x, a, << >>)
    BY <1>0, <1>x, <2>1, <2>4, <2>7, StepKeeps
  <2> QED BY <2>1, <2>6, <2>7
<1> QED BY <1>1, <1>2, <1>3

-----------------------------------------------------------------------------
(* The other calls, and the theorem                                        *)

\* The callout, and the start of the host task.
LEMMA HostKeeps ==
  ASSUME x \in BridgeState, BridgeInv(x), Brg!on_sync \/ Brg!Callout
  PROVE  x' \in BridgeState /\ BridgeInv(x')
<1> DEFINE todo(q) == [x.todo EXCEPT !["host"] = q]
<1>t. x.todo \in [Actors -> Seq(Words)]
  BY DEF BridgeState, Actors
<1>1. CASE Brg!on_sync
  <2> DEFINE q == Brg!start_advertising \o Brg!start_scan \o <<"reset callout">>
             d == [x EXCEPT !.host = "running", !.synced = TRUE, !.todo = todo(q)]
  <2>1. q \in Seq(Words) /\ Steps(q) = {"disc", "set fields", "adv start", "reset callout"}
    BY StartDuty
  <2> HIDE DEF q
  <2>2. x.host = "launched" /\ (x' = d \/ x' = [x EXCEPT !.host = "failed"])
    BY <1>1 DEF Brg!on_sync, q
  <2>3. todo(q) \in [Actors -> Seq(Words)]
    BY <1>t, <2>1 DEF Actors
  <2>4. CASE x' = d
    <3> DEFINE f == todo(q)
    <3>0. f["host"] = q /\ \A b \in {"app", "event"} : f[b] = x.todo[b]
      BY <1>t DEF Actors
    <3> HIDE DEF f
    <3>1. /\ x' \in BridgeState /\ x'.todo = f /\ x'.host = "running" /\ x'.synced = TRUE
          /\ x'.app = x.app /\ x'.cb = x.cb /\ x'.armed = x.armed /\ x'.connected = x.connected
          /\ x'.paused = x.paused /\ x'.rare = x.rare
          /\ x'.disc = x.disc /\ x'.adv = x.adv
      BY <2>3, <2>4 DEF BridgeState, Actors, f
    <3>2. /\ x.todo["host"] = << >> /\ ~x.synced /\ ~x.paused
      BY <2>2 DEF BridgeInv, Phases
    <3>4. Phases(x')
      BY <2>2, <3>0, <3>1, <3>2 DEF BridgeInv, Phases
    <3>5. Duties(x')
      BY <2>1, <3>0, <3>1 DEF BridgeInv, Duties, Todo, HostWords, AdvWords
    <3>6. Pausing(x')
      BY <3>0, <3>1, <3>2 DEF BridgeInv, Pausing, Todo
    <3>7. Serving(x')
      <4>1. Tidy(q)
        BY <2>1, NoStop
      <4> QED BY <2>1, <3>0, <3>1, <4>1 DEF BridgeInv, Serving, Starting, Todo
    <3> QED BY <3>1, <3>4, <3>5, <3>6, <3>7 DEF BridgeInv
  <2>5. CASE x' = [x EXCEPT !.host = "failed"]
    <3>1. /\ x' \in BridgeState /\ x'.todo = x.todo /\ x'.host = "failed" /\ x'.synced = x.synced
          /\ x'.app = x.app /\ x'.cb = x.cb /\ x'.armed = x.armed /\ x'.connected = x.connected
          /\ x'.paused = x.paused /\ x'.rare = x.rare
          /\ x'.disc = x.disc /\ x'.adv = x.adv
      BY <2>5 DEF BridgeState
    <3>2. x.todo["host"] = << >> /\ ~x.synced /\ ~x.armed /\ x.app \in {"bridge", "loop"}
      BY <2>2 DEF BridgeInv, Phases
    <3> QED BY <3>1, <3>2 DEF BridgeInv, Phases, Duties, Pausing, Serving, Starting, Tidy, Todo
  <2> QED BY <2>2, <2>4, <2>5
<1>2. CASE Brg!ble_npl_callout_reset
  <2> DEFINE r == [x EXCEPT !.armed = TRUE]
             d == Brg!Done(r, "host", << >>)
  <2>1. Brg!At("host", "reset callout") /\ x' = d
    BY <1>2 DEF Brg!ble_npl_callout_reset
  <2>2. /\ r \in BridgeState /\ r.todo = x.todo /\ r.host = x.host /\ r.synced = x.synced /\ r.armed = TRUE
        /\ r.app = x.app /\ r.cb = x.cb /\ r.connected = x.connected
        /\ r.paused = x.paused /\ r.rare = x.rare
        /\ r.disc = x.disc /\ r.adv = x.adv
    BY DEF BridgeState
  <2> HIDE DEF r
  <2>3. x.todo["host"] # << >> /\ x.todo["host"][1] = "reset callout"
    BY <1>t, <2>1, TailSteps DEF Brg!At, Actors
  <2>4. BridgeInv(r)
    BY <2>2, <2>3 DEF BridgeInv, Phases, Duties, Pausing, Serving, Starting, Tidy, Todo
  <2>5. << >> \in Seq(Words) /\ Steps(<< >>) = {} /\ "host" \in Actors
    BY Duty DEF Actors
  <2>6. Advanced(r, d, "host", << >>)
    BY <2>2, <2>3, <2>5, DoneFacts
  <2> HIDE DEF d
  <2>7. Moved(r, d, "host", {}, Steps(Tail(r.todo["host"])))
    BY <2>2, <2>3, <2>5, <2>6, MoveFacts
  <2>8. Effect(r, d, r.todo["host"][1], {})
    <3>1. d.paused = r.paused /\ d.disc = r.disc /\ d.adv = r.adv
      BY <2>6 DEF Advanced
    <3> QED BY <2>2, <2>3, <3>1 DEF Effect
  <2>9. BridgeInv(d)
    BY <2>2, <2>4, <2>5, <2>7, <2>8, MoveKeeps
  <2> QED BY <2>1, <2>7, <2>9 DEF Moved
<1>3. CASE Brg!dbg_callout_fn
  <2> DEFINE p == <<"reset callout">>
             q == <<"adv stop">> \o Brg!start_advertising \o <<"reset callout">>
  <2>1. /\ p \in Seq(Words) /\ Steps(p) = {"reset callout"}
        /\ q \in Seq(Words) /\ Steps(q) = AdvWords \cup {"reset callout"} /\ Tidy(q)
    <3>1. "reset callout" \in Words
      BY DEF Words, HostWords
    <3> QED BY <3>1, Duty, StartDuty
  <2> HIDE DEF p, q
  <2>2. /\ x.armed /\ x.todo["host"] = << >>
        /\ x' = IF x.paused THEN [x EXCEPT !.armed = FALSE, !.todo["host"] = p]
                ELSE [x EXCEPT !.armed = FALSE, !.name = x.status, !.todo["host"] = q]
    BY <1>3 DEF Brg!dbg_callout_fn, p, q
  <2> DEFINE w == IF x.paused THEN p ELSE q
             f == todo(w)
  <2>3. w \in Seq(Words) /\ f["host"] = w /\ (\A b \in {"app", "event"} : f[b] = x.todo[b])
        /\ f \in [Actors -> Seq(Words)]
    BY <1>t, <2>1 DEF Actors
  <2>4. x' = [x EXCEPT !.armed = FALSE, !.name = IF x.paused THEN x.name ELSE x.status, !.todo = f]
    BY <2>2 DEF BridgeState
  <2>5. (IF x.paused THEN x.name ELSE x.status) \in Names
    BY DEF BridgeState, Names
  <2>6. /\ Steps(w) \subseteq HostWords /\ ("adv stop" \in Steps(w) => "adv start" \in Steps(w))
        /\ Todo(x, "host") = {}
    BY <2>1, <2>2, Duty DEF HostWords, AdvWords, Todo
  <2>60. Tidy(w)
    BY <2>1, NoStop
  <2> HIDE DEF f, w
  <2>7. /\ x' \in BridgeState /\ x'.todo = f /\ x'.host = x.host /\ x'.synced = x.synced /\ x'.armed = FALSE
        /\ x'.app = x.app /\ x'.cb = x.cb /\ x'.connected = x.connected
        /\ x'.paused = x.paused /\ x'.rare = x.rare
        /\ x'.disc = x.disc /\ x'.adv = x.adv
    BY <2>3, <2>4, <2>5 DEF BridgeState, Actors
  <2>8. Phases(x')
    BY <2>2, <2>3, <2>7 DEF BridgeInv, Phases
  <2>9. Duties(x') /\ Pausing(x')
    BY <2>3, <2>6, <2>7 DEF BridgeInv, Duties, Pausing, Todo
  <2>10. Serving(x')
    BY <2>3, <2>6, <2>60, <2>7 DEF BridgeInv, Serving, Starting, Todo
  <2> QED BY <2>7, <2>8, <2>9, <2>10 DEF BridgeInv
<1> QED BY <1>1, <1>2, <1>3 DEF Brg!Callout

\* The application: bringing the components up, and its loop.
LEMMA AppKeeps ==
  ASSUME x \in BridgeState, BridgeInv(x),
         \/ \E role \in Roles : Brg!espmesh_start(role)
         \/ Brg!blebridge_start \/ Brg!espmesh_set_link_change_cb \/ Brg!usermain \/ Brg!blebridge_update_name
  PROVE  x' \in BridgeState /\ BridgeInv(x')
<1> DEFINE Rest(d) == /\ d.armed = x.armed /\ d.synced = x.synced /\ d.paused = x.paused
                      /\ d.disc = x.disc /\ d.adv = x.adv
<1>t. x.todo \in [Actors -> Seq(Words)]
  BY DEF BridgeState, Actors
<1>1. ASSUME NEW role \in Roles, Brg!espmesh_start(role)
      PROVE  x' \in BridgeState /\ BridgeInv(x')
  <2>0. x.app \in {"boot", "started"}
    BY <1>1 DEF Brg!espmesh_start
  <2>1. /\ x' \in BridgeState /\ Rest(x') /\ x'.todo = x.todo /\ x'.host = x.host /\ x'.cb = x.cb
        /\ x'.rare = x.rare
    <3>1. \/ \E p \in {"started", "idle"} : x' = [x EXCEPT !.app = p]
          \/ x' = [x EXCEPT !.app = "mesh", !.connected = x.connected \/ role = "ROOT"]
      BY <1>1 DEF Brg!espmesh_start
    <3>2. ASSUME NEW p \in {"started", "idle"}, x' = [x EXCEPT !.app = p] 
          PROVE  x' \in BridgeState /\ Rest(x') /\ x'.todo = x.todo /\ x'.host = x.host /\ x'.cb = x.cb /\ x'.rare = x.rare
      BY <3>2 DEF BridgeState
    <3>3. ASSUME NEW b \in BOOLEAN, x' = [x EXCEPT !.app = "mesh", !.connected = b] 
          PROVE  x' \in BridgeState /\ Rest(x') /\ x'.todo = x.todo /\ x'.host = x.host /\ x'.cb = x.cb /\ x'.rare = x.rare
      BY <3>3 DEF BridgeState
    <3>4. (x.connected \/ role = "ROOT") \in BOOLEAN
      OBVIOUS
    <3> QED BY <3>1, <3>2, <3>3, <3>4
  <2>2. ~x.cb /\ ~x.paused /\ x.host = "none" /\ x.todo["event"] = << >>
    BY <2>0 DEF BridgeInv, Phases
  <2>3. Todo(x, "event") = {}
    BY <2>2, Duty DEF Todo
  <2> QED BY <2>1, <2>2, <2>3 DEF BridgeInv, Phases, Duties, Pausing, Serving, Starting, Tidy, Todo
<1>2. CASE Brg!blebridge_start
  <2>0. x.app = "mesh"
    BY <1>2 DEF Brg!blebridge_start
  <2>1. /\ x' \in BridgeState /\ Rest(x') /\ x'.todo = x.todo /\ x'.host \in {"launched", "failed"}
        /\ x'.cb = x.cb /\ x'.rare = x.rare /\ x'.app = "bridge" /\ x'.connected = x.connected
    <3>1. PICK h \in {"launched", "failed"} : x' = [x EXCEPT !.app = "bridge", !.host = h]
      BY <1>2 DEF Brg!blebridge_start
    <3> QED BY <3>1 DEF BridgeState
  <2>2. ~x.cb /\ ~x.paused /\ x.host = "none" /\ ~x.synced /\ ~x.armed /\ x.todo["host"] = << >>
    BY <2>0 DEF BridgeInv, Phases
  <2> QED BY <2>1, <2>2 DEF BridgeInv, Phases, Duties, Pausing, Serving, Starting, Tidy, Todo
<1>3. CASE Brg!espmesh_set_link_change_cb
  <2>0. x.app = "bridge"
    BY <1>3 DEF Brg!espmesh_set_link_change_cb
  <2>1. /\ x' \in BridgeState /\ Rest(x') /\ x'.todo = x.todo /\ x'.host = x.host
        /\ x'.cb = TRUE /\ x'.rare = x.rare /\ x'.app = "loop" /\ x'.connected = x.connected
    BY <1>3 DEF Brg!espmesh_set_link_change_cb, BridgeState
  <2> QED BY <2>0, <2>1 DEF BridgeInv, Phases, Duties, Pausing, Serving, Starting, Tidy, Todo
<1>4. CASE Brg!usermain
  <2>1. /\ x' \in BridgeState /\ Rest(x') /\ x'.todo = x.todo /\ x'.host = x.host
        /\ x'.cb = x.cb /\ x'.rare = x.rare /\ x'.app = x.app /\ x'.connected = x.connected
    <3>1. (\E v \in {"sent", "not sent"} : x' = [x EXCEPT !.status = v]) \/ x' = x
      BY <1>4 DEF Brg!usermain, Brg!blebridge_set_status
    <3>2. ASSUME NEW v \in {"sent", "not sent"}, x' = [x EXCEPT !.status = v] 
          PROVE  x' \in BridgeState /\ Rest(x') /\ x'.todo = x.todo /\ x'.host = x.host 
                 /\ x'.cb = x.cb /\ x'.rare = x.rare /\ x'.app = x.app /\ x'.connected = x.connected
      BY <3>2 DEF BridgeState, Statuses
    <3> QED BY <3>1, <3>2
  <2> QED BY <2>1 DEF BridgeInv, Phases, Duties, Pausing, Serving, Starting, Tidy, Todo
<1>5. CASE Brg!blebridge_update_name
  <2> DEFINE q == <<"adv stop">> \o Brg!start_advertising
             f == [x.todo EXCEPT !["app"] = q]
             c == x.rare + 1
  <2>1. q \in Seq(Words) /\ Steps(q) = AdvWords
    BY StartDuty
  <2> HIDE DEF q
  <2>2. /\ x.app = "loop" /\ x.todo["app"] = << >> /\ x.synced
        /\ x' = [x EXCEPT !.name = "renamed", !.rare = c, !.todo = f]
    BY <1>5 DEF Brg!blebridge_update_name, q
  <2>3. f \in [Actors -> Seq(Words)] /\ f["app"] = q /\ \A b \in {"event", "host"} : f[b] = x.todo[b]
    BY <1>t, <2>1 DEF Actors
  <2>4. c \in Nat /\ c # 0
    <3>1. x.rare \in Nat
      BY DEF BridgeState
    <3> QED BY <3>1, OneMore, Zenon
  <2> HIDE DEF f, c
  <2>6. /\ x' \in BridgeState /\ Rest(x') /\ x'.todo = f /\ x'.host = x.host
        /\ x'.cb = x.cb /\ x'.rare = c /\ x'.app = x.app /\ x'.connected = x.connected
    <3> DEFINE n == "renamed"
    <3>1. n \in Names /\ x' = [x EXCEPT !.name = n, !.rare = c, !.todo = f]
      BY <2>2 DEF Names
    <3> HIDE DEF n
    <3> QED BY <2>3, <2>4, <3>1 DEF BridgeState, Actors
  <2> QED BY <2>1, <2>3, <2>4, <2>6 DEF BridgeInv, Phases, Duties, Pausing, Serving, Starting, Tidy, Todo
<1> QED BY <1>1, <1>2, <1>3, <1>4, <1>5

\* The mesh: its events, and their delivery.
LEMMA MeshKeeps ==
  ASSUME x \in BridgeState, BridgeInv(x),
         Brg!on_mesh_event \/ \E e \in {"CONNECTED", "DISCONNECTED", "ROOT_ADDRESS"} : Brg!Post(e)
  PROVE  x' \in BridgeState /\ BridgeInv(x')
<1> DEFINE Events == {"CONNECTED", "DISCONNECTED", "ROOT_ADDRESS"}
           Rest(d) == /\ d.app = x.app /\ d.host = x.host /\ d.cb = x.cb /\ d.rare = x.rare
                      /\ d.armed = x.armed /\ d.synced = x.synced /\ d.paused = x.paused
                      /\ d.disc = x.disc /\ d.adv = x.adv
<1>t. x.todo \in [Actors -> Seq(Words)] /\ x.events \in Seq(Events)
  BY DEF BridgeState, Actors
<1>1. ASSUME NEW e \in Events, Brg!Post(e)
      PROVE  x' \in BridgeState /\ BridgeInv(x')
  <2> DEFINE b == IF e = "ROOT_ADDRESS" THEN x.link ELSE e = "CONNECTED"
             q == Append(x.events, e)
  <2>0. b \in BOOLEAN
    BY DEF BridgeState
  <2>1. b \in BOOLEAN /\ q \in Seq(Events)
    <3> HIDE DEF b, Events
    <3> QED BY <1>t, <1>1, <2>0
  <2>2. x' = [x EXCEPT !.link = b, !.events = q]
    BY <1>1 DEF Brg!Post
  <2> HIDE DEF b, q
  <2>3. x' \in BridgeState /\ Rest(x') /\ x'.todo = x.todo /\ x'.connected = x.connected
    BY <2>1, <2>2 DEF BridgeState
  <2> QED BY <2>3 DEF BridgeInv, Phases, Duties, Pausing, Serving, Starting, Tidy, Todo
<1>2. CASE Brg!on_mesh_event
  <2> DEFINE e == Head(x.events)
             t == Tail(x.events)
             w == IF e = "CONNECTED" THEN "resume" ELSE "pause"
             q == IF x.cb THEN <<w>> ELSE << >>
             f == [x.todo EXCEPT !["event"] = q]
             b == e = "CONNECTED"
  <2>1. e \in Events /\ t \in Seq(Events) /\ x.todo["event"] = << >>
    BY <1>2, <1>t DEF Brg!on_mesh_event
  <2>2. x' = IF e = "ROOT_ADDRESS" THEN [x EXCEPT !.events = t, !.have_root = TRUE]
             ELSE [x EXCEPT !.events = t, !.connected = b, !.todo = f]
    BY <1>2 DEF Brg!on_mesh_event, Brg!on_espmesh_link_change, BridgeState
  <2>3. q \in Seq(Words) /\ Steps(q) = (IF x.cb THEN {w} ELSE {}) /\ (~x.cb => q = << >>)
    <3>1. w \in Words
      BY DEF Words, PauseWords, ResumeWords
    <3> HIDE DEF w
    <3> QED BY <3>1, Duty
  <2>4. Todo(x, "event") = {}
    BY <2>1, Duty DEF Todo
  <2> HIDE DEF e, t, q
  <2>5. CASE e = "ROOT_ADDRESS"
    <3>1. x' \in BridgeState /\ Rest(x') /\ x'.todo = x.todo /\ x'.connected = x.connected
      BY <2>1, <2>2, <2>5 DEF BridgeState
    <3> QED BY <3>1 DEF BridgeInv, Phases, Duties, Pausing, Serving, Starting, Tidy, Todo
  <2>6. CASE e # "ROOT_ADDRESS"
    <3>1. f \in [Actors -> Seq(Words)] /\ f["event"] = q /\ \A c \in {"app", "host"} : f[c] = x.todo[c]
      BY <1>t, <2>3 DEF Actors
    <3> HIDE DEF f
    <3>2. x' \in BridgeState /\ Rest(x') /\ x'.todo = f /\ x'.connected = b
      BY <2>1, <2>2, <2>6, <3>1, ZenonT(40) DEF BridgeState, Actors
    <3>3. Phases(x')
      BY <2>3, <3>1, <3>2 DEF BridgeInv, Phases
    <3>4. Duties(x')
      BY <2>3, <3>1, <3>2 DEF BridgeInv, Duties, Todo, PauseWords, ResumeWords
    <3>5. Pausing(x')
      BY <2>3, <3>1, <3>2 DEF BridgeInv, Phases, Pausing, Todo, PauseWords, ResumeWords
    <3>6. Serving(x')
      BY <2>4, <3>1, <3>2 DEF BridgeInv, Serving, Starting, Tidy, Todo
    <3> QED BY <3>2, <3>3, <3>4, <3>5, <3>6 DEF BridgeInv
  <2> QED BY <2>5, <2>6
<1> QED BY <1>1, <1>2

\* The initial state.
LEMMA BridgeStarts ==
  ASSUME Brg!Init PROVE x \in BridgeState /\ BridgeInv(x)
<1> DEFINE f == [a \in {"app", "event", "host"} |-> << >>]
<1>1. f \in [Actors -> Seq(Words)] /\ \A a \in Actors : f[a] = << >>
  BY DEF Actors
<1>2. x \in [app : {"boot"}, host : {"none"}, link : {FALSE}, events : {<< >>},
         connected : {FALSE}, have_root : {FALSE}, cb : {FALSE},
         synced : {FALSE}, paused : {FALSE}, scanning : {FALSE}, disc : {FALSE}, adv : {FALSE},
         armed : {FALSE}, status : {"boot"}, name : {"given"}, data : {"none"},
         rare : {0}, todo : {f}]
  BY DEF Brg!Init
<1> HIDE DEF f
<1>3. x \in BridgeState /\ x.todo = f
  <2> DEFINE e == << >>
  <2>1. e \in Seq({"CONNECTED", "DISCONNECTED", "ROOT_ADDRESS"})
    OBVIOUS
  <2> HIDE DEF e
  <2>2. "boot" \in Statuses /\ "given" \in Names /\ "none" \in {"none"} \cup Names
    BY DEF Statuses, Names
  <2> DEFINE E == Seq({"CONNECTED", "DISCONNECTED", "ROOT_ADDRESS"})
             G == [Actors -> Seq(Words)]
  <2>3. f \in G /\ e \in E
    BY <1>1, <2>1
  <2> HIDE DEF E, G
  <2>4. x \in [app : {"boot", "started", "mesh", "bridge", "loop", "idle"},
   host : {"none", "launched", "running", "failed"}, link : BOOLEAN,
   events : E,
   connected : BOOLEAN, have_root : BOOLEAN, cb : BOOLEAN,
   synced : BOOLEAN, paused : BOOLEAN, scanning : BOOLEAN, disc : BOOLEAN, adv : BOOLEAN,
   armed : BOOLEAN, status : Statuses, name : Names, data : {"none"} \cup Names, rare : Nat,
   todo : G] /\ x.todo = f
    <3>1. x = [app |-> "boot", host |-> "none", link |-> FALSE, events |-> e,
         connected |-> FALSE, have_root |-> FALSE, cb |-> FALSE,
         synced |-> FALSE, paused |-> FALSE, scanning |-> FALSE, disc |-> FALSE, adv |-> FALSE,
         armed |-> FALSE, status |-> "boot", name |-> "given", data |-> "none",
         rare |-> 0, todo |-> f]
      BY <1>2 DEF e
    <3> QED BY <3>1, <2>2, <2>3
  <2> QED BY <2>4 DEF BridgeState, Actors, E, G
<1>4. \A a \in Actors : x.todo[a] = << >> /\ Todo(x, a) = {}
  BY <1>1, <1>3, Duty DEF Todo
<1>5. x.app = "boot" /\ x.host = "none" /\ ~x.cb /\ ~x.synced /\ ~x.paused /\ ~x.armed /\ ~x.connected /\ ~x.disc
  BY <1>2
<1>6. Tidy(x.todo["host"])
  BY <1>4, Duty, NoStop DEF Actors
<1> QED BY <1>3, <1>4, <1>5, <1>6 DEF BridgeInv, Phases, Duties, Pausing, Serving, Actors

\* Every step.
LEMMA BridgeKeeps ==
  ASSUME x \in BridgeState, BridgeInv(x), Brg!Next
  PROVE  x' \in BridgeState /\ BridgeInv(x')
BY RadioKeeps, PauseKeeps, HostKeeps, AppKeeps, MeshKeeps DEF Brg!Next, Brg!Inside, Actors

\* The invariant is strong enough.
LEMMA BridgeSafe ==
  ASSUME x \in BridgeState, BridgeInv(x) PROVE Brg!BridgeServes
<1>1. \A a \in Actors : x.todo[a] = << >> => Todo(x, a) = {}
  BY Duty DEF Todo
<1> QED BY <1>1 DEF Brg!BridgeServes, Brg!EventsDone, BridgeInv, Pausing, Serving, Starting, Tidy, Actors

\* While the bridge is in view, its invariant holds.
RadioInv == kind = "bridge" => x \in BridgeState /\ BridgeInv(x)

\* The BLE bridge is paused only while the mesh reconnects, and on the air again
\* afterwards, for any bound on pending events and in whatever order its tasks
\* get to run.  What is on the air in a pause is not claimed: see ScanPaused.
THEOREM RadioCorrect == Spec => []BridgeServes
<1>1. Init => RadioInv
  BY BridgeStarts DEF Init, RadioInv
<1>2. RadioInv /\ [Next]_vars => RadioInv'
  <2>1. CASE UNCHANGED vars
    BY <2>1, Zenon DEF RadioInv, vars
  <2>2. CASE Next
    <3>1. kind' = kind
      BY <2>2 DEF Next, OfSem, OfBridge
    <3>2. kind = "bridge" => Brg!Next
      BY <2>2 DEF Next, OfSem, OfBridge
    <3> QED BY <3>1, <3>2, BridgeKeeps DEF RadioInv
  <2> QED BY <2>1, <2>2
<1>3. RadioInv => BridgeServes
  BY BridgeSafe DEF RadioInv, BridgeServes
<1> QED BY <1>1, <1>2, <1>3, PTL DEF Spec
=============================================================================
