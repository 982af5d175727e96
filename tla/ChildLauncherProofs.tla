----------------------- MODULE ChildLauncherProofs -----------------------
(***************************************************************************)
(* Proofs about the child's privilege-drop pipeline, for every set of      *)
(* children, every path, pipe size and payload.                            *)
(***************************************************************************)
EXTENDS ChildLauncher, TLAPS

\* The steps after the sandbox step, where capabilities are gone.
Late == {"umask", "chdir", "render", "devnull", "pipe", "stdin", "stdout",
         "stderr", "write", "rlimit", "closerange", "exec"}

StdFinal == [i \in 0..2 |-> IF i = 0 THEN "pipe_r" ELSE "null"]
StdTty == [i \in 0..2 |-> "tty"]

\* The descriptor table a child has when it is about to run step s.
FdsAt(s) ==
    CASE s \in {"bootstrap", "initgroups", "setresgid", "setresuid", "sandbox",
                "umask", "chdir", "render", "devnull"}
              -> [open |-> {"inherited"}, std |-> StdTty]
      [] s = "pipe" -> [open |-> {"inherited", "null"}, std |-> StdTty]
      [] s = "stdin" -> [open |-> {"inherited", "null", "pipe_r", "pipe_w"},
                         std |-> StdTty]
      [] s = "stdout" -> [open |-> {"inherited", "null", "pipe_w"},
                          std |-> [StdTty EXCEPT ![0] = "pipe_r"]]
      [] s = "stderr" -> [open |-> {"inherited", "null", "pipe_w"},
                          std |-> [StdTty EXCEPT ![0] = "pipe_r", ![1] = "null"]]
      [] s = "write" -> [open |-> {"inherited", "pipe_w"}, std |-> StdFinal]
      [] s \in {"rlimit", "closerange"}
              -> [open |-> {"inherited"}, std |-> StdFinal]
      [] s = "exec" -> [open |-> {}, std |-> StdFinal]

\* What a child in step s, with status st, credentials c, descriptors f,
\* uid-change flag u and manager privileges p, has done so far.
Done(s, st, c, f, u, p) ==
    /\ st = "exec" => s = "exec"
    /\ f = FdsAt(s)
    /\ s \in {"initgroups", "setresgid", "setresuid"} => u
    /\ s = "setresuid" => c.gid = "target"
    /\ s \in Late \cup {"sandbox"} /\ u => c.uid = "target" /\ c.gid = "target"
    /\ s \in Late => ~c.caps /\ c.nnp /\ c.sid = "own"

KidInv(k) == Done(at[k], status[k], cred[k], fds[k], UidChange[k], privs)

LaunchInv == TypeOK /\ \A k \in Kids : KidInv(k)

\* A step of child k changes nothing of any other child.
Frame(k) ==
    /\ privs' = privs
    /\ \A j \in Kids \ {k} :
          /\ at'[j] = at[j] /\ code'[j] = code[j] /\ status'[j] = status[j]
          /\ exit'[j] = exit[j] /\ failedAt'[j] = failedAt[j]
          /\ cred'[j] = cred[j] /\ fds'[j] = fds[j] /\ payload'[j] = payload[j]

USE LauncherAssumption

LEMMA InitLaunch == Init => LaunchInv
<1> SUFFICES ASSUME Init PROVE LaunchInv
  OBVIOUS
<1>1. TypeOK
  BY DEF Init, TypeOK, CredType, FdsType, Steps, FirstCode
<1>2. ASSUME NEW k \in Kids PROVE KidInv(k)
  BY DEF Init, KidInv, Done, FdsAt, StdTty, Late
<1>3. QED
  BY <1>1, <1>2 DEF LaunchInv

\* A step of child k that keeps the types, changes no other child, and
\* leaves child k in a state that satisfies Done keeps the invariant.
LEMMA FrameInv ==
    ASSUME LaunchInv, NEW k \in Kids, TypeOK', Frame(k), KidInv(k)'
    PROVE  LaunchInv'
<1>1. ASSUME NEW j \in Kids \ {k} PROVE KidInv(j)'
  <2>1. KidInv(j)
    BY DEF LaunchInv
  <2>2. QED
    BY <2>1, Frame(k) DEF Frame, KidInv
<1>2. QED
  BY <1>1 DEF LaunchInv

\* A failing step (except + finally) leaves step, credentials and
\* descriptors as they were.
LEMMA FailInv ==
    ASSUME LaunchInv, NEW k \in Kids, Fail(k)
    PROVE  LaunchInv'
<1>1. TypeOK' /\ Frame(k)
  BY DEF Fail, Frame, TypeOK, LaunchInv
<1>2. KidInv(k)'
  <2>1. KidInv(k)
    BY DEF LaunchInv
  <2>2. status'[k] = "exited" /\ at' = at /\ cred' = cred /\ fds' = fds
        /\ privs' = privs
    BY DEF Fail, TypeOK, LaunchInv
  <2>3. QED
    BY <2>1, <2>2 DEF KidInv, Done
<1>3. QED
  BY <1>1, <1>2, FrameInv

\* A step that completes into step s with credentials c and descriptors f.
LEMMA GoWithInv ==
    ASSUME LaunchInv, NEW k \in Kids, NEW s \in Steps, NEW c \in CredType,
           NEW f \in FdsType, status[k] = "run", GoWith(k, s, c, f),
           Done(s, "run", c, f, UidChange[k], privs)
    PROVE  LaunchInv'
<1>1. TypeOK' /\ Frame(k)
  BY DEF GoWith, Go, Frame, TypeOK, LaunchInv
<1>2. KidInv(k)'
  <2>1. at'[k] = s /\ status'[k] = "run" /\ cred'[k] = c /\ fds'[k] = f
        /\ privs' = privs
    BY DEF GoWith, Go, TypeOK, LaunchInv
  <2>2. QED
    BY <2>1 DEF KidInv
<1>3. QED
  BY <1>1, <1>2, FrameInv

\* The credential updates of initgroups, setresgid, setresuid and the
\* sandbox step stay within the credential records.
LEMMA CredUpdate ==
    ASSUME NEW c \in CredType
    PROVE  /\ [c EXCEPT !.groups = "target"] \in CredType
           /\ [c EXCEPT !.gid = "target"] \in CredType
           /\ [c EXCEPT !.uid = "target"] \in CredType
           /\ [c EXCEPT !.caps = FALSE, !.nnp = TRUE, !.sid = "own"] \in CredType
<1>1. [c EXCEPT !.groups = "target"] \in CredType
  BY DEF CredType
<1>2. [c EXCEPT !.gid = "target"] \in CredType
  BY DEF CredType
<1>3. [c EXCEPT !.uid = "target"] \in CredType
  BY DEF CredType
<1>4. [c EXCEPT !.caps = FALSE, !.nnp = TRUE, !.sid = "own"] \in CredType
  BY DEF CredType
<1>5. QED
  BY <1>1, <1>2, <1>3, <1>4

\* Every descriptor table of the pipeline is a descriptor table.
LEMMA FdsAtType ==
    ASSUME NEW s \in Steps
    PROVE  FdsAt(s) \in FdsType
<1>1. StdTty \in [0..2 -> {"tty", "null", "pipe_r"}]
  BY DEF StdTty
<1>2. StdFinal \in [0..2 -> {"tty", "null", "pipe_r"}]
  BY DEF StdFinal
<1>3. [StdTty EXCEPT ![0] = "pipe_r"] \in [0..2 -> {"tty", "null", "pipe_r"}]
  BY <1>1
<1>4. [StdTty EXCEPT ![0] = "pipe_r", ![1] = "null"] \in [0..2 -> {"tty", "null", "pipe_r"}]
  BY <1>1
<1>5. QED
  BY <1>1, <1>2, <1>3, <1>4 DEF FdsAt, FdsType, Steps

\* A step of running child k into step s, credentials c, descriptors f.
LEMMA GoFrom ==
    ASSUME LaunchInv, NEW k \in Kids, NEW s \in Steps, NEW c \in CredType,
           NEW f \in FdsType, status[k] = "run", GoWith(k, s, c, f),
           KidInv(k) => Done(s, "run", c, f, UidChange[k], privs)
    PROVE  LaunchInv'
<1>1. KidInv(k)
  BY DEF LaunchInv
<1>2. QED
  BY <1>1, GoWithInv

\* The bootstrap step keeps the invariant.
LEMMA BootstrapInv ==
    ASSUME LaunchInv, NEW k \in Kids, Bootstrap(k)
    PROVE  LaunchInv'
<1>1. status[k] = "run" /\ In(k, "bootstrap") /\ KidInv(k) /\ TypeOK
  BY DEF Bootstrap, In, LaunchInv
<1>2. cred[k] \in CredType /\ fds[k] = FdsAt("bootstrap")
  BY <1>1 DEF TypeOK, In, KidInv, Done
<1>3. CASE GoWith(k, (IF UidChange[k] THEN "initgroups" ELSE "sandbox"), cred[k],
               fds[k])
  <2>1. fds[k] = FdsAt((IF UidChange[k] THEN "initgroups" ELSE "sandbox"))
    BY <1>2 DEF FdsAt, StdTty, StdFinal
  <2>2. (IF UidChange[k] THEN "initgroups" ELSE "sandbox") \in Steps /\ cred[k] \in CredType
    BY <1>2, CredUpdate DEF Steps
  <2>3. KidInv(k) => Done((IF UidChange[k] THEN "initgroups" ELSE "sandbox"), "run", cred[k],
                          fds[k], UidChange[k], privs)
    BY <1>1, <1>2, <2>1 DEF In, KidInv, Done, Late, CredType
  <2>4. QED
    BY <1>1, <1>3, <2>1, <2>2, <2>3, FdsAtType, GoFrom
<1>4. CASE Fail(k)
  BY <1>4, FailInv
<1>5. QED
  BY <1>3, <1>4 DEF Bootstrap

\* The initgroups step keeps the invariant.
LEMMA InitgroupsInv ==
    ASSUME LaunchInv, NEW k \in Kids, Initgroups(k)
    PROVE  LaunchInv'
<1>1. status[k] = "run" /\ In(k, "initgroups") /\ KidInv(k) /\ TypeOK
  BY DEF Initgroups, In, LaunchInv
<1>2. cred[k] \in CredType /\ fds[k] = FdsAt("initgroups")
  BY <1>1 DEF TypeOK, In, KidInv, Done
<1>3. CASE privs.setgid /\ GoWith(k, "setresgid", [cred[k] EXCEPT !.groups = "target"],
               fds[k])
  <2>1. fds[k] = FdsAt("setresgid")
    BY <1>2 DEF FdsAt, StdTty, StdFinal
  <2>2. "setresgid" \in Steps /\ [cred[k] EXCEPT !.groups = "target"] \in CredType
    BY <1>2, CredUpdate DEF Steps
  <2>3. KidInv(k) => Done("setresgid", "run", [cred[k] EXCEPT !.groups = "target"],
                          fds[k], UidChange[k], privs)
    BY <1>1, <1>2, <2>1, <1>3 DEF In, KidInv, Done, Late, CredType
  <2>4. QED
    BY <1>1, <1>3, <2>1, <2>2, <2>3, FdsAtType, GoFrom
<1>4. CASE ~privs.setgid /\ GoWith(k, "setresgid", cred[k],
               fds[k])
  <2>1. fds[k] = FdsAt("setresgid")
    BY <1>2 DEF FdsAt, StdTty, StdFinal
  <2>2. "setresgid" \in Steps /\ cred[k] \in CredType
    BY <1>2, CredUpdate DEF Steps
  <2>3. KidInv(k) => Done("setresgid", "run", cred[k],
                          fds[k], UidChange[k], privs)
    BY <1>1, <1>2, <2>1, <1>4 DEF In, KidInv, Done, Late, CredType
  <2>4. QED
    BY <1>1, <1>4, <2>1, <2>2, <2>3, FdsAtType, GoFrom
<1>5. CASE Fail(k)
  BY <1>5, FailInv
<1>6. QED
  BY <1>3, <1>4, <1>5 DEF Initgroups

\* The setresgid step keeps the invariant.
LEMMA SetresgidInv ==
    ASSUME LaunchInv, NEW k \in Kids, Setresgid(k)
    PROVE  LaunchInv'
<1>1. status[k] = "run" /\ In(k, "setresgid") /\ KidInv(k) /\ TypeOK
  BY DEF Setresgid, In, LaunchInv
<1>2. cred[k] \in CredType /\ fds[k] = FdsAt("setresgid")
  BY <1>1 DEF TypeOK, In, KidInv, Done
<1>3. CASE (privs.setgid \/ SameGid[k]) /\ GoWith(k, "setresuid", [cred[k] EXCEPT !.gid = "target"],
               fds[k])
  <2>1. fds[k] = FdsAt("setresuid")
    BY <1>2 DEF FdsAt, StdTty, StdFinal
  <2>2. "setresuid" \in Steps /\ [cred[k] EXCEPT !.gid = "target"] \in CredType
    BY <1>2, CredUpdate DEF Steps
  <2>3. KidInv(k) => Done("setresuid", "run", [cred[k] EXCEPT !.gid = "target"],
                          fds[k], UidChange[k], privs)
    BY <1>1, <1>2, <2>1, <1>3 DEF In, KidInv, Done, Late, CredType
  <2>4. QED
    BY <1>1, <1>3, <2>1, <2>2, <2>3, FdsAtType, GoFrom
<1>4. CASE Fail(k)
  BY <1>4, FailInv
<1>5. QED
  BY <1>3, <1>4 DEF Setresgid

\* The setresuid step keeps the invariant.
LEMMA SetresuidInv ==
    ASSUME LaunchInv, NEW k \in Kids, Setresuid(k)
    PROVE  LaunchInv'
<1>1. status[k] = "run" /\ In(k, "setresuid") /\ KidInv(k) /\ TypeOK
  BY DEF Setresuid, In, LaunchInv
<1>2. cred[k] \in CredType /\ fds[k] = FdsAt("setresuid")
  BY <1>1 DEF TypeOK, In, KidInv, Done
<1>3. CASE (privs.setuid \/ SameUid[k]) /\ GoWith(k, "sandbox", [cred[k] EXCEPT !.uid = "target"],
               fds[k])
  <2>1. fds[k] = FdsAt("sandbox")
    BY <1>2 DEF FdsAt, StdTty, StdFinal
  <2>2. "sandbox" \in Steps /\ [cred[k] EXCEPT !.uid = "target"] \in CredType
    BY <1>2, CredUpdate DEF Steps
  <2>3. KidInv(k) => Done("sandbox", "run", [cred[k] EXCEPT !.uid = "target"],
                          fds[k], UidChange[k], privs)
    BY <1>1, <1>2, <2>1, <1>3 DEF In, KidInv, Done, Late, CredType
  <2>4. QED
    BY <1>1, <1>3, <2>1, <2>2, <2>3, FdsAtType, GoFrom
<1>4. CASE Fail(k)
  BY <1>4, FailInv
<1>5. QED
  BY <1>3, <1>4 DEF Setresuid

\* The sandbox step keeps the invariant.
LEMMA SandboxInv ==
    ASSUME LaunchInv, NEW k \in Kids, Sandbox(k)
    PROVE  LaunchInv'
<1>1. status[k] = "run" /\ In(k, "sandbox") /\ KidInv(k) /\ TypeOK
  BY DEF Sandbox, In, LaunchInv
<1>2. cred[k] \in CredType /\ fds[k] = FdsAt("sandbox")
  BY <1>1 DEF TypeOK, In, KidInv, Done
<1>3. CASE GoWith(k, "umask", [cred[k] EXCEPT !.caps = FALSE, !.nnp = TRUE, !.sid = "own"],
               fds[k])
  <2>1. fds[k] = FdsAt("umask")
    BY <1>2 DEF FdsAt, StdTty, StdFinal
  <2>2. "umask" \in Steps /\ [cred[k] EXCEPT !.caps = FALSE, !.nnp = TRUE, !.sid = "own"] \in CredType
    BY <1>2, CredUpdate DEF Steps
  <2>3. KidInv(k) => Done("umask", "run", [cred[k] EXCEPT !.caps = FALSE, !.nnp = TRUE, !.sid = "own"],
                          fds[k], UidChange[k], privs)
    BY <1>1, <1>2, <2>1 DEF In, KidInv, Done, Late, CredType
  <2>4. QED
    BY <1>1, <1>3, <2>1, <2>2, <2>3, FdsAtType, GoFrom
<1>4. CASE Fail(k)
  BY <1>4, FailInv
<1>5. QED
  BY <1>3, <1>4 DEF Sandbox

\* The umask step keeps the invariant.
LEMMA UmaskInv ==
    ASSUME LaunchInv, NEW k \in Kids, Umask(k)
    PROVE  LaunchInv'
<1>1. status[k] = "run" /\ In(k, "umask") /\ KidInv(k) /\ TypeOK
  BY DEF Umask, In, LaunchInv
<1>2. cred[k] \in CredType /\ fds[k] = FdsAt("umask")
  BY <1>1 DEF TypeOK, In, KidInv, Done
<1>3. CASE GoWith(k, "chdir", cred[k],
               fds[k])
  <2>1. fds[k] = FdsAt("chdir")
    BY <1>2 DEF FdsAt, StdTty, StdFinal
  <2>2. "chdir" \in Steps /\ cred[k] \in CredType
    BY <1>2, CredUpdate DEF Steps
  <2>3. KidInv(k) => Done("chdir", "run", cred[k],
                          fds[k], UidChange[k], privs)
    BY <1>1, <1>2, <2>1 DEF In, KidInv, Done, Late, CredType
  <2>4. QED
    BY <1>1, <1>3, <2>1, <2>2, <2>3, FdsAtType, GoFrom
<1>4. QED
  BY <1>3 DEF Umask

\* The chdir step keeps the invariant.
LEMMA ChdirInv ==
    ASSUME LaunchInv, NEW k \in Kids, Chdir(k)
    PROVE  LaunchInv'
<1>1. status[k] = "run" /\ In(k, "chdir") /\ KidInv(k) /\ TypeOK
  BY DEF Chdir, In, LaunchInv
<1>2. cred[k] \in CredType /\ fds[k] = FdsAt("chdir")
  BY <1>1 DEF TypeOK, In, KidInv, Done
<1>3. CASE GoWith(k, "render", cred[k],
               fds[k])
  <2>1. fds[k] = FdsAt("render")
    BY <1>2 DEF FdsAt, StdTty, StdFinal
  <2>2. "render" \in Steps /\ cred[k] \in CredType
    BY <1>2, CredUpdate DEF Steps
  <2>3. KidInv(k) => Done("render", "run", cred[k],
                          fds[k], UidChange[k], privs)
    BY <1>1, <1>2, <2>1 DEF In, KidInv, Done, Late, CredType
  <2>4. QED
    BY <1>1, <1>3, <2>1, <2>2, <2>3, FdsAtType, GoFrom
<1>4. CASE Fail(k)
  BY <1>4, FailInv
<1>5. QED
  BY <1>3, <1>4 DEF Chdir

\* The devnull step keeps the invariant.
LEMMA DevnullInv ==
    ASSUME LaunchInv, NEW k \in Kids, Devnull(k)
    PROVE  LaunchInv'
<1>1. status[k] = "run" /\ In(k, "devnull") /\ KidInv(k) /\ TypeOK
  BY DEF Devnull, In, LaunchInv
<1>2. cred[k] \in CredType /\ fds[k] = FdsAt("devnull")
  BY <1>1 DEF TypeOK, In, KidInv, Done
<1>3. CASE GoWith(k, "pipe", cred[k],
               [fds[k] EXCEPT !.open = @ \cup {"null"}])
  <2>1. [fds[k] EXCEPT !.open = @ \cup {"null"}] = FdsAt("pipe")
    BY <1>2 DEF FdsAt, StdTty, StdFinal
  <2>2. "pipe" \in Steps /\ cred[k] \in CredType
    BY <1>2, CredUpdate DEF Steps
  <2>3. KidInv(k) => Done("pipe", "run", cred[k],
                          [fds[k] EXCEPT !.open = @ \cup {"null"}], UidChange[k], privs)
    BY <1>1, <1>2, <2>1 DEF In, KidInv, Done, Late, CredType
  <2>4. QED
    BY <1>1, <1>3, <2>1, <2>2, <2>3, FdsAtType, GoFrom
<1>4. CASE Fail(k)
  BY <1>4, FailInv
<1>5. QED
  BY <1>3, <1>4 DEF Devnull

\* The pipe step keeps the invariant.
LEMMA PipeInv ==
    ASSUME LaunchInv, NEW k \in Kids, Pipe(k)
    PROVE  LaunchInv'
<1>1. status[k] = "run" /\ In(k, "pipe") /\ KidInv(k) /\ TypeOK
  BY DEF Pipe, In, LaunchInv
<1>2. cred[k] \in CredType /\ fds[k] = FdsAt("pipe")
  BY <1>1 DEF TypeOK, In, KidInv, Done
<1>3. CASE payload[k] <= PipeSize - Headroom /\ GoWith(k, "stdin", cred[k],
               [fds[k] EXCEPT !.open = @ \cup {"pipe_r", "pipe_w"}])
  <2>1. [fds[k] EXCEPT !.open = @ \cup {"pipe_r", "pipe_w"}] = FdsAt("stdin")
    BY <1>2 DEF FdsAt, StdTty, StdFinal
  <2>2. "stdin" \in Steps /\ cred[k] \in CredType
    BY <1>2, CredUpdate DEF Steps
  <2>3. KidInv(k) => Done("stdin", "run", cred[k],
                          [fds[k] EXCEPT !.open = @ \cup {"pipe_r", "pipe_w"}], UidChange[k], privs)
    BY <1>1, <1>2, <2>1, <1>3 DEF In, KidInv, Done, Late, CredType
  <2>4. QED
    BY <1>1, <1>3, <2>1, <2>2, <2>3, FdsAtType, GoFrom
<1>4. CASE Fail(k)
  BY <1>4, FailInv
<1>5. QED
  BY <1>3, <1>4 DEF Pipe

\* The stdin step keeps the invariant.
LEMMA StdinInv ==
    ASSUME LaunchInv, NEW k \in Kids, Stdin(k)
    PROVE  LaunchInv'
<1>1. status[k] = "run" /\ In(k, "stdin") /\ KidInv(k) /\ TypeOK
  BY DEF Stdin, In, LaunchInv
<1>2. cred[k] \in CredType /\ fds[k] = FdsAt("stdin")
  BY <1>1 DEF TypeOK, In, KidInv, Done
<1>3. CASE GoWith(k, "stdout", cred[k],
               [open |-> fds[k].open \ {"pipe_r"},
                 std |-> [fds[k].std EXCEPT ![0] = "pipe_r"]])
  <2>1. [open |-> fds[k].open \ {"pipe_r"},
                   std |-> [fds[k].std EXCEPT ![0] = "pipe_r"]] = FdsAt("stdout")
    BY <1>2 DEF FdsAt, StdTty, StdFinal
  <2>2. "stdout" \in Steps /\ cred[k] \in CredType
    BY <1>2, CredUpdate DEF Steps
  <2>3. KidInv(k) => Done("stdout", "run", cred[k],
                          [open |-> fds[k].open \ {"pipe_r"},
                   std |-> [fds[k].std EXCEPT ![0] = "pipe_r"]], UidChange[k], privs)
    BY <1>1, <1>2, <2>1 DEF In, KidInv, Done, Late, CredType
  <2>4. QED
    BY <1>1, <1>3, <2>1, <2>2, <2>3, FdsAtType, GoFrom
<1>4. CASE Fail(k)
  BY <1>4, FailInv
<1>5. QED
  BY <1>3, <1>4 DEF Stdin

\* The stdout step keeps the invariant.
LEMMA StdoutInv ==
    ASSUME LaunchInv, NEW k \in Kids, Stdout(k)
    PROVE  LaunchInv'
<1>1. status[k] = "run" /\ In(k, "stdout") /\ KidInv(k) /\ TypeOK
  BY DEF Stdout, In, LaunchInv
<1>2. cred[k] \in CredType /\ fds[k] = FdsAt("stdout")
  BY <1>1 DEF TypeOK, In, KidInv, Done
<1>3. CASE GoWith(k, "stderr", cred[k],
               [fds[k] EXCEPT !.std[1] = "null"])
  <2>1. [fds[k] EXCEPT !.std[1] = "null"] = FdsAt("stderr")
    <3>1. fds[k].open = {"inherited", "null", "pipe_w"}
          /\ fds[k].std = [StdTty EXCEPT ![0] = "pipe_r"]
      BY <1>2 DEF FdsAt
    <3>2. [fds[k].std EXCEPT ![1] = "null"]
          = [StdTty EXCEPT ![0] = "pipe_r", ![1] = "null"]
      BY <3>1 DEF StdTty
    <3>3. fds[k] \in FdsType
      BY <1>1 DEF TypeOK
    <3>4. [fds[k] EXCEPT !.std[1] = "null"]
          = [open |-> fds[k].open, std |-> [fds[k].std EXCEPT ![1] = "null"]]
      BY <3>3 DEF FdsType
    <3>5. QED
      BY <3>1, <3>2, <3>4 DEF FdsAt
  <2>2. "stderr" \in Steps /\ cred[k] \in CredType
    BY <1>2, CredUpdate DEF Steps
  <2>3. KidInv(k) => Done("stderr", "run", cred[k],
                          [fds[k] EXCEPT !.std[1] = "null"], UidChange[k], privs)
    BY <1>1, <1>2, <2>1 DEF In, KidInv, Done, Late, CredType
  <2>4. QED
    BY <1>1, <1>3, <2>1, <2>2, <2>3, FdsAtType, GoFrom
<1>4. CASE Fail(k)
  BY <1>4, FailInv
<1>5. QED
  BY <1>3, <1>4 DEF Stdout

\* The stderr step keeps the invariant.
LEMMA StderrInv ==
    ASSUME LaunchInv, NEW k \in Kids, Stderr(k)
    PROVE  LaunchInv'
<1>1. status[k] = "run" /\ In(k, "stderr") /\ KidInv(k) /\ TypeOK
  BY DEF Stderr, In, LaunchInv
<1>2. cred[k] \in CredType /\ fds[k] = FdsAt("stderr")
  BY <1>1 DEF TypeOK, In, KidInv, Done
<1>3. CASE GoWith(k, "write", cred[k],
               [open |-> fds[k].open \ {"null"},
                 std |-> [fds[k].std EXCEPT ![2] = "null"]])
  <2>1. [open |-> fds[k].open \ {"null"},
                   std |-> [fds[k].std EXCEPT ![2] = "null"]] = FdsAt("write")
    BY <1>2 DEF FdsAt, StdTty, StdFinal
  <2>2. "write" \in Steps /\ cred[k] \in CredType
    BY <1>2, CredUpdate DEF Steps
  <2>3. KidInv(k) => Done("write", "run", cred[k],
                          [open |-> fds[k].open \ {"null"},
                   std |-> [fds[k].std EXCEPT ![2] = "null"]], UidChange[k], privs)
    BY <1>1, <1>2, <2>1 DEF In, KidInv, Done, Late, CredType
  <2>4. QED
    BY <1>1, <1>3, <2>1, <2>2, <2>3, FdsAtType, GoFrom
<1>4. CASE Fail(k)
  BY <1>4, FailInv
<1>5. QED
  BY <1>3, <1>4 DEF Stderr

\* The write step keeps the invariant.
LEMMA WriteInv ==
    ASSUME LaunchInv, NEW k \in Kids, Write(k)
    PROVE  LaunchInv'
<1>1. status[k] = "run" /\ In(k, "write") /\ KidInv(k) /\ TypeOK
  BY DEF Write, In, LaunchInv
<1>2. cred[k] \in CredType /\ fds[k] = FdsAt("write")
  BY <1>1 DEF TypeOK, In, KidInv, Done
<1>3. CASE payload[k] <= PipeSize /\ GoWith(k, "rlimit", cred[k],
               [fds[k] EXCEPT !.open = @ \ {"pipe_w"}])
  <2>1. [fds[k] EXCEPT !.open = @ \ {"pipe_w"}] = FdsAt("rlimit")
    BY <1>2 DEF FdsAt, StdTty, StdFinal
  <2>2. "rlimit" \in Steps /\ cred[k] \in CredType
    BY <1>2, CredUpdate DEF Steps
  <2>3. KidInv(k) => Done("rlimit", "run", cred[k],
                          [fds[k] EXCEPT !.open = @ \ {"pipe_w"}], UidChange[k], privs)
    BY <1>1, <1>2, <2>1, <1>3 DEF In, KidInv, Done, Late, CredType
  <2>4. QED
    BY <1>1, <1>3, <2>1, <2>2, <2>3, FdsAtType, GoFrom
<1>4. CASE payload[k] > PipeSize /\ status' = [status EXCEPT ![k] = "blocked"]
            /\ UNCHANGED <<privs, at, code, exit, failedAt, cred, fds, payload>>
  <2>1. TypeOK' /\ Frame(k) /\ KidInv(k)'
    BY <1>1, <1>4 DEF Frame, TypeOK, KidInv, Done
  <2>2. QED
    BY <2>1, FrameInv
<1>5. QED
  BY <1>3, <1>4 DEF Write

\* The rlimit step keeps the invariant.
LEMMA RlimitInv ==
    ASSUME LaunchInv, NEW k \in Kids, Rlimit(k)
    PROVE  LaunchInv'
<1>1. status[k] = "run" /\ In(k, "rlimit") /\ KidInv(k) /\ TypeOK
  BY DEF Rlimit, In, LaunchInv
<1>2. cred[k] \in CredType /\ fds[k] = FdsAt("rlimit")
  BY <1>1 DEF TypeOK, In, KidInv, Done
<1>3. CASE GoWith(k, "closerange", cred[k],
               fds[k])
  <2>1. fds[k] = FdsAt("closerange")
    BY <1>2 DEF FdsAt, StdTty, StdFinal
  <2>2. "closerange" \in Steps /\ cred[k] \in CredType
    BY <1>2, CredUpdate DEF Steps
  <2>3. KidInv(k) => Done("closerange", "run", cred[k],
                          fds[k], UidChange[k], privs)
    BY <1>1, <1>2, <2>1 DEF In, KidInv, Done, Late, CredType
  <2>4. QED
    BY <1>1, <1>3, <2>1, <2>2, <2>3, FdsAtType, GoFrom
<1>4. QED
  BY <1>3 DEF Rlimit

\* The closerange step keeps the invariant.
LEMMA CloserangeInv ==
    ASSUME LaunchInv, NEW k \in Kids, Closerange(k)
    PROVE  LaunchInv'
<1>1. status[k] = "run" /\ In(k, "closerange") /\ KidInv(k) /\ TypeOK
  BY DEF Closerange, In, LaunchInv
<1>2. cred[k] \in CredType /\ fds[k] = FdsAt("closerange")
  BY <1>1 DEF TypeOK, In, KidInv, Done
<1>3. CASE GoWith(k, "exec", cred[k],
               [fds[k] EXCEPT !.open = {}])
  <2>1. [fds[k] EXCEPT !.open = {}] = FdsAt("exec")
    BY <1>2 DEF FdsAt, StdTty, StdFinal
  <2>2. "exec" \in Steps /\ cred[k] \in CredType
    BY <1>2, CredUpdate DEF Steps
  <2>3. KidInv(k) => Done("exec", "run", cred[k],
                          [fds[k] EXCEPT !.open = {}], UidChange[k], privs)
    BY <1>1, <1>2, <2>1 DEF In, KidInv, Done, Late, CredType
  <2>4. QED
    BY <1>1, <1>3, <2>1, <2>2, <2>3, FdsAtType, GoFrom
<1>4. QED
  BY <1>3 DEF Closerange

\* Render: the payload size is chosen, credentials and descriptors stay.
LEMMA RenderInv ==
    ASSUME LaunchInv, NEW k \in Kids, Render(k)
    PROVE  LaunchInv'
<1>1. In(k, "render") /\ KidInv(k) /\ TypeOK
  BY DEF Render, LaunchInv
<1>2. CASE Go(k, "devnull")
           /\ (\E n \in Payloads : payload' = [payload EXCEPT ![k] = n])
           /\ UNCHANGED <<cred, fds>>
  <2>1. TypeOK' /\ Frame(k)
    BY <1>1, <1>2 DEF Go, Frame, TypeOK, Steps
  <2>2. at'[k] = "devnull" /\ status'[k] = "run" /\ cred' = cred /\ fds' = fds
        /\ privs' = privs
    BY <1>1, <1>2 DEF Go, In, TypeOK
  <2>3. KidInv(k)'
    BY <1>1, <2>2 DEF In, KidInv, Done, FdsAt, Late, StdTty
  <2>4. QED
    BY <2>1, <2>3, FrameInv
<1>3. CASE Fail(k)
  BY <1>3, FailInv
<1>4. QED
  BY <1>2, <1>3 DEF Render

\* Exec: the child becomes the endpoint.
LEMMA ExecInv ==
    ASSUME LaunchInv, NEW k \in Kids, Exec(k)
    PROVE  LaunchInv'
<1>1. In(k, "exec") /\ KidInv(k) /\ TypeOK
  BY DEF Exec, LaunchInv
<1>2. CASE status' = [status EXCEPT ![k] = "exec"]
           /\ UNCHANGED <<privs, at, code, exit, failedAt, cred, fds, payload>>
  <2>1. TypeOK' /\ Frame(k) /\ KidInv(k)'
    BY <1>1, <1>2 DEF In, Frame, TypeOK, KidInv, Done
  <2>2. QED
    BY <2>1, FrameInv
<1>3. CASE Fail(k)
  BY <1>3, FailInv
<1>4. QED
  BY <1>2, <1>3 DEF Exec

\* One step of any child, or the final stutter, keeps the invariant.
LEMMA LaunchStep == LaunchInv /\ [Next]_vars => LaunchInv'
<1> SUFFICES ASSUME LaunchInv, [Next]_vars PROVE LaunchInv'
  OBVIOUS
<1>1. CASE UNCHANGED vars \/ Finished
  BY <1>1 DEF Finished, vars, LaunchInv, TypeOK, KidInv, Done
<1>2. ASSUME NEW k \in Kids, Step(k) PROVE LaunchInv'
  BY <1>2, BootstrapInv, InitgroupsInv, SetresgidInv, SetresuidInv,
     SandboxInv, UmaskInv, ChdirInv, RenderInv, DevnullInv, PipeInv,
     StdinInv, StdoutInv, StderrInv, WriteInv, RlimitInv, CloserangeInv,
     ExecInv DEF Step
<1>3. QED
  BY <1>1, <1>2 DEF Next

\* The forked child's state keeps its types whatever step raises.
THEOREM LaunchTypeCorrect == Spec => []TypeOK
<1>1. LaunchInv => TypeOK
  BY DEF LaunchInv
<1>2. QED
  BY InitLaunch, LaunchStep, <1>1, PTL DEF Spec

\* cmd_start_endpoint's child execs the user endpoint only after it took
\* on the target uid and gid (when they differ from the manager's),
\* dropped capabilities, set no-new-privs, called setsid, put the payload
\* pipe on stdin and /dev/null on stdout and stderr, and closed every other
\* descriptor -- for every set of children and every privilege outcome.
THEOREM ExecPrivilegesDroppedInvariant == Spec => []ExecPrivilegesDropped
<1>1. LaunchInv => ExecPrivilegesDropped
  <2> SUFFICES ASSUME LaunchInv, NEW k \in Kids, status[k] = "exec"
               PROVE  /\ UidChange[k] =>
                             cred[k].uid = "target" /\ cred[k].gid = "target"
                      /\ ~cred[k].caps /\ cred[k].nnp /\ cred[k].sid = "own"
                      /\ fds[k].open = {}
                      /\ fds[k].std = [i \in 0..2 |-> IF i = 0 THEN "pipe_r" ELSE "null"]
    BY DEF ExecPrivilegesDropped
  <2>1. at[k] = "exec" /\ fds[k] = FdsAt("exec")
        /\ (UidChange[k] => cred[k].uid = "target" /\ cred[k].gid = "target")
        /\ ~cred[k].caps /\ cred[k].nnp /\ cred[k].sid = "own"
    BY DEF LaunchInv, KidInv, Done, Late
  <2>2. QED
    BY <2>1 DEF FdsAt, StdFinal
<1>2. QED
  BY InitLaunch, LaunchStep, <1>1, PTL DEF Spec

\* The steps after the pipe-size check.
AfterPipe == {"stdin", "stdout", "stderr", "write", "rlimit", "closerange", "exec"}

\* Past the check, the payload leaves the headroom free in the pipe buffer.
PayloadFits ==
    \A k \in Kids :
        /\ status[k] # "blocked"
        /\ at[k] \in AfterPipe => payload[k] <= PipeSize - Headroom

LEMMA PipeInit == Init => PayloadFits
BY DEF Init, PayloadFits, AfterPipe

\* A step of child k keeps the pipe facts of every child.
LEMMA PipeStep == TypeOK /\ PayloadFits /\ [Next]_vars => PayloadFits'
<1> SUFFICES ASSUME TypeOK, PayloadFits, [Next]_vars PROVE PayloadFits'
  OBVIOUS
<1>1. CASE UNCHANGED vars \/ Finished
  BY <1>1 DEF Finished, vars, PayloadFits
<1>2. ASSUME NEW k \in Kids, Bootstrap(k) PROVE PayloadFits'
  BY <1>2 DEF Bootstrap, In, Fail, GoWith, Go, PayloadFits, AfterPipe, TypeOK, Headroom
<1>3. ASSUME NEW k \in Kids, Initgroups(k) PROVE PayloadFits'
  BY <1>3 DEF Initgroups, In, Fail, GoWith, Go, PayloadFits, AfterPipe, TypeOK, Headroom
<1>4. ASSUME NEW k \in Kids, Setresgid(k) PROVE PayloadFits'
  BY <1>4 DEF Setresgid, In, Fail, GoWith, Go, PayloadFits, AfterPipe, TypeOK, Headroom
<1>5. ASSUME NEW k \in Kids, Setresuid(k) PROVE PayloadFits'
  BY <1>5 DEF Setresuid, In, Fail, GoWith, Go, PayloadFits, AfterPipe, TypeOK, Headroom
<1>6. ASSUME NEW k \in Kids, Sandbox(k) PROVE PayloadFits'
  BY <1>6 DEF Sandbox, In, Fail, GoWith, Go, PayloadFits, AfterPipe, TypeOK, Headroom
<1>7. ASSUME NEW k \in Kids, Umask(k) PROVE PayloadFits'
  BY <1>7 DEF Umask, In, Fail, GoWith, Go, PayloadFits, AfterPipe, TypeOK, Headroom
<1>8. ASSUME NEW k \in Kids, Chdir(k) PROVE PayloadFits'
  BY <1>8 DEF Chdir, In, Fail, GoWith, Go, PayloadFits, AfterPipe, TypeOK, Headroom
<1>9. ASSUME NEW k \in Kids, Render(k) PROVE PayloadFits'
  BY <1>9 DEF Render, In, Fail, GoWith, Go, PayloadFits, AfterPipe, TypeOK, Headroom
<1>10. ASSUME NEW k \in Kids, Devnull(k) PROVE PayloadFits'
  BY <1>10 DEF Devnull, In, Fail, GoWith, Go, PayloadFits, AfterPipe, TypeOK, Headroom
<1>11. ASSUME NEW k \in Kids, Pipe(k) PROVE PayloadFits'
  BY <1>11 DEF Pipe, In, Fail, GoWith, Go, PayloadFits, AfterPipe, TypeOK, Headroom
<1>12. ASSUME NEW k \in Kids, Stdin(k) PROVE PayloadFits'
  BY <1>12 DEF Stdin, In, Fail, GoWith, Go, PayloadFits, AfterPipe, TypeOK, Headroom
<1>13. ASSUME NEW k \in Kids, Stdout(k) PROVE PayloadFits'
  BY <1>13 DEF Stdout, In, Fail, GoWith, Go, PayloadFits, AfterPipe, TypeOK, Headroom
<1>14. ASSUME NEW k \in Kids, Stderr(k) PROVE PayloadFits'
  BY <1>14 DEF Stderr, In, Fail, GoWith, Go, PayloadFits, AfterPipe, TypeOK, Headroom
<1>15. ASSUME NEW k \in Kids, Write(k) PROVE PayloadFits'
  BY <1>15 DEF Write, In, Fail, GoWith, Go, PayloadFits, AfterPipe, TypeOK, Headroom
<1>16. ASSUME NEW k \in Kids, Rlimit(k) PROVE PayloadFits'
  BY <1>16 DEF Rlimit, In, Fail, GoWith, Go, PayloadFits, AfterPipe, TypeOK, Headroom
<1>17. ASSUME NEW k \in Kids, Closerange(k) PROVE PayloadFits'
  BY <1>17 DEF Closerange, In, Fail, GoWith, Go, PayloadFits, AfterPipe, TypeOK, Headroom
<1>18. ASSUME NEW k \in Kids, Exec(k) PROVE PayloadFits'
  BY <1>18 DEF Exec, In, Fail, GoWith, Go, PayloadFits, AfterPipe, TypeOK, Headroom
<1>19. QED
  BY <1>1, <1>2, <1>3, <1>4, <1>5, <1>6, <1>7, <1>8, <1>9, <1>10, <1>11, <1>12, <1>13, <1>14, <1>15, <1>16, <1>17, <1>18 DEF Next, Step

\* The pipe-size check of cmd_start_endpoint (ValueError when stdin_data
\* would not fit below the pipe buffer size less 256 bytes) means that no
\* child ever blocks writing its own stdin, for every buffer size and every
\* payload.
THEOREM NoStdinDeadlockInvariant == Spec => []NoStdinDeadlock
<1>1. LaunchInv /\ PayloadFits => NoStdinDeadlock
  BY DEF PayloadFits, NoStdinDeadlock
<1>2. Init => LaunchInv /\ PayloadFits
  BY InitLaunch, PipeInit
<1>3. LaunchInv /\ PayloadFits /\ [Next]_vars => LaunchInv' /\ PayloadFits'
  BY LaunchStep, PipeStep DEF LaunchInv
<1>4. QED
  BY <1>1, <1>2, <1>3, PTL DEF Spec


-----------------------------------------------------------------------------
(***************************************************************************)
(* FailureCodeIsBreadcrumb.  Each completed step adds one to exit_code,   *)
(* so a running child's code is the breadcrumb of the step it is in, and  *)
(* a failing step exits with that code and records the step.  CodesOK     *)
(* states both; Breadcrumb is a CHOOSE over the path's indices, so its    *)
(* values are computed once from the paths having distinct entries.       *)
(***************************************************************************)

\* The breadcrumb of the i-th step of a path of distinct steps.
LEMMA BreadcrumbIndex ==
    ASSUME NEW path \in Seq(Steps), NEW i \in 1..Len(path),
           \A j \in 1..Len(path) : path[j] = path[i] => j = i
    PROVE  Breadcrumb(path, path[i]) = FirstCode + i - 1
<1>1. (CHOOSE j \in 1..Len(path) : path[j] = path[i]) = i
  OBVIOUS
<1>2. QED
  BY <1>1 DEF Breadcrumb

\* Both paths list distinct steps.
LEMMA PathsDistinct ==
    /\ UidPath \in Seq(Steps) /\ Len(UidPath) = 17
    /\ \A i, j \in 1..17 : UidPath[i] = UidPath[j] => i = j
    /\ SameUidPath \in Seq(Steps) /\ Len(SameUidPath) = 14
    /\ \A i, j \in 1..14 : SameUidPath[i] = SameUidPath[j] => i = j
BY DEF UidPath, SameUidPath, Steps

\* The breadcrumb codes of the two paths.
LEMMA BreadcrumbTable ==
    /\ Breadcrumb(UidPath, "bootstrap") = 70
    /\ Breadcrumb(UidPath, "initgroups") = 71
    /\ Breadcrumb(UidPath, "setresgid") = 72
    /\ Breadcrumb(UidPath, "setresuid") = 73
    /\ Breadcrumb(UidPath, "sandbox") = 74
    /\ Breadcrumb(UidPath, "umask") = 75
    /\ Breadcrumb(UidPath, "chdir") = 76
    /\ Breadcrumb(UidPath, "render") = 77
    /\ Breadcrumb(UidPath, "devnull") = 78
    /\ Breadcrumb(UidPath, "pipe") = 79
    /\ Breadcrumb(UidPath, "stdin") = 80
    /\ Breadcrumb(UidPath, "stdout") = 81
    /\ Breadcrumb(UidPath, "stderr") = 82
    /\ Breadcrumb(UidPath, "write") = 83
    /\ Breadcrumb(UidPath, "rlimit") = 84
    /\ Breadcrumb(UidPath, "closerange") = 85
    /\ Breadcrumb(UidPath, "exec") = 86
    /\ Breadcrumb(SameUidPath, "bootstrap") = 70
    /\ Breadcrumb(SameUidPath, "sandbox") = 71
    /\ Breadcrumb(SameUidPath, "umask") = 72
    /\ Breadcrumb(SameUidPath, "chdir") = 73
    /\ Breadcrumb(SameUidPath, "render") = 74
    /\ Breadcrumb(SameUidPath, "devnull") = 75
    /\ Breadcrumb(SameUidPath, "pipe") = 76
    /\ Breadcrumb(SameUidPath, "stdin") = 77
    /\ Breadcrumb(SameUidPath, "stdout") = 78
    /\ Breadcrumb(SameUidPath, "stderr") = 79
    /\ Breadcrumb(SameUidPath, "write") = 80
    /\ Breadcrumb(SameUidPath, "rlimit") = 81
    /\ Breadcrumb(SameUidPath, "closerange") = 82
    /\ Breadcrumb(SameUidPath, "exec") = 83
<1>1. \A i \in 1..17 : Breadcrumb(UidPath, UidPath[i]) = FirstCode + i - 1
  BY PathsDistinct, BreadcrumbIndex
<1>2. \A i \in 1..14 : Breadcrumb(SameUidPath, SameUidPath[i]) = FirstCode + i - 1
  BY PathsDistinct, BreadcrumbIndex
<1>3. UidPath[1] = "bootstrap" /\ UidPath[2] = "initgroups" /\ UidPath[3] = "setresgid" /\ UidPath[4] = "setresuid" /\ UidPath[5] = "sandbox" /\ UidPath[6] = "umask" /\ UidPath[7] = "chdir" /\ UidPath[8] = "render" /\ UidPath[9] = "devnull" /\ UidPath[10] = "pipe" /\ UidPath[11] = "stdin" /\ UidPath[12] = "stdout" /\ UidPath[13] = "stderr" /\ UidPath[14] = "write" /\ UidPath[15] = "rlimit" /\ UidPath[16] = "closerange" /\ UidPath[17] = "exec"
  BY DEF UidPath
<1>4. SameUidPath[1] = "bootstrap" /\ SameUidPath[2] = "sandbox" /\ SameUidPath[3] = "umask" /\ SameUidPath[4] = "chdir" /\ SameUidPath[5] = "render" /\ SameUidPath[6] = "devnull" /\ SameUidPath[7] = "pipe" /\ SameUidPath[8] = "stdin" /\ SameUidPath[9] = "stdout" /\ SameUidPath[10] = "stderr" /\ SameUidPath[11] = "write" /\ SameUidPath[12] = "rlimit" /\ SameUidPath[13] = "closerange" /\ SameUidPath[14] = "exec"
  BY DEF SameUidPath
<1>5. QED
  BY <1>1, <1>2, <1>3, <1>4 DEF FirstCode

CodeOK(k) ==
    /\ code[k] = Breadcrumb(Path(k), at[k])
    /\ status[k] = "exited" => exit[k] = code[k] /\ failedAt[k] = at[k]

CodesOK == \A k \in Kids : CodeOK(k)

LEMMA CodeInit == Init => CodesOK
<1> SUFFICES ASSUME Init, NEW k \in Kids PROVE CodeOK(k)
  BY DEF CodesOK
<1>1. Breadcrumb(Path(k), "bootstrap") = FirstCode
  BY BreadcrumbTable DEF Path, FirstCode
<1>2. QED
  BY <1>1 DEF Init, CodeOK

\* A completed step of child k into step t whose breadcrumb is one more.
LEMMA CodeGo ==
    ASSUME TypeOK, CodesOK, NEW k \in Kids, NEW t, status[k] = "run", Go(k, t),
           Breadcrumb(Path(k), t) = Breadcrumb(Path(k), at[k]) + 1
    PROVE  CodesOK'
<1> SUFFICES ASSUME NEW j \in Kids PROVE CodeOK(j)'
  BY DEF CodesOK
<1>1. CodeOK(j)
  BY DEF CodesOK
<1>2. CASE j = k
  BY <1>1, <1>2 DEF Go, CodeOK, TypeOK
<1>3. CASE j # k
  BY <1>1, <1>3 DEF Go, CodeOK, TypeOK
<1>4. QED
  BY <1>2, <1>3

\* A failing step exits with the child's code and records its step.
LEMMA CodeFail ==
    ASSUME TypeOK, CodesOK, NEW k \in Kids, Fail(k)
    PROVE  CodesOK'
<1> SUFFICES ASSUME NEW j \in Kids PROVE CodeOK(j)'
  BY DEF CodesOK
<1>1. CodeOK(j)
  BY DEF CodesOK
<1>2. QED
  BY <1>1 DEF Fail, CodeOK, TypeOK

\* exec and a blocked write end the child without an exit code.
LEMMA CodeHalt ==
    ASSUME TypeOK, CodesOK, NEW k \in Kids, NEW st \in {"exec", "blocked"},
           status' = [status EXCEPT ![k] = st],
           UNCHANGED <<at, code, exit, failedAt>>
    PROVE  CodesOK'
<1> SUFFICES ASSUME NEW j \in Kids PROVE CodeOK(j)'
  BY DEF CodesOK
<1>1. CodeOK(j)
  BY DEF CodesOK
<1>2. QED
  BY <1>1 DEF CodeOK, TypeOK
\* Every step of every child keeps the codes.
LEMMA CodeStep == LaunchInv /\ CodesOK /\ [Next]_vars => CodesOK'
<1> SUFFICES ASSUME LaunchInv, CodesOK, [Next]_vars PROVE CodesOK'
  OBVIOUS
<1>0. TypeOK
  BY DEF LaunchInv
<1>1. CASE UNCHANGED vars \/ Finished
  BY <1>1 DEF Finished, vars, CodesOK, CodeOK
<1>2. ASSUME NEW k \in Kids, Bootstrap(k) PROVE CodesOK'
  <2>1. status[k] = "run" /\ at[k] = "bootstrap"
    BY <1>2 DEF Bootstrap, In
  <2>2. Breadcrumb(Path(k), IF UidChange[k] THEN "initgroups" ELSE "sandbox") = Breadcrumb(Path(k), at[k]) + 1
    BY <2>1, BreadcrumbTable DEF Path
  <2>3. QED
    BY <1>2, <1>0, <2>1, <2>2, CodeGo, CodeFail DEF Bootstrap, GoWith
<1>3. ASSUME NEW k \in Kids, Initgroups(k) PROVE CodesOK'
  <2>1. status[k] = "run" /\ at[k] = "initgroups"
    BY <1>3 DEF Initgroups, In
  <2>0. UidChange[k]
    BY <2>1 DEF LaunchInv, KidInv, Done
  <2>2. Breadcrumb(Path(k), "setresgid") = Breadcrumb(Path(k), at[k]) + 1
    BY <2>1, <2>0, BreadcrumbTable DEF Path
  <2>3. QED
    BY <1>3, <1>0, <2>1, <2>2, CodeGo, CodeFail DEF Initgroups, GoWith
<1>4. ASSUME NEW k \in Kids, Setresgid(k) PROVE CodesOK'
  <2>1. status[k] = "run" /\ at[k] = "setresgid"
    BY <1>4 DEF Setresgid, In
  <2>0. UidChange[k]
    BY <2>1 DEF LaunchInv, KidInv, Done
  <2>2. Breadcrumb(Path(k), "setresuid") = Breadcrumb(Path(k), at[k]) + 1
    BY <2>1, <2>0, BreadcrumbTable DEF Path
  <2>3. QED
    BY <1>4, <1>0, <2>1, <2>2, CodeGo, CodeFail DEF Setresgid, GoWith
<1>5. ASSUME NEW k \in Kids, Setresuid(k) PROVE CodesOK'
  <2>1. status[k] = "run" /\ at[k] = "setresuid"
    BY <1>5 DEF Setresuid, In
  <2>0. UidChange[k]
    BY <2>1 DEF LaunchInv, KidInv, Done
  <2>2. Breadcrumb(Path(k), "sandbox") = Breadcrumb(Path(k), at[k]) + 1
    BY <2>1, <2>0, BreadcrumbTable DEF Path
  <2>3. QED
    BY <1>5, <1>0, <2>1, <2>2, CodeGo, CodeFail DEF Setresuid, GoWith
<1>6. ASSUME NEW k \in Kids, Sandbox(k) PROVE CodesOK'
  <2>1. status[k] = "run" /\ at[k] = "sandbox"
    BY <1>6 DEF Sandbox, In
  <2>2. Breadcrumb(Path(k), "umask") = Breadcrumb(Path(k), at[k]) + 1
    BY <2>1, BreadcrumbTable DEF Path
  <2>3. QED
    BY <1>6, <1>0, <2>1, <2>2, CodeGo, CodeFail DEF Sandbox, GoWith
<1>7. ASSUME NEW k \in Kids, Umask(k) PROVE CodesOK'
  <2>1. status[k] = "run" /\ at[k] = "umask"
    BY <1>7 DEF Umask, In
  <2>2. Breadcrumb(Path(k), "chdir") = Breadcrumb(Path(k), at[k]) + 1
    BY <2>1, BreadcrumbTable DEF Path
  <2>3. QED
    BY <1>7, <1>0, <2>1, <2>2, CodeGo, CodeFail DEF Umask, GoWith
<1>8. ASSUME NEW k \in Kids, Chdir(k) PROVE CodesOK'
  <2>1. status[k] = "run" /\ at[k] = "chdir"
    BY <1>8 DEF Chdir, In
  <2>2. Breadcrumb(Path(k), "render") = Breadcrumb(Path(k), at[k]) + 1
    BY <2>1, BreadcrumbTable DEF Path
  <2>3. QED
    BY <1>8, <1>0, <2>1, <2>2, CodeGo, CodeFail DEF Chdir, GoWith
<1>9. ASSUME NEW k \in Kids, Render(k) PROVE CodesOK'
  <2>1. status[k] = "run" /\ at[k] = "render"
    BY <1>9 DEF Render, In
  <2>2. Breadcrumb(Path(k), "devnull") = Breadcrumb(Path(k), at[k]) + 1
    BY <2>1, BreadcrumbTable DEF Path
  <2>3. QED
    BY <1>9, <1>0, <2>1, <2>2, CodeGo, CodeFail DEF Render, GoWith
<1>10. ASSUME NEW k \in Kids, Devnull(k) PROVE CodesOK'
  <2>1. status[k] = "run" /\ at[k] = "devnull"
    BY <1>10 DEF Devnull, In
  <2>2. Breadcrumb(Path(k), "pipe") = Breadcrumb(Path(k), at[k]) + 1
    BY <2>1, BreadcrumbTable DEF Path
  <2>3. QED
    BY <1>10, <1>0, <2>1, <2>2, CodeGo, CodeFail DEF Devnull, GoWith
<1>11. ASSUME NEW k \in Kids, Pipe(k) PROVE CodesOK'
  <2>1. status[k] = "run" /\ at[k] = "pipe"
    BY <1>11 DEF Pipe, In
  <2>2. Breadcrumb(Path(k), "stdin") = Breadcrumb(Path(k), at[k]) + 1
    BY <2>1, BreadcrumbTable DEF Path
  <2>3. QED
    BY <1>11, <1>0, <2>1, <2>2, CodeGo, CodeFail DEF Pipe, GoWith
<1>12. ASSUME NEW k \in Kids, Stdin(k) PROVE CodesOK'
  <2>1. status[k] = "run" /\ at[k] = "stdin"
    BY <1>12 DEF Stdin, In
  <2>2. Breadcrumb(Path(k), "stdout") = Breadcrumb(Path(k), at[k]) + 1
    BY <2>1, BreadcrumbTable DEF Path
  <2>3. QED
    BY <1>12, <1>0, <2>1, <2>2, CodeGo, CodeFail DEF Stdin, GoWith
<1>13. ASSUME NEW k \in Kids, Stdout(k) PROVE CodesOK'
  <2>1. status[k] = "run" /\ at[k] = "stdout"
    BY <1>13 DEF Stdout, In
  <2>2. Breadcrumb(Path(k), "stderr") = Breadcrumb(Path(k), at[k]) + 1
    BY <2>1, BreadcrumbTable DEF Path
  <2>3. QED
    BY <1>13, <1>0, <2>1, <2>2, CodeGo, CodeFail DEF Stdout, GoWith
<1>14. ASSUME NEW k \in Kids, Stderr(k) PROVE CodesOK'
  <2>1. status[k] = "run" /\ at[k] = "stderr"
    BY <1>14 DEF Stderr, In
  <2>2. Breadcrumb(Path(k), "write") = Breadcrumb(Path(k), at[k]) + 1
    BY <2>1, BreadcrumbTable DEF Path
  <2>3. QED
    BY <1>14, <1>0, <2>1, <2>2, CodeGo, CodeFail DEF Stderr, GoWith
<1>15. ASSUME NEW k \in Kids, Write(k) PROVE CodesOK'
  <2>1. status[k] = "run" /\ at[k] = "write"
    BY <1>15 DEF Write, In
  <2>2. Breadcrumb(Path(k), "rlimit") = Breadcrumb(Path(k), at[k]) + 1
    BY <2>1, BreadcrumbTable DEF Path
  <2>3. QED
    BY <1>15, <1>0, <2>1, <2>2, CodeGo, CodeHalt DEF Write, GoWith
<1>16. ASSUME NEW k \in Kids, Rlimit(k) PROVE CodesOK'
  <2>1. status[k] = "run" /\ at[k] = "rlimit"
    BY <1>16 DEF Rlimit, In
  <2>2. Breadcrumb(Path(k), "closerange") = Breadcrumb(Path(k), at[k]) + 1
    BY <2>1, BreadcrumbTable DEF Path
  <2>3. QED
    BY <1>16, <1>0, <2>1, <2>2, CodeGo, CodeFail DEF Rlimit, GoWith
<1>17. ASSUME NEW k \in Kids, Closerange(k) PROVE CodesOK'
  <2>1. status[k] = "run" /\ at[k] = "closerange"
    BY <1>17 DEF Closerange, In
  <2>2. Breadcrumb(Path(k), "exec") = Breadcrumb(Path(k), at[k]) + 1
    BY <2>1, BreadcrumbTable DEF Path
  <2>3. QED
    BY <1>17, <1>0, <2>1, <2>2, CodeGo, CodeFail DEF Closerange, GoWith
<1>18. ASSUME NEW k \in Kids, Exec(k) PROVE CodesOK'
  BY <1>18, <1>0, CodeHalt, CodeFail DEF Exec
<1>19. QED
  BY <1>1, <1>2, <1>3, <1>4, <1>5, <1>6, <1>7, <1>8, <1>9, <1>10, <1>11, <1>12, <1>13, <1>14, <1>15, <1>16, <1>17, <1>18 DEF Next, Step

\* The except/finally of cmd_start_endpoint's child branch: whichever step
\* raises, on either path and under any privileges, the child exits with
\* the breadcrumb of that step (70 plus the steps completed), never 0.
THEOREM FailureCodeIsBreadcrumbInvariant == Spec => []FailureCodeIsBreadcrumb
<1>1. Init => LaunchInv /\ CodesOK
  BY InitLaunch, CodeInit
<1>2. LaunchInv /\ CodesOK /\ [Next]_vars => LaunchInv' /\ CodesOK'
  BY LaunchStep, CodeStep
<1>3. CodesOK => FailureCodeIsBreadcrumb
  BY DEF CodesOK, CodeOK, FailureCodeIsBreadcrumb
<1>4. QED
  BY <1>1, <1>2, <1>3, PTL DEF Spec

=============================================================================
