-------------------------- MODULE DirectProbe_proofs --------------------------
(***************************************************************************)
(* Proofs about DirectProbe: what the resets, the memory accesses and the   *)
(* writes of the three direct drivers leave behind, for every set of        *)
(* requests, every size of the pieces and any number of faults.             *)
(***************************************************************************)
EXTENDS DirectProbe, SequenceTheorems, TLAPS

Names == {"version", "mode", "exit", "idcodes", "rw_status", "read", "write", "speed", "enter",
          "halt", "go", "step", "nrst", "wait", "demcr", "catch", "dhcsr", "aircr", "poll",
          "restore", "read_reg", "write_reg", "targets", "ask", "reset_run", "reset_halt",
          "jreset", "until_halted", "open", "close"}
Messages == [name : Names, bytes : Nat, checked : BOOLEAN]
Answers == [to : Names, bytes : Nat, ok : BOOLEAN, halted : BOOLEAN, reset : BOOLEAN,
            catch : BOOLEAN]
Cores == [halted : BOOLEAN, vector : BOOLEAN, catch : BOOLEAN, reset : BOOLEAN]

\* Commands that leave the reset catch alone, or clear it.
Calm == {c \in Messages : c.name \notin {"catch", "restore"}}

DataOK ==
  /\ rest \in Seq(Messages) /\ late \in Seq(Answers)
  /\ op = "none" => rest = <<>>

\* Only reset_and_halt turns the reset catch on, and leaves it on only when it
\* does not end properly.
CalmInv == op # "reset_and_halt" => rest \in Seq(Calm) /\ (core.catch => dirty)

LateInv == op # "none" /\ ~behind => late = <<>>

-----------------------------------------------------------------------------
(* The commands of the operations.                                         *)

LEMMA Sequences0 ==
  ASSUME NEW S
  PROVE  /\ \A s, t \in Seq(S) : s \o t \in Seq(S)
         /\ \A s \in Seq(S) : s # <<>> => Head(s) \in S /\ Tail(s) \in Seq(S)
         /\ <<>> \in Seq(S)
         /\ \A a \in S : <<a>> \in Seq(S)
         /\ \A a, b \in S : <<a, b>> \in Seq(S)
         /\ \A a, b, c \in S : <<a, b, c>> \in Seq(S)
         /\ \A a, b, c, d \in S : <<a, b, c, d>> \in Seq(S)
         /\ \A a, b, c, d, e, f, g, h \in S : <<a, b, c, d, e, f, g, h>> \in Seq(S)
  OBVIOUS

LEMMA CalmCommands ==
  /\ \A n \in Names \ {"catch", "restore"}, b \in Nat, k \in BOOLEAN : Command(n, b, k) \in Calm
  /\ \A n \in Names, b \in Nat, k \in BOOLEAN : Command(n, b, k) \in Messages
  BY DEF Command, Calm, Messages

LEMMA CalmKinds ==
  \A n \in Names \ {"catch", "restore"} :
    WriteDebugReg(n) \in Calm /\ ReadDebugReg(n) \in Calm /\ Status(n) \in Calm /\ Line(n) \in Calm
  BY CalmCommands DEF WriteDebugReg, ReadDebugReg, Status, Line

LEMMA AnyKinds ==
  \A n \in Names :
    WriteDebugReg(n) \in Messages /\ ReadDebugReg(n) \in Messages /\ Status(n) \in Messages
      /\ Line(n) \in Messages
  BY CalmCommands DEF WriteDebugReg, ReadDebugReg, Status, Line

LEMMA CalmOnes ==
  /\ Version \in Calm /\ CurrentMode \in Calm /\ ExitMode \in Calm /\ Idcodes \in Calm
  /\ RwStatus \in Calm /\ ReadPiece \in Calm /\ WritePiece \in Calm
  /\ Command("version", 12, FALSE) \in Calm
  /\ Command("speed", 52, TRUE) \in Calm /\ Command("speed", 8, TRUE) \in Calm
  /\ DriveNrst \in Calm
<1>1. Max32 \in Nat
  BY DirectProbeAssumption
<1> QED
  BY <1>1, CalmCommands DEF Version, CurrentMode, ExitMode, Idcodes, RwStatus, ReadPiece,
     WritePiece, DriveNrst, Names

LEMMA CalmEnter == EnterCmds \in Seq(Calm)
<1>1. Status("enter") \in Calm
  BY CalmKinds DEF Names
<1> QED
  BY <1>1, CalmOnes, Sequences0 DEF EnterCmds

LEMMA CalmOpen == \A cmds \in StOpens : cmds \in Seq(Calm)
<1>1. SpeedCmds \in Seq(Calm)
  <2>1. Status("speed") \in Calm
    BY CalmKinds DEF Names
  <2>2. /\ <<Command("speed", 52, TRUE), Command("speed", 8, TRUE)>> \in Seq(Calm)
        /\ <<Status("speed")>> \in Seq(Calm) /\ <<>> \in Seq(Calm)
    BY <2>1, CalmOnes, Sequences0
  <2>3. CASE firmware = "v3"
    BY <2>2, <2>3 DEF SpeedCmds
  <2>4. CASE firmware = "v2"
    BY <2>2, <2>4 DEF SpeedCmds
  <2>5. CASE firmware \notin {"v2", "v3"}
    BY <2>2, <2>5 DEF SpeedCmds
  <2> QED
    BY <2>3, <2>4, <2>5
<1>2. (IF firmware = "v3" THEN <<Command("version", 12, FALSE)>> ELSE <<>>) \in Seq(Calm)
  <2>1. <<Command("version", 12, FALSE)>> \in Seq(Calm) /\ <<>> \in Seq(Calm)
    BY CalmOnes, Sequences0
  <2> QED
    BY <2>1
<1>3. <<Version>> \in Seq(Calm) /\ <<CurrentMode>> \in Seq(Calm)
      /\ <<ExitMode>> \in Seq(Calm) /\ <<>> \in Seq(Calm)
  BY CalmOnes
<1> DEFINE first == <<Version>> \o (IF firmware = "v3" THEN <<Command("version", 12, FALSE)>> ELSE <<>>)
                      \o <<CurrentMode>>
<1>4. first \in Seq(Calm)
  BY <1>2, <1>3, Sequences0
<1>5. \A leave \in {<<>>, <<ExitMode>>} : first \o leave \o SpeedCmds \o EnterCmds \in Seq(Calm)
  <2> HIDE DEF first
  <2> TAKE leave \in {<<>>, <<ExitMode>>}
  <2>1. leave \in Seq(Calm)
    BY <1>3
  <2>2. first \o leave \in Seq(Calm)
    BY <2>1, <1>4, Sequences0
  <2>3. first \o leave \o SpeedCmds \in Seq(Calm)
    BY <2>2, <1>1, Sequences0
  <2> QED
    BY <2>3, CalmEnter, Sequences0
<1> QED
  BY <1>5 DEF StOpens

Operations == {"halt", "go", "step", "halted", "read", "write", "read_reg", "write_reg",
               "reset", "reset_and_halt", "core_type"}

\* What a table of commands may hold.
Fine(t) ==
  /\ DOMAIN t \subseteq Operations
  /\ \A n \in DOMAIN t : t[n] \in Seq(Messages) /\ (n # "reset_and_halt" => t[n] \in Seq(Calm))

LEMMA CalmIsMessages == Seq(Calm) \subseteq Seq(Messages)
  BY DEF Calm

LEMMA AskingCalm == \A c \in Calm : Asking(<<c>>) \in Seq(Calm)
<1>1. Line("targets") \in Calm
  BY CalmKinds DEF Names
<1> QED
  BY <1>1, Sequences0 DEF Asking

LEMMA StFine == Fine(StCmds)
<1>1. \A n \in {"halt", "go", "step", "dhcsr", "read_reg", "write_reg", "wait", "aircr",
               "poll"} :
        WriteDebugReg(n) \in Calm /\ ReadDebugReg(n) \in Calm /\ Status(n) \in Calm
  BY CalmKinds DEF Names
<1>2. \A n \in {"halt", "demcr", "catch", "restore", "dhcsr", "aircr", "poll", "write_reg"} :
        WriteDebugReg(n) \in Messages /\ ReadDebugReg(n) \in Messages /\ Status(n) \in Messages
  BY AnyKinds DEF Names
<1>3. StStep \in Seq(Calm) /\ StReset \in Seq(Calm) /\ StWrite \in Seq(Calm)
  BY <1>1, CalmOnes, Sequences0 DEF StStep, StReset, StWrite
<1>4. StResetAndHalt \in Seq(Messages)
  BY <1>2, Sequences0 DEF StResetAndHalt
<1>5. /\ <<WriteDebugReg("halt")>> \in Seq(Calm) /\ <<WriteDebugReg("go")>> \in Seq(Calm)
      /\ <<ReadDebugReg("dhcsr")>> \in Seq(Calm) /\ <<ReadPiece>> \in Seq(Calm)
      /\ <<ReadDebugReg("read_reg")>> \in Seq(Calm) /\ <<Status("write_reg")>> \in Seq(Calm)
  BY <1>1, CalmOnes, Sequences0
<1> DEFINE t == StCmds
<1>6. DOMAIN t = Operations \ {"core_type"}
  BY DEF StCmds, Operations
<1>7. /\ t["halt"] = <<WriteDebugReg("halt")>> /\ t["go"] = <<WriteDebugReg("go")>>
      /\ t["step"] = StStep /\ t["halted"] = <<ReadDebugReg("dhcsr")>>
      /\ t["read"] = <<ReadPiece>> /\ t["write"] = StWrite
      /\ t["read_reg"] = <<ReadDebugReg("read_reg")>> /\ t["write_reg"] = <<Status("write_reg")>>
      /\ t["reset"] = StReset /\ t["reset_and_halt"] = StResetAndHalt
  BY DEF StCmds
<1> HIDE DEF t
<1>8. \A n \in DOMAIN t : n # "reset_and_halt" => t[n] \in Seq(Calm)
  BY <1>3, <1>5, <1>6, <1>7 DEF Operations
<1>9. \A n \in DOMAIN t : t[n] \in Seq(Messages)
  BY <1>4, <1>7, <1>8, CalmIsMessages
<1> QED
  BY <1>6, <1>8, <1>9 DEF Fine, t

LEMMA OcdFine == Fine(OcdCmds)
<1>1. \A n \in {"halt", "go", "step", "ask", "read_reg", "write_reg", "reset_run", "reset_halt"} :
        Line(n) \in Calm /\ <<Line(n)>> \in Seq(Calm)
  BY CalmKinds, Sequences0 DEF Names
<1>2. /\ Asking(<<ReadPiece>>) \in Seq(Calm) /\ Asking(<<WritePiece>>) \in Seq(Calm)
      /\ Asking(<<Line("read_reg")>>) \in Seq(Calm)
  BY <1>1, CalmOnes, AskingCalm
<1> DEFINE t == OcdCmds
<1>3. DOMAIN t = Operations
  BY DEF OcdCmds, Operations
<1>4. /\ t["halt"] = <<Line("halt")>> /\ t["go"] = <<Line("go")>>
      /\ t["step"] = <<Line("step")>> /\ t["halted"] = <<Line("ask")>>
      /\ t["read"] = Asking(<<ReadPiece>>) /\ t["write"] = Asking(<<WritePiece>>)
      /\ t["read_reg"] = <<Line("read_reg")>> /\ t["write_reg"] = <<Line("write_reg")>>
      /\ t["reset"] = <<Line("reset_run")>> /\ t["reset_and_halt"] = <<Line("reset_halt")>>
      /\ t["core_type"] = Asking(<<Line("read_reg")>>)
  BY DEF OcdCmds
<1> HIDE DEF t
<1>5. \A n \in DOMAIN t : t[n] \in Seq(Calm)
  BY <1>1, <1>2, <1>3, <1>4 DEF Operations
<1> QED
  BY <1>3, <1>5, CalmIsMessages DEF Fine, t

LEMMA JFine == Fine(JCmds)
<1>1. \A n \in {"halt", "go", "step", "ask", "read_reg", "write_reg", "jreset"} :
        Line(n) \in Calm /\ <<Line(n)>> \in Seq(Calm)
  BY CalmKinds, Sequences0 DEF Names
<1>2. \A n \in {"halt", "demcr", "catch", "jreset", "wait", "until_halted", "restore", "write_reg"} :
        Line(n) \in Messages
  BY AnyKinds DEF Names
<1>3. Asking(<<Line("read_reg")>>) \in Seq(Calm) /\ <<ReadPiece>> \in Seq(Calm)
      /\ <<WritePiece>> \in Seq(Calm)
  BY <1>1, CalmOnes, AskingCalm, Sequences0
<1>4. JReset \in Seq(Calm)
  <2>1. /\ <<Line("jreset")>> \in Seq(Calm)
        /\ <<Line("jreset"), Line("write_reg"), Line("write_reg"), Line("go")>> \in Seq(Calm)
    BY <1>1, Sequences0
  <2> QED
    BY <2>1 DEF JReset
<1>5. JResetAndHalt \in Seq(Messages)
  <2>1. /\ <<Line("jreset")>> \in Seq(Messages)
        /\ <<Line("halt"), Line("demcr"), Line("catch"), Line("jreset"), Line("wait"),
             Line("until_halted"), Line("restore"), Line("write_reg")>> \in Seq(Messages)
    BY <1>2, Sequences0
  <2> QED
    BY <2>1 DEF JResetAndHalt
<1> DEFINE t == JCmds
<1>6. DOMAIN t = Operations
  BY DEF JCmds, Operations
<1>7. /\ t["halt"] = <<Line("halt")>> /\ t["go"] = <<Line("go")>>
      /\ t["step"] = <<Line("step")>> /\ t["halted"] = <<Line("ask")>>
      /\ t["read"] = <<ReadPiece>> /\ t["write"] = <<WritePiece>>
      /\ t["read_reg"] = <<Line("read_reg")>> /\ t["write_reg"] = <<Line("write_reg")>>
      /\ t["reset"] = JReset /\ t["reset_and_halt"] = JResetAndHalt
      /\ t["core_type"] = Asking(<<Line("read_reg")>>)
  BY DEF JCmds
<1> HIDE DEF t
<1>8. \A n \in DOMAIN t : n # "reset_and_halt" => t[n] \in Seq(Calm)
  BY <1>1, <1>3, <1>4, <1>6, <1>7 DEF Operations
<1>9. \A n \in DOMAIN t : t[n] \in Seq(Messages)
  BY <1>5, <1>7, <1>8, CalmIsMessages
<1> QED
  BY <1>6, <1>8, <1>9 DEF Fine, t

LEMMA CommandsFine == Fine(Commands)
<1>1. CASE driver = "stlink"
  BY <1>1, StFine DEF Commands
<1>2. CASE driver = "openocd"
  BY <1>2, OcdFine DEF Commands
<1>3. CASE driver \notin {"stlink", "openocd"}
  BY <1>3, JFine DEF Commands
<1> QED
  BY <1>1, <1>2, <1>3

-----------------------------------------------------------------------------
(* What a command does to the core, and what is left of the operation.     *)

LEMMA CmdTyped ==
  ASSUME rest \in Seq(Messages), Sending
  PROVE  /\ Cmd \in Messages /\ After \in Seq(Messages)
         /\ rest \in Seq(Calm) => Cmd.name \notin {"catch", "restore"} /\ After \in Seq(Calm)
<1>1. rest # <<>>
  BY DEF Sending
<1>2. Cmd \in Messages /\ After \in Seq(Messages)
  BY <1>1, Sequences0 DEF Cmd, After
<1>3. ASSUME rest \in Seq(Calm)
      PROVE  Cmd \in Calm /\ After \in Seq(Calm)
  BY <1>1, <1>3, Sequences0 DEF Cmd, After
<1> QED
  BY <1>2, <1>3 DEF Calm

LEMMA AnswerTyped ==
  ASSUME NEW c \in Messages, NEW ok \in BOOLEAN, core \in Cores, status \in BOOLEAN
  PROVE  Answer(c, ok) \in Answers
<1>1. /\ (ok /\ (c.name = "rw_status" => status)) \in BOOLEAN
      /\ (core.halted \/ c.name \in {"halt", "reset_halt"}) \in BOOLEAN
      /\ core.reset \in BOOLEAN /\ core.catch \in BOOLEAN
  BY DEF Cores
<1>2. c.name \in Names /\ c.bytes \in Nat
  BY DEF Messages
<1> QED
  BY <1>1, <1>2 DEF Answer, Answers

Acting == {"halt", "go", "step", "catch", "restore", "aircr", "nrst", "jreset", "reset_run",
           "reset_halt", "dhcsr", "poll", "wait"}

LEMMA EffectOf ==
  /\ Effects("halt") = {Halted(core)} /\ Effects("go") = {Running(core)}
  /\ Effects("step") = {[core EXCEPT !.halted = TRUE, !.vector = FALSE]}
  /\ Effects("catch") = {[core EXCEPT !.catch = TRUE]}
  /\ Effects("restore") = {[core EXCEPT !.catch = copy]}
  /\ Effects("aircr") = {IF core.catch THEN AtVector(core) ELSE Restarted(core)}
  /\ Effects("nrst") = {[Restarted(core) EXCEPT !.catch = FALSE]}
  /\ Effects("jreset") = IF core.catch \/ mode = "rv" THEN {AtVector(core)}
                         ELSE {AtVector(core), Restarted(core)}
  /\ Effects("reset_run") = {Restarted(core)} /\ Effects("reset_halt") = {AtVector(core)}
  /\ \A n \in {"dhcsr", "poll", "wait"} : Effects(n) = {[core EXCEPT !.reset = FALSE]}
  /\ \A n : n \notin Acting => Effects(n) = {core}
<1>1. Effects("halt") = {Halted(core)} /\ Effects("go") = {Running(core)}
  BY DEF Effects
<1>2. /\ Effects("step") = {[core EXCEPT !.halted = TRUE, !.vector = FALSE]}
      /\ Effects("catch") = {[core EXCEPT !.catch = TRUE]}
  BY DEF Effects
<1>3. Effects("restore") = {[core EXCEPT !.catch = copy]}
  BY DEF Effects
<1>4. Effects("aircr") = {IF core.catch THEN AtVector(core) ELSE Restarted(core)}
  BY DEF Effects
<1>5. Effects("nrst") = {[Restarted(core) EXCEPT !.catch = FALSE]}
  BY DEF Effects
<1>6. Effects("jreset") = IF core.catch \/ mode = "rv" THEN {AtVector(core)}
                          ELSE {AtVector(core), Restarted(core)}
  BY DEF Effects
<1>7. Effects("reset_run") = {Restarted(core)} /\ Effects("reset_halt") = {AtVector(core)}
  BY DEF Effects
<1>8. \A n \in {"dhcsr", "poll", "wait"} : Effects(n) = {[core EXCEPT !.reset = FALSE]}
  BY DEF Effects
<1>9. \A n : n \notin Acting => Effects(n) = {core}
  BY DEF Effects, Acting
<1> QED
  BY <1>1, <1>2, <1>3, <1>4, <1>5, <1>6, <1>7, <1>8, <1>9

LEMMA EffectTyped ==
  ASSUME core \in Cores, copy \in BOOLEAN, NEW n, NEW c \in Effects(n)
  PROVE  c \in Cores /\ (n \notin {"catch", "restore"} => (c.catch => core.catch))
<1>1. \A d \in Cores : /\ Halted(d) \in Cores /\ Running(d) \in Cores
                       /\ AtVector(d) \in Cores /\ Restarted(d) \in Cores
                       /\ Halted(d).catch = d.catch /\ Running(d).catch = d.catch
                       /\ AtVector(d).catch = d.catch /\ Restarted(d).catch = d.catch
  BY DEF Cores, Halted, Running, AtVector, Restarted
<1>2. \A d \in Cores, b \in BOOLEAN :
        /\ [d EXCEPT !.catch = b] \in Cores
        /\ [d EXCEPT !.catch = b].catch = b
  BY DEF Cores
<1>10. \A d \in Cores :
        /\ [d EXCEPT !.reset = FALSE] \in Cores
        /\ [d EXCEPT !.halted = TRUE, !.vector = FALSE] \in Cores
        /\ [d EXCEPT !.reset = FALSE].catch = d.catch
        /\ [d EXCEPT !.halted = TRUE, !.vector = FALSE].catch = d.catch
  BY DEF Cores
<1>3. CASE n \in {"halt", "go", "reset_run", "reset_halt"}
  BY <1>1, <1>3, EffectOf
<1>4. CASE n = "step"
  <2>1. c = [core EXCEPT !.halted = TRUE, !.vector = FALSE]
    BY <1>4, EffectOf
  <2> QED
    BY <1>10, <2>1, <1>4
<1>9. CASE n \in {"dhcsr", "poll", "wait"}
  <2>1. c = [core EXCEPT !.reset = FALSE]
    BY <1>9, EffectOf
  <2> QED
    BY <1>10, <2>1, <1>9
<1>5. CASE n \in {"catch", "restore"}
  <2>1. c \in {[core EXCEPT !.catch = TRUE], [core EXCEPT !.catch = copy]}
    BY <1>5, EffectOf
  <2>2. c \in Cores
    BY <1>2, <2>1
  <2> QED
    BY <1>5, <2>2
<1>6. CASE n \in {"aircr", "jreset"}
  <2>1. c \in {AtVector(core), Restarted(core)}
    BY <1>6, EffectOf
  <2> QED
    BY <1>1, <2>1
<1>7. CASE n = "nrst"
  <2>1. c = [Restarted(core) EXCEPT !.catch = FALSE]
    BY <1>7, EffectOf
  <2> QED
    BY <1>1, <1>2, <2>1
<1>8. CASE n \notin Acting
  BY <1>8, EffectOf
<1> QED
  BY <1>3, <1>4, <1>5, <1>6, <1>7, <1>8, <1>9 DEF Acting

LEMMA TargetTyped ==
  ASSUME core \in Cores, copy \in BOOLEAN, status \in BOOLEAN, NEW c,
         Executed(c) \/ Ignored(c)
  PROVE  /\ core' \in Cores /\ status' \in BOOLEAN
         /\ c.name \notin {"catch", "restore"} => (core'.catch => core.catch)
<1>1. CASE Executed(c)
  <2>1. status' \in BOOLEAN
    BY <1>1 DEF Executed
  <2>2. core' \in Effects(c.name)
    BY <1>1 DEF Executed
  <2> QED
    BY <2>1, <2>2, EffectTyped
<1>2. CASE Ignored(c)
  <2>1. status' \in BOOLEAN
    BY <1>2 DEF Ignored
  <2> QED
    BY <1>2, <2>1 DEF Ignored
<1> QED
  BY <1>1, <1>2

LEMMA ContinueTyped ==
  ASSUME rest \in Seq(Messages), Sending, copy \in BOOLEAN, seen \in BOOLEAN,
         NEW a, a.catch \in BOOLEAN, a.reset \in BOOLEAN, Continue(a)
  PROVE  /\ rest' \in Seq(Messages) /\ copy' \in BOOLEAN /\ seen' \in BOOLEAN
         /\ UNCHANGED <<op, opened, dirty>>
         /\ rest \in Seq(Calm) => rest' \in Seq(Calm)
<1>1. UNCHANGED <<op, opened, dirty>>
  BY DEF Continue
<1>2. copy' \in BOOLEAN /\ seen' \in BOOLEAN
  <2>1. copy' = (IF Cmd.name = "demcr" THEN a.catch ELSE copy)
    BY DEF Continue
  <2>2. seen' = (IF Cmd.name = "poll" THEN seen \/ a.reset ELSE seen)
    BY DEF Continue
  <2> QED
    BY <2>1, <2>2
<1>3. rest' \in {rest, After, <<Line("halt")>> \o After \o <<Line("go")>>}
  <2>1. CASE InPiece
    <3>1. rest' = (IF left = PieceSize THEN After ELSE rest)
      BY <2>1 DEF Continue, NextPiece, InPiece
    <3> QED
      BY <3>1
  <2>2. CASE ~InPiece /\ Cmd.name = "targets"
    BY <2>2 DEF Continue, Wrapped
  <2>3. CASE ~InPiece /\ Cmd.name = "poll"
    BY <2>3 DEF Continue
  <2>4. CASE ~InPiece /\ Cmd.name = "wait"
    BY <2>4 DEF Continue
  <2>5. CASE ~InPiece /\ Cmd.name = "until_halted"
    BY <2>5 DEF Continue
  <2>6. CASE ~InPiece /\ Cmd.name \notin {"targets", "poll", "wait", "until_halted"}
    BY <2>6 DEF Continue
  <2> QED
    BY <2>1, <2>2, <2>3, <2>4, <2>5, <2>6
<1>4. /\ <<Line("halt")>> \in Seq(Calm) /\ <<Line("go")>> \in Seq(Calm)
      /\ <<Line("halt")>> \in Seq(Messages) /\ <<Line("go")>> \in Seq(Messages)
  BY CalmKinds, AnyKinds, Sequences0 DEF Names
<1>5. \A s \in Seq(Messages) : <<Line("halt")>> \o s \o <<Line("go")>> \in Seq(Messages)
  <2> TAKE s \in Seq(Messages)
  <2>1. <<Line("halt")>> \o s \in Seq(Messages)
    BY <1>4, Sequences0
  <2> QED
    BY <1>4, <2>1, Sequences0
<1>6. \A s \in Seq(Calm) : <<Line("halt")>> \o s \o <<Line("go")>> \in Seq(Calm)
  <2> TAKE s \in Seq(Calm)
  <2>1. <<Line("halt")>> \o s \in Seq(Calm)
    BY <1>4, Sequences0
  <2> QED
    BY <1>4, <2>1, Sequences0
<1> QED
  BY <1>1, <1>2, <1>3, <1>5, <1>6, CmdTyped

LEMMA RaisesTyped ==
  ASSUME rest \in Seq(Messages), Sending, dirty \in BOOLEAN, Raises
  PROVE  /\ rest' \in Seq(Messages) /\ UNCHANGED <<local, opened>>
         /\ dirty' \in BOOLEAN /\ (dirty => dirty')
         /\ rest \in Seq(Calm) => rest' \in Seq(Calm)
         /\ op' = op \/ (op' = "none" /\ rest' = <<>> /\ (op = "reset_and_halt" => dirty'))
<1>1. UNCHANGED <<local, opened>>
  BY DEF Raises
<1>2. CASE Caught
  <2>1. UNCHANGED <<op, dirty>>
    BY <1>2 DEF Raises
  <2>2. rest' \in {rest, After, <<WriteDebugReg("aircr")>> \o After, EnterCmds}
    <3>1. Handled
      BY <1>2 DEF Raises
    <3> QED
      BY <3>1 DEF Handled
  <2>3. <<WriteDebugReg("aircr")>> \in Seq(Calm)
    BY CalmKinds, Sequences0 DEF Names
  <2>4. /\ \A s \in Seq(Calm) : <<WriteDebugReg("aircr")>> \o s \in Seq(Calm)
        /\ \A s \in Seq(Messages) : <<WriteDebugReg("aircr")>> \o s \in Seq(Messages)
    BY <2>3, CalmIsMessages, Sequences0
  <2>5. EnterCmds \in Seq(Calm) /\ EnterCmds \in Seq(Messages)
    BY CalmEnter, CalmIsMessages
  <2> QED
    BY <1>1, <2>1, <2>2, <2>4, <2>5, CmdTyped
<1>3. CASE ~Caught
  <2>1. op' = "none" /\ rest' = <<>>
    BY <1>3 DEF Raises
  <2>2. dirty' = (dirty \/ op = "reset_and_halt")
    BY <1>3 DEF Raises
  <2> QED
    BY <1>1, <2>1, <2>2, Sequences0
<1> QED
  BY <1>2, <1>3

-----------------------------------------------------------------------------
(* Types, and the catch outside of reset_and_halt.                          *)

Flags ==
  /\ opened \in BOOLEAN /\ copy \in BOOLEAN /\ seen \in BOOLEAN /\ status \in BOOLEAN
  /\ ran \in BOOLEAN /\ unseen \in BOOLEAN /\ behind \in BOOLEAN /\ moved \in BOOLEAN
  /\ dirty \in BOOLEAN

LEMMA TypeParts ==
  TypeOK <=> /\ driver \in Drivers /\ mode \in Modes /\ Flags /\ core \in Cores
             /\ faults \in 0..MaxFaults
<1>1. {opened, copy, seen, status, ran, unseen, behind, moved, dirty} \subseteq BOOLEAN <=> Flags
  BY DEF Flags
<1> QED
  BY <1>1 DEF TypeOK, Cores

LEMMA QueueTyped ==
  ASSUME late \in Seq(Answers), NEW a \in Answers
  PROVE  /\ Append(late, a) \in Seq(Answers)
         /\ Append(late, a) # <<>>
         /\ Head(Append(late, a)) \in Answers
         /\ Tail(Append(late, a)) \in Seq(Answers)
         /\ Len(Append(late, a)) = Len(late) + 1
         /\ \A n \in 1..Len(Append(late, a)) :
              SubSeq(Append(late, a), n + 1, Len(Append(late, a))) \in Seq(Answers)
         /\ \A i \in 1..Len(Append(late, a)) : Append(late, a)[i] \in Answers
<1> DEFINE q == Append(late, a)
<1>1. q \in Seq(Answers) /\ Len(q) = Len(late) + 1
  BY AppendProperties
<1>4. q # <<>>
  BY <1>1, EmptySeq, LenProperties
<1> HIDE DEF q
<1>2. Head(q) \in Answers /\ Tail(q) \in Seq(Answers) /\ \A i \in 1..Len(q) : q[i] \in Answers
  BY <1>1, <1>4, Sequences0
<1>3. \A n \in 1..Len(q) : SubSeq(q, n + 1, Len(q)) \in Seq(Answers)
  BY <1>1
<1> QED
  BY <1>1, <1>2, <1>3, <1>4 DEF q

\* While nothing is late, a command that is answered gets its own answer.
LEMMA QueueOfOne ==
  ASSUME late = <<>>, NEW a
  PROVE  /\ Append(late, a) = <<a>> /\ Head(Append(late, a)) = a
         /\ Tail(Append(late, a)) = <<>> /\ Len(Append(late, a)) = 1
         /\ SubSeq(Append(late, a), 2, 1) = <<>>
<1>1. Append(<<>>, a) = <<a>>
  OBVIOUS
<1>2. Head(<<a>>) = a /\ Tail(<<a>>) = <<>> /\ Len(<<a>>) = 1 /\ SubSeq(<<a>>, 2, 1) = <<>>
  OBVIOUS
<1> QED
  BY <1>1, <1>2

LEMMA ExchangeOutline ==
  ASSUME TypeOK, DataOK, Exchange
  PROVE  /\ Sending
         /\ Executed(Cmd) \/ Ignored(Cmd)
         /\ \/ Raises \/ OcdReadEnds
            \/ \E a : a.catch \in BOOLEAN /\ a.reset \in BOOLEAN /\ Continue(a)
         /\ UNCHANGED <<driver, firmware, mode, ran, asked, moved>>
         /\ unseen' \in BOOLEAN /\ (unseen => unseen')
         /\ behind' \in BOOLEAN /\ (behind => behind')
         /\ faults' = faults \/ Fault
         /\ late' \in Seq(Answers)
         /\ late = <<>> /\ ~behind' => late' = <<>>
<1>1. Flags /\ core \in Cores /\ rest \in Seq(Messages) /\ late \in Seq(Answers)
  BY TypeParts DEF DataOK
<1>2. Sending => Cmd \in Messages /\ \A ok \in BOOLEAN : Answer(Cmd, ok) \in Answers
  BY <1>1, CmdTyped, AnswerTyped DEF Flags
<1>3. \A a \in Answers : a.catch \in BOOLEAN /\ a.reset \in BOOLEAN
  BY DEF Answers
<1>4. CASE StSend
  <2>1. Answer(Cmd, TRUE) \in Answers
    BY <1>2, <1>4 DEF StSend
  <2>2. \E a : a.catch \in BOOLEAN /\ a.reset \in BOOLEAN /\ Continue(a)
    BY <1>3, <1>4, <2>1 DEF StSend
  <2>3. unseen' \in BOOLEAN /\ (unseen => unseen')
    BY <1>1, <1>4 DEF StSend, Flags
  <2>4. Sending /\ (Executed(Cmd) \/ Ignored(Cmd)) /\ (faults' = faults \/ Fault)
    BY <1>4 DEF StSend
  <2>5. UNCHANGED <<driver, firmware, mode, late, ran, asked, behind, moved>>
    BY <1>4 DEF StSend
  <2> QED
    BY <1>1, <2>2, <2>3, <2>4, <2>5 DEF Flags
<1>5. CASE StXfer
  <2>0. PICK ok \in BOOLEAN :
          LET queue == Append(late, Answer(Cmd, ok))
              a == Head(queue) IN
          /\ IF ok THEN Executed(Cmd) /\ UNCHANGED <<faults, unseen>>
             ELSE Ignored(Cmd) /\ Fault /\ unseen' = (unseen \/ ~Cmd.checked)
          /\ late' = Tail(queue)
          /\ \E fits \in Fits(a) :
               IF fits /\ (a.ok \/ ~Cmd.checked) THEN Continue(a) ELSE Raises
    BY <1>5 DEF StXfer
  <2> DEFINE q == Append(late, Answer(Cmd, ok))
  <2>1. Sending /\ UNCHANGED <<driver, firmware, mode, ran, asked, behind, moved>>
    BY <1>5 DEF StXfer
  <2>2. Head(q) \in Answers /\ Tail(q) \in Seq(Answers) /\ (late = <<>> => Tail(q) = <<>>)
    BY <1>1, <1>2, <2>1, QueueTyped, QueueOfOne
  <2>3. Raises \/ Continue(Head(q))
    BY <2>0
  <2>4. late' = Tail(q)
    BY <2>0
  <2>5. /\ Executed(Cmd) \/ Ignored(Cmd)
        /\ faults' = faults \/ Fault
        /\ unseen' \in BOOLEAN /\ (unseen => unseen')
    BY <1>1, <2>0 DEF Flags
  <2> HIDE DEF q
  <2> QED
    BY <1>1, <1>3, <2>1, <2>2, <2>3, <2>4, <2>5 DEF Flags
<1>6. CASE OcdExec
  <2>0. PICK ok \in BOOLEAN :
          LET queue == Append(late, Answer(Cmd, ok)) IN
          /\ IF ok THEN Executed(Cmd) /\ UNCHANGED <<faults, unseen>>
             ELSE Ignored(Cmd) /\ Fault /\ unseen' = TRUE
          /\ \E n \in 1..Len(queue) :
               LET a == [queue[1] EXCEPT !.halted = \E i \in 1..n : queue[i].halted] IN
               /\ late' = SubSeq(queue, n + 1, Len(queue))
               /\ IF Cmd.name \in {"read", "read_reg"} /\ (~a.ok \/ a.to # Cmd.name \/ n > 1)
                  THEN Raises \/ OcdReadEnds
                  ELSE Continue(a)
    BY <1>6 DEF OcdExec
  <2> DEFINE q == Append(late, Answer(Cmd, ok))
             heard(n) == [q[1] EXCEPT !.halted = \E i \in 1..n : q[i].halted]
  <2>1. PICK n \in 1..Len(q) :
          /\ late' = SubSeq(q, n + 1, Len(q))
          /\ IF Cmd.name \in {"read", "read_reg"}
                 /\ (~heard(n).ok \/ heard(n).to # Cmd.name \/ n > 1)
             THEN Raises \/ OcdReadEnds
             ELSE Continue(heard(n))
    BY <2>0
  <2>2. Sending /\ UNCHANGED <<driver, firmware, mode, ran, asked, behind, moved>>
    BY <1>6 DEF OcdExec
  <2>3. Answer(Cmd, ok) \in Answers
    BY <1>2, <2>2
  <2>4. /\ Len(q) = Len(late) + 1 /\ \A i \in 1..Len(q) : q[i] \in Answers
        /\ SubSeq(q, n + 1, Len(q)) \in Seq(Answers)
    BY <1>1, <2>3, QueueTyped
  <2>5. late = <<>> => Len(q) = 1 /\ SubSeq(q, 2, 1) = <<>>
    BY QueueOfOne
  <2>6. /\ Executed(Cmd) \/ Ignored(Cmd)
        /\ faults' = faults \/ Fault
        /\ unseen' \in BOOLEAN /\ (unseen => unseen')
    BY <1>1, <2>0 DEF Flags
  <2>7. Raises \/ OcdReadEnds \/ Continue(heard(n))
    BY <2>1
  <2>8. late' = SubSeq(q, n + 1, Len(q))
    BY <2>1
  <2> HIDE DEF q
  <2>9. heard(n).catch \in BOOLEAN /\ heard(n).reset \in BOOLEAN
    <3>1. q[1] \in Answers
      BY <1>1, <2>4
    <3> QED
      BY <3>1 DEF Answers
  <2>10. late = <<>> => late' = <<>>
    <3> SUFFICES ASSUME late = <<>>
                 PROVE  late' = <<>>
      OBVIOUS
    <3>1. Len(q) = 1 /\ n = 1
      BY <2>5
    <3> QED
      BY <3>1, <2>5, <2>8
  <2> HIDE DEF heard
  <2> QED
    BY <1>1, <2>2, <2>4, <2>6, <2>7, <2>8, <2>9, <2>10 DEF Flags
<1>7. CASE JCall
  <2>1. Sending /\ UNCHANGED <<driver, firmware, mode, late, ran, asked, behind, moved>>
    BY <1>7 DEF JCall
  <2>2. \A ok \in BOOLEAN : Answer(Cmd, ok) \in Answers
    BY <1>2, <2>1
  <2>3. CASE Executed(Cmd) /\ UNCHANGED <<faults, unseen>> /\ Continue(Answer(Cmd, TRUE))
    BY <1>1, <1>3, <2>1, <2>2, <2>3 DEF Flags
  <2>4. CASE /\ Ignored(Cmd) /\ Fault /\ unseen' = TRUE
             /\ IF Cmd.name = "open" THEN Raises
                ELSE \E halted \in BOOLEAN :
                       Continue([Answer(Cmd, FALSE) EXCEPT !.halted = halted,
                                   !.reset = FALSE, !.catch = FALSE])
    <3>1. ASSUME NEW h \in BOOLEAN
          PROVE  LET a == [Answer(Cmd, FALSE) EXCEPT !.halted = h, !.reset = FALSE,
                             !.catch = FALSE]
                 IN a.catch \in BOOLEAN /\ a.reset \in BOOLEAN
      BY DEF Answer
    <3>2. Raises \/ \E a : a.catch \in BOOLEAN /\ a.reset \in BOOLEAN /\ Continue(a)
      BY <2>4, <3>1
    <3> QED
      BY <1>1, <2>1, <2>4, <3>2 DEF Flags
  <2> QED
    BY <1>7, <2>3, <2>4 DEF JCall
<1>8. CASE TransferFails
  <2>1. UNCHANGED <<driver, firmware, mode, late, ran, asked, unseen, behind, moved>>
    BY <1>8 DEF TransferFails
  <2>2. Sending /\ Fault /\ Raises /\ (Executed(Cmd) \/ Ignored(Cmd))
    BY <1>8 DEF TransferFails
  <2> QED
    BY <1>1, <2>1, <2>2 DEF Flags
<1>9. CASE AnswerIsLate
  <2>1. UNCHANGED <<driver, firmware, mode, ran, asked, unseen, moved>> /\ behind' = TRUE
    BY <1>9 DEF AnswerIsLate
  <2>2. Sending /\ Fault /\ Raises /\ Executed(Cmd)
    BY <1>9 DEF AnswerIsLate
  <2>3. late' = Append(late, Answer(Cmd, TRUE))
    BY <1>9 DEF AnswerIsLate
  <2>4. late' \in Seq(Answers)
    BY <1>1, <1>2, <2>2, <2>3, QueueTyped
  <2> QED
    BY <1>1, <2>1, <2>2, <2>4 DEF Flags
<1> QED
  BY <1>4, <1>5, <1>6, <1>7, <1>8, <1>9 DEF Exchange

BaseInv == TypeOK /\ DataOK /\ CalmInv /\ LateInv

Excused == unseen \/ behind \/ moved

\* A reset_and_halt that returns in order leaves the catch as it was.
CatchReturned ==
  op = "reset_and_halt" /\ rest = <<>> /\ ~Excused => (core.catch => dirty)

LEMMA ExchangeBase ==
  ASSUME BaseInv, Exchange
  PROVE  /\ BaseInv' /\ (op' = op \/ op' = "none")
         /\ op' = "none" /\ op = "reset_and_halt" => dirty'
<1>1. /\ TypeOK /\ DataOK /\ Flags /\ core \in Cores /\ driver \in Drivers /\ mode \in Modes
      /\ faults \in 0..MaxFaults /\ rest \in Seq(Messages) /\ late \in Seq(Answers)
  BY TypeParts DEF BaseInv, DataOK
<1>2. /\ Sending
      /\ Executed(Cmd) \/ Ignored(Cmd)
      /\ \/ Raises \/ OcdReadEnds
         \/ \E a : a.catch \in BOOLEAN /\ a.reset \in BOOLEAN /\ Continue(a)
      /\ UNCHANGED <<driver, firmware, mode, ran, asked, moved>>
      /\ unseen' \in BOOLEAN /\ (unseen => unseen')
      /\ behind' \in BOOLEAN /\ (behind => behind')
      /\ faults' = faults \/ Fault
      /\ late' \in Seq(Answers)
      /\ late = <<>> /\ ~behind' => late' = <<>>
  BY <1>1, ExchangeOutline
<1>3. /\ core' \in Cores /\ status' \in BOOLEAN
      /\ rest \in Seq(Calm) => (core'.catch => core.catch)
  <2>1. /\ core' \in Cores /\ status' \in BOOLEAN
        /\ Cmd.name \notin {"catch", "restore"} => (core'.catch => core.catch)
    BY <1>1, <1>2, TargetTyped DEF Flags
  <2> QED
    BY <1>1, <1>2, <2>1, CmdTyped
<1>4. /\ rest' \in Seq(Messages) /\ copy' \in BOOLEAN /\ seen' \in BOOLEAN /\ opened' = opened
      /\ dirty' \in BOOLEAN /\ (dirty => dirty')
      /\ rest \in Seq(Calm) => rest' \in Seq(Calm)
      /\ op' = op \/ (op' = "none" /\ rest' = <<>> /\ (op = "reset_and_halt" => dirty'))
  <2>1. CASE Raises
    BY <1>1, <1>2, <2>1, RaisesTyped DEF Flags, local
  <2>2. CASE OcdReadEnds
    <3>1. rest' = After /\ UNCHANGED <<op, opened, dirty>> /\ copy' = copy /\ seen' = seen
      BY <2>2 DEF OcdReadEnds, local
    <3> QED
      BY <1>1, <1>2, <3>1, CmdTyped DEF Flags
  <2>3. CASE \E a : a.catch \in BOOLEAN /\ a.reset \in BOOLEAN /\ Continue(a)
    BY <1>1, <1>2, <2>3, ContinueTyped DEF Flags
  <2> QED
    BY <1>2, <2>1, <2>2, <2>3
<1>5. faults' \in 0..MaxFaults
  <2>1. CASE Fault
    BY <1>1, <2>1, DirectProbeAssumption DEF Fault
  <2> QED
    BY <1>1, <1>2, <2>1
<1>6. TypeOK'
  BY <1>1, <1>2, <1>3, <1>4, <1>5, TypeParts DEF TypeOK, Flags, Cores
<1>7. op # "none" /\ rest # <<>>
  BY <1>1, <1>2 DEF DataOK, Sending
<1>8. DataOK'
  BY <1>2, <1>4, <1>7 DEF DataOK
<1>9. CalmInv'
  <2>1. CASE op = "reset_and_halt"
    BY <1>4, <2>1, Sequences0 DEF CalmInv
  <2>2. CASE op # "reset_and_halt"
    BY <1>3, <1>4, <2>2 DEF CalmInv, BaseInv
  <2> QED
    BY <2>1, <2>2
<1>10. LateInv'
  BY <1>2, <1>7 DEF LateInv, BaseInv
<1> QED
  BY <1>4, <1>6, <1>7, <1>8, <1>9, <1>10 DEF BaseInv

LEMMA BeginBase ==
  ASSUME BaseInv, NEW name, NEW cmds \in Seq(Messages), NEW request,
         name # "reset_and_halt" => cmds \in Seq(Calm), name # "none",
         Begin(name, cmds, request), opened' = opened, late' \in {late, <<>>}
  PROVE  BaseInv'
<1>1. /\ Flags /\ core \in Cores /\ driver \in Drivers /\ mode \in Modes
      /\ faults \in 0..MaxFaults /\ late \in Seq(Answers)
  BY TypeParts DEF BaseInv, DataOK
<1>2. /\ op = "none" /\ op' = name /\ rest' = cmds
      /\ copy' = FALSE /\ seen' = FALSE /\ status' = TRUE
      /\ ran' = ~core.halted /\ unseen' = FALSE /\ behind' = (late # <<>>) /\ moved' = FALSE
      /\ UNCHANGED <<driver, firmware, mode, core, dirty, faults>>
  BY DEF Begin
<1>3. TypeOK'
  BY <1>1, <1>2 DEF TypeOK, Flags, Cores
<1>4. DataOK'
  BY <1>1, <1>2, Sequences0 DEF DataOK
<1>5. CalmInv'
  BY <1>2 DEF CalmInv, BaseInv
<1>6. LateInv'
  BY <1>2 DEF LateInv
<1> QED
  BY <1>3, <1>4, <1>5, <1>6 DEF BaseInv

LEMMA UserBase ==
  ASSUME BaseInv, User
  PROVE  BaseInv'
<1>1. CASE Open
  <2>1. PICK cmds \in CASE driver = "stlink" -> StOpens [] OTHER -> {<<Line("open")>>} :
          Begin("open", cmds, <<0, 0>>)
    BY <1>1 DEF Open
  <2>2. cmds \in Seq(Calm)
    <3>1. <<Line("open")>> \in Seq(Calm)
      BY CalmKinds, Sequences0 DEF Names
    <3> QED
      BY <3>1, <2>1, CalmOpen
  <2>3. opened' = opened /\ late' \in {late, <<>>}
    BY <1>1 DEF Open
  <2> QED
    BY <2>1, <2>2, <2>3, BeginBase, CalmIsMessages
<1>2. CASE Call
  <2>0. PICK name \in DOMAIN Commands : \E request : Begin(name, Commands[name], request)
    BY <1>2 DEF Call
  <2>1. PICK request : Begin(name, Commands[name], request)
    BY <2>0
  <2>2. /\ Commands[name] \in Seq(Messages) /\ name # "none"
        /\ name # "reset_and_halt" => Commands[name] \in Seq(Calm)
    BY CommandsFine DEF Fine, Operations
  <2>3. opened' = opened /\ late' = late
    BY <1>2 DEF Call
  <2> QED
    BY <2>1, <2>2, <2>3, BeginBase
<1>3. CASE Close
  <2>1. Begin("close", IF driver = "stlink" THEN <<ExitMode>> ELSE <<Line("close")>>, <<0, 0>>)
    BY <1>3 DEF Close
  <2>2. (IF driver = "stlink" THEN <<ExitMode>> ELSE <<Line("close")>>) \in Seq(Calm)
    <3>1. <<Line("close")>> \in Seq(Calm) /\ <<ExitMode>> \in Seq(Calm)
      BY CalmKinds, CalmOnes, Sequences0 DEF Names
    <3> QED
      BY <3>1
  <2>3. opened' = opened /\ late' = late
    BY <1>3 DEF Close
  <2> QED
    BY <2>1, <2>2, <2>3, BeginBase, CalmIsMessages
<1> QED
  BY <1>1, <1>2, <1>3 DEF User

LEMMA ReturnBase ==
  ASSUME BaseInv, CatchReturned, Return
  PROVE  BaseInv'
<1>1. /\ Flags /\ core \in Cores /\ driver \in Drivers /\ mode \in Modes
      /\ faults \in 0..MaxFaults /\ late \in Seq(Answers)
  BY TypeParts DEF BaseInv, DataOK
<1>2. /\ rest = <<>> /\ rest' = rest /\ op' = "none" /\ opened' = (op # "close")
      /\ dirty' = (dirty \/ (op = "reset_and_halt" /\ (unseen \/ behind \/ moved)))
      /\ copy' = FALSE /\ seen' = FALSE /\ status' = TRUE /\ ran' = FALSE
      /\ unseen' = FALSE /\ behind' = FALSE /\ moved' = FALSE
      /\ UNCHANGED <<driver, firmware, mode, core, faults>>
      /\ late' \in {late, <<>>}
  BY DEF Return
<1>3. TypeOK'
  BY <1>1, <1>2 DEF TypeOK, Flags, Cores
<1>4. DataOK'
  BY <1>1, <1>2, Sequences0 DEF DataOK
<1>5. CalmInv'
  <2>1. core.catch => dirty'
    BY <1>2 DEF CatchReturned, CalmInv, BaseInv, Excused
  <2> QED
    BY <1>2, <2>1, Sequences0 DEF CalmInv
<1>6. LateInv'
  BY <1>2 DEF LateInv
<1> QED
  BY <1>3, <1>4, <1>5, <1>6 DEF BaseInv

LEMMA OtherBase ==
  ASSUME BaseInv, PollTimesOut \/ WaitTimesOut \/ CoreStops \/ CoreResets \/ UNCHANGED vars
  PROVE  BaseInv'
<1>1. /\ Flags /\ core \in Cores /\ driver \in Drivers /\ mode \in Modes
      /\ faults \in 0..MaxFaults /\ rest \in Seq(Messages) /\ late \in Seq(Answers)
  BY TypeParts DEF BaseInv, DataOK
<1>2. CASE PollTimesOut
  <2>1. /\ op' = "none" /\ rest' = <<>> /\ dirty' = TRUE
        /\ UNCHANGED <<driver, mode, opened, copy, seen, late, core, status, ran, unseen, behind,
                       moved, faults>>
    BY <1>2 DEF PollTimesOut, object, local, target
  <2>2. TypeOK'
    BY <1>1, <2>1 DEF TypeOK, Flags, Cores
  <2> QED
    BY <1>1, <2>1, <2>2, Sequences0 DEF BaseInv, DataOK, CalmInv, LateInv
<1>3. CASE WaitTimesOut
  <2>1. /\ Sending /\ rest' = After
        /\ UNCHANGED <<op, driver, mode, opened, copy, seen, late, core, status, ran, unseen,
                       behind, moved, dirty, faults>>
    BY <1>3 DEF WaitTimesOut, object, local, target, ghosts
  <2>2. TypeOK'
    BY <1>1, <2>1 DEF TypeOK, Flags, Cores
  <2>3. op # "none"
    BY <2>1 DEF BaseInv, DataOK, Sending
  <2> QED
    BY <1>1, <2>1, <2>2, <2>3, CmdTyped DEF BaseInv, DataOK, CalmInv, LateInv
<1>4. CASE CoreStops
  <2>1. /\ core' = Halted(core) /\ moved' = (op # "none")
        /\ UNCHANGED <<op, rest, driver, mode, opened, copy, seen, late, status, ran, unseen,
                       behind, dirty, faults>>
    BY <1>4 DEF CoreStops, object, local
  <2>2. core' \in Cores /\ core'.catch = core.catch
    BY <1>1, <2>1 DEF Halted, Cores
  <2>3. TypeOK'
    BY <1>1, <2>1, <2>2 DEF TypeOK, Flags, Cores
  <2> QED
    BY <2>1, <2>2, <2>3 DEF BaseInv, DataOK, CalmInv, LateInv
<1>5. CASE CoreResets
  <2>1. /\ core' = [Restarted(core) EXCEPT !.catch = FALSE] /\ moved' = (op # "none") /\ Fault
        /\ UNCHANGED <<op, rest, driver, mode, opened, copy, seen, late, status, ran, unseen,
                       behind, dirty>>
    BY <1>5 DEF CoreResets, object, local
  <2>2. core' \in Cores /\ core'.catch = FALSE
    BY <1>1, <2>1 DEF Restarted, Running, Cores
  <2>4. faults' \in 0..MaxFaults
    BY <1>1, <2>1, DirectProbeAssumption DEF Fault
  <2>3. TypeOK'
    BY <1>1, <2>1, <2>2, <2>4 DEF TypeOK, Flags, Cores
  <2> QED
    BY <2>1, <2>2, <2>3 DEF BaseInv, DataOK, CalmInv, LateInv
<1>6. CASE UNCHANGED vars
  <2>1. UNCHANGED <<op, rest, driver, mode, opened, copy, seen, late, core, status, ran, unseen,
                    behind, moved, dirty, faults>>
    BY <1>6 DEF vars, object, local, target, ghosts
  <2>2. TypeOK'
    BY <1>1, <2>1 DEF TypeOK, Flags, Cores
  <2> QED
    BY <2>1, <2>2 DEF BaseInv, DataOK, CalmInv, LateInv
<1> QED
  BY <1>2, <1>3, <1>4, <1>5, <1>6

LEMMA InitBase == Init => BaseInv
<1> SUFFICES ASSUME Init
             PROVE  BaseInv
  OBVIOUS
<1>1. TypeOK
  <2>1. core \in Cores /\ Flags
    BY DEF Init, Cores, Flags
  <2>2. faults \in 0..MaxFaults
    BY DirectProbeAssumption DEF Init
  <2> QED
    BY <2>1, <2>2, TypeParts DEF Init
<1>2. core.catch = FALSE
  BY DEF Init
<1> QED
  BY <1>1, <1>2, Sequences0 DEF Init, BaseInv, DataOK, CalmInv, LateInv

-----------------------------------------------------------------------------
(* A command of an operation in which no answer is late and no failure goes  *)
(* unseen.                                                                 *)

\* It is carried out and its answer taken.
Good ==
  /\ Executed(Cmd) /\ Continue(Answer(Cmd, TRUE))
  /\ driver = "stlink" /\ Cmd.bytes = 0 => status
  /\ driver = "stlink" /\ Cmd.name = "rw_status" /\ Cmd.checked => status

\* An ST-Link command that has no answer fails: rw_status will tell.
Unanswered ==
  /\ driver = "stlink" /\ Cmd.bytes = 0 /\ status
  /\ Ignored(Cmd) /\ Continue(Answer(Cmd, TRUE))

Failed == (Executed(Cmd) \/ Ignored(Cmd)) /\ Raises

LEMMA OneHeard ==
  ASSUME NEW a \in Answers
  PROVE  [<<a>>[1] EXCEPT !.halted = \E i \in 1..1 : <<a>>[i].halted] = a
<1>1. (\E i \in 1..1 : <<a>>[i].halted) <=> a.halted
  OBVIOUS
<1>2. a.halted \in BOOLEAN
  BY DEF Answers
<1>3. (\E i \in 1..1 : <<a>>[i].halted) = a.halted
  BY <1>1, <1>2
<1>4. \A x \in Answers : [x EXCEPT !.halted = x.halted] = x
  BY DEF Answers
<1> QED
  BY <1>3, <1>4

LEMMA CleanExchange ==
  ASSUME BaseInv, Exchange, ~unseen', ~behind'
  PROVE  /\ Sending /\ op # "none" /\ Cmd \in Messages
         /\ Good \/ Unanswered \/ Failed
         /\ UNCHANGED <<driver, firmware, mode, ran, asked, moved>> /\ ~unseen /\ ~behind
<1>1. /\ TypeOK /\ DataOK /\ Flags /\ core \in Cores /\ rest \in Seq(Messages)
      /\ late \in Seq(Answers)
  BY TypeParts DEF BaseInv, DataOK
<1>2. /\ Sending
      /\ UNCHANGED <<driver, firmware, mode, ran, asked, moved>>
      /\ (unseen => unseen') /\ (behind => behind')
  BY <1>1, ExchangeOutline
<1>3. op # "none"
  BY <1>1, <1>2 DEF DataOK, Sending
<1>4. late = <<>>
  BY <1>2, <1>3 DEF BaseInv, LateInv
<1>5. Cmd \in Messages /\ \A ok \in BOOLEAN : Answer(Cmd, ok) \in Answers
  BY <1>1, <1>2, CmdTyped, AnswerTyped DEF Flags
<1>6. Good \/ Unanswered \/ Failed
  <2>1. CASE StSend
    <3>1. /\ driver = "stlink" /\ Cmd.bytes = 0 /\ Continue(Answer(Cmd, TRUE))
          /\ Executed(Cmd) \/ Ignored(Cmd)
          /\ unseen' = (unseen \/ ~status)
      BY <2>1 DEF StSend
    <3>2. status
      BY <1>1, <3>1 DEF Flags
    <3> QED
      BY <3>1, <3>2 DEF Good, Unanswered
  <2>2. CASE StXfer
    <3>0. PICK ok \in BOOLEAN :
            LET queue == Append(late, Answer(Cmd, ok))
                a == Head(queue) IN
            /\ IF ok THEN Executed(Cmd) /\ UNCHANGED <<faults, unseen>>
               ELSE Ignored(Cmd) /\ Fault /\ unseen' = (unseen \/ ~Cmd.checked)
            /\ late' = Tail(queue)
            /\ \E fits \in Fits(a) :
                 IF fits /\ (a.ok \/ ~Cmd.checked) THEN Continue(a) ELSE Raises
      BY <2>2 DEF StXfer
    <3>1. driver = "stlink" /\ Cmd.bytes > 0 /\ Cmd.bytes # 0
      BY <1>5, <2>2 DEF StXfer, Messages
    <3>2. Head(Append(late, Answer(Cmd, ok))) = Answer(Cmd, ok)
      BY <1>4, QueueOfOne
    <3>3. \/ Continue(Answer(Cmd, ok)) /\ (Answer(Cmd, ok).ok \/ ~Cmd.checked)
          \/ Raises
      BY <3>0, <3>2
    <3>4. Answer(Cmd, ok).ok <=> ok /\ (Cmd.name = "rw_status" => status)
      BY DEF Answer
    <3>5. CASE ok
      <4>1. Executed(Cmd)
        BY <3>0, <3>5
      <4>2. Continue(Answer(Cmd, ok)) => Continue(Answer(Cmd, TRUE))
        BY <3>5
      <4> QED
        BY <3>1, <3>3, <3>4, <4>1, <4>2 DEF Good, Failed
    <3>6. CASE ~ok
      <4>1. Ignored(Cmd) /\ Cmd.checked
        BY <3>0, <3>6
      <4>2. Continue(Answer(Cmd, ok)) => Continue(Answer(Cmd, FALSE))
        BY <3>6
      <4> QED
        BY <3>1, <3>3, <3>4, <3>6, <4>1, <4>2 DEF Failed
    <3> QED
      BY <3>5, <3>6
  <2>3. CASE OcdExec
    <3>0. PICK ok \in BOOLEAN :
            LET queue == Append(late, Answer(Cmd, ok)) IN
            /\ IF ok THEN Executed(Cmd) /\ UNCHANGED <<faults, unseen>>
               ELSE Ignored(Cmd) /\ Fault /\ unseen' = TRUE
            /\ \E n \in 1..Len(queue) :
                 LET a == [queue[1] EXCEPT !.halted = \E i \in 1..n : queue[i].halted] IN
                 /\ late' = SubSeq(queue, n + 1, Len(queue))
                 /\ IF Cmd.name \in {"read", "read_reg"} /\ (~a.ok \/ a.to # Cmd.name \/ n > 1)
                    THEN Raises \/ OcdReadEnds
                    ELSE Continue(a)
      BY <2>3 DEF OcdExec
    <3> DEFINE q == Append(late, Answer(Cmd, ok))
               heard(n) == [q[1] EXCEPT !.halted = \E i \in 1..n : q[i].halted]
    <3>1. ok /\ Executed(Cmd)
      BY <3>0
    <3>2. PICK n \in 1..Len(q) :
            IF Cmd.name \in {"read", "read_reg"}
                 /\ (~heard(n).ok \/ heard(n).to # Cmd.name \/ n > 1)
            THEN Raises \/ OcdReadEnds
            ELSE Continue(heard(n))
      BY <3>0
    <3>3. q = <<Answer(Cmd, TRUE)>> /\ n = 1
      <4>1. q = <<Answer(Cmd, ok)>> /\ Len(q) = 1
        BY <1>4, QueueOfOne
      <4>2. ok = TRUE
        BY <3>1
      <4>3. n = 1
        BY <4>1
      <4> QED
        BY <4>1, <4>2, <4>3
    <3>4. heard(n) = Answer(Cmd, TRUE)
      <4>1. Answer(Cmd, TRUE) \in Answers
        BY <1>5
      <4> HIDE DEF q
      <4>2. heard(1) = Answer(Cmd, TRUE)
        BY <3>3, <4>1, OneHeard
      <4> QED
        BY <3>3, <4>2
    <3>5. Cmd.name \in {"read", "read_reg"} => Answer(Cmd, TRUE).ok /\ Answer(Cmd, TRUE).to = Cmd.name
      BY DEF Answer
    <3> HIDE DEF q, heard
    <3>6. Continue(Answer(Cmd, TRUE))
      <4>1. ~(n > 1)
        BY <3>3
      <4>2. ~(Cmd.name \in {"read", "read_reg"}
                /\ (~heard(n).ok \/ heard(n).to # Cmd.name \/ n > 1))
        BY <3>4, <3>5, <4>1
      <4>3. Continue(heard(n))
        BY <3>2, <4>2
      <4> QED
        BY <3>4, <4>3
    <3>7. driver = "openocd"
      BY <2>3 DEF OcdExec
    <3> QED
      BY <3>1, <3>6, <3>7 DEF Good
  <2>4. CASE JCall
    <3>1. driver = "jlink" /\ Executed(Cmd) /\ Continue(Answer(Cmd, TRUE))
      BY <2>4 DEF JCall
    <3> QED
      BY <3>1 DEF Good
  <2>5. CASE TransferFails
    BY <2>5 DEF TransferFails, Failed
  <2>6. CASE AnswerIsLate
    BY <2>6 DEF AnswerIsLate
  <2> QED
    BY <2>1, <2>2, <2>3, <2>4, <2>5, <2>6 DEF Exchange
<1> QED
  BY <1>2, <1>3, <1>5, <1>6

-----------------------------------------------------------------------------
(* reset_and_halt: the commands still to send are a suffix of the whole       *)
(* list, and their number says what the core must be like.                 *)

Whole ==
  CASE driver = "stlink" -> StResetAndHalt [] driver = "openocd" -> <<Line("reset_halt")>>
    [] OTHER -> JResetAndHalt

Suffix(s, t) ==
  /\ Len(s) <= Len(t)
  /\ \A i \in 1..Len(s) : s[i] = t[Len(t) - Len(s) + i]

\* With n commands to go.  The catch that was found is noted before the catch
\* is turned on, and written back in the last command but one.  An S_RESET_ST
\* that the poll sees is that of this reset, because the register is read, and
\* the bit cleared, before.
HaltAt(n) ==
  /\ n \notin 2..5 => (core.catch => dirty)
  /\ n \in 2..6 => (copy => dirty)
  /\ Len(Whole) = 8 =>
       /\ n \in 1..7 => core.halted
       /\ n \in 2..5 => core.catch
       /\ n \in 3..8 => ~seen
       /\ driver = "stlink" /\ n = 4 => ~core.reset
       /\ driver = "stlink" /\ n = 3 => (core.reset => core.vector)
       /\ n \in 1..2 \/ (driver = "jlink" /\ n \in 3..4) => core.vector
  /\ n = 0 => core.vector

HaltInv ==
  op = "reset_and_halt" /\ ~Excused => Suffix(rest, Whole) /\ HaltAt(Len(rest))

LEMMA SuffixStep ==
  ASSUME NEW S, NEW s \in Seq(S), NEW t \in Seq(S), Suffix(s, t), s # <<>>
  PROVE  /\ Head(s) = t[Len(t) - Len(s) + 1] /\ Len(Tail(s)) = Len(s) - 1
         /\ Len(s) \in 1..Len(t) /\ Suffix(Tail(s), t)
<1>1. Len(s) \in Nat /\ Len(s) > 0 /\ Len(t) \in Nat
  OBVIOUS
<1>2. Tail(s) \in Seq(S) /\ Len(Tail(s)) = Len(s) - 1
      /\ \A i \in 1..(Len(s) - 1) : Tail(s)[i] = s[i + 1]
  OBVIOUS
<1>3. Head(s) = s[1]
  OBVIOUS
<1>4. Head(s) = t[Len(t) - Len(s) + 1]
  BY <1>1, <1>3 DEF Suffix
<1>5. Suffix(Tail(s), t)
  <2>1. ASSUME NEW i \in 1..Len(Tail(s))
        PROVE  Tail(s)[i] = t[Len(t) - Len(Tail(s)) + i]
    <3>1. i + 1 \in 1..Len(s) /\ Tail(s)[i] = s[i + 1]
      BY <1>1, <1>2
    <3>2. s[i + 1] = t[Len(t) - Len(s) + (i + 1)]
      BY <3>1 DEF Suffix
    <3>3. Len(t) - Len(s) + (i + 1) = Len(t) - Len(Tail(s)) + i
      BY <1>1, <1>2
    <3> QED
      BY <3>1, <3>2, <3>3
  <2>2. Len(Tail(s)) <= Len(t)
    BY <1>1, <1>2 DEF Suffix
  <2> QED
    BY <2>1, <2>2 DEF Suffix
<1> QED
  BY <1>1, <1>2, <1>4, <1>5 DEF Suffix

LEMMA SuffixSelf == ASSUME NEW S, NEW t \in Seq(S) PROVE Suffix(t, t)
<1>1. Len(t) \in Nat
  OBVIOUS
<1> QED
  BY <1>1 DEF Suffix

LEMMA WholeIs ==
  /\ Commands["reset_and_halt"] = Whole /\ Whole \in Seq(Messages)
  /\ driver = "stlink" =>
       /\ Len(Whole) = 8
       /\ Whole[1].name = "halt" /\ Whole[2].name = "demcr" /\ Whole[3].name = "catch"
       /\ Whole[4].name = "dhcsr" /\ Whole[5].name = "aircr" /\ Whole[6].name = "poll"
       /\ Whole[7].name = "restore" /\ Whole[8].name = "write_reg"
       /\ \A i \in 1..8 : Whole[i].checked /\ Whole[i].bytes # 0
  /\ driver = "openocd" => Len(Whole) = 1 /\ Whole[1].name = "reset_halt"
  /\ driver \notin {"stlink", "openocd"} /\ mode = "arm" =>
       /\ Len(Whole) = 8
       /\ Whole[1].name = "halt" /\ Whole[2].name = "demcr" /\ Whole[3].name = "catch"
       /\ Whole[4].name = "jreset" /\ Whole[5].name = "wait" /\ Whole[6].name = "until_halted"
       /\ Whole[7].name = "restore" /\ Whole[8].name = "write_reg"
  /\ driver \notin {"stlink", "openocd"} /\ mode # "arm" => Len(Whole) = 1 /\ Whole[1].name = "jreset"
<1>1. ASSUME driver = "stlink"
      PROVE  /\ Whole = StResetAndHalt /\ Commands["reset_and_halt"] = StResetAndHalt
             /\ Len(Whole) = 8
             /\ Whole[1].name = "halt" /\ Whole[2].name = "demcr" /\ Whole[3].name = "catch"
             /\ Whole[4].name = "dhcsr" /\ Whole[5].name = "aircr" /\ Whole[6].name = "poll"
             /\ Whole[7].name = "restore" /\ Whole[8].name = "write_reg"
             /\ \A i \in 1..8 : Whole[i].checked /\ Whole[i].bytes # 0
  <2>1. Whole = StResetAndHalt
    BY <1>1 DEF Whole
  <2>2. Commands["reset_and_halt"] = StResetAndHalt
    BY <1>1 DEF Commands, StCmds
  <2>3. /\ Len(StResetAndHalt) = 8
        /\ StResetAndHalt[1] = WriteDebugReg("halt") /\ StResetAndHalt[2] = ReadDebugReg("demcr")
        /\ StResetAndHalt[3] = WriteDebugReg("catch") /\ StResetAndHalt[4] = ReadDebugReg("dhcsr")
        /\ StResetAndHalt[5] = WriteDebugReg("aircr") /\ StResetAndHalt[6] = ReadDebugReg("poll")
        /\ StResetAndHalt[7] = WriteDebugReg("restore") /\ StResetAndHalt[8] = Status("write_reg")
    BY DEF StResetAndHalt
  <2>4. \A n : /\ WriteDebugReg(n).name = n /\ WriteDebugReg(n).checked /\ WriteDebugReg(n).bytes # 0
               /\ ReadDebugReg(n).name = n /\ ReadDebugReg(n).checked /\ ReadDebugReg(n).bytes # 0
               /\ Status(n).name = n /\ Status(n).checked /\ Status(n).bytes # 0
    BY DEF WriteDebugReg, ReadDebugReg, Status, Command
  <2>5. \A i \in 1..8 : i = 1 \/ i = 2 \/ i = 3 \/ i = 4 \/ i = 5 \/ i = 6 \/ i = 7 \/ i = 8
    OBVIOUS
  <2>6. \A i \in 1..8 : StResetAndHalt[i].checked /\ StResetAndHalt[i].bytes # 0
    BY <2>3, <2>4, <2>5
  <2> QED
    BY <2>1, <2>2, <2>3, <2>4, <2>6
<1>2. ASSUME driver = "openocd"
      PROVE  /\ Whole = <<Line("reset_halt")>> /\ Commands["reset_and_halt"] = <<Line("reset_halt")>>
             /\ Len(Whole) = 1 /\ Whole[1].name = "reset_halt"
  <2>1. Whole = <<Line("reset_halt")>>
    BY <1>2 DEF Whole
  <2>2. Commands["reset_and_halt"] = <<Line("reset_halt")>>
    BY <1>2 DEF Commands, OcdCmds
  <2>3. Line("reset_halt").name = "reset_halt"
    BY DEF Line, Command
  <2> QED
    BY <2>1, <2>2, <2>3
<1>3. ASSUME driver \notin {"stlink", "openocd"}
      PROVE  Whole = JResetAndHalt /\ Commands["reset_and_halt"] = JResetAndHalt
  BY <1>3 DEF Whole, Commands, JCmds
<1>4. ASSUME mode = "arm"
      PROVE  /\ Len(JResetAndHalt) = 8
             /\ JResetAndHalt[1].name = "halt" /\ JResetAndHalt[2].name = "demcr"
             /\ JResetAndHalt[3].name = "catch" /\ JResetAndHalt[4].name = "jreset"
             /\ JResetAndHalt[5].name = "wait" /\ JResetAndHalt[6].name = "until_halted"
             /\ JResetAndHalt[7].name = "restore" /\ JResetAndHalt[8].name = "write_reg"
  <2>1. JResetAndHalt = <<Line("halt"), Line("demcr"), Line("catch"), Line("jreset"), Line("wait"),
                          Line("until_halted"), Line("restore"), Line("write_reg")>>
    BY <1>4 DEF JResetAndHalt
  <2>2. \A n : Line(n).name = n
    BY DEF Line, Command
  <2> QED
    BY <2>1, <2>2
<1>5. ASSUME mode # "arm"
      PROVE  Len(JResetAndHalt) = 1 /\ JResetAndHalt[1].name = "jreset"
  <2>1. JResetAndHalt = <<Line("jreset")>>
    BY <1>5 DEF JResetAndHalt
  <2>2. Line("jreset").name = "jreset"
    BY DEF Line, Command
  <2> QED
    BY <2>1, <2>2
<1>6. Commands["reset_and_halt"] = Whole
  BY <1>1, <1>2, <1>3
<1>7. "reset_and_halt" \in DOMAIN Commands
  <2>1. /\ "reset_and_halt" \in DOMAIN StCmds /\ "reset_and_halt" \in DOMAIN OcdCmds
        /\ "reset_and_halt" \in DOMAIN JCmds
    BY DEF StCmds, OcdCmds, JCmds
  <2> QED
    BY <2>1 DEF Commands
<1>8. Whole \in Seq(Messages)
  BY <1>6, <1>7, CommandsFine DEF Fine
<1> QED
  BY <1>1, <1>2, <1>3, <1>4, <1>5, <1>6, <1>8

LEMMA ContinueParts ==
  ASSUME NEW a, Continue(a)
  PROVE  /\ copy' = (IF Cmd.name = "demcr" THEN a.catch ELSE copy)
         /\ seen' = (IF Cmd.name = "poll" THEN seen \/ a.reset ELSE seen)
         /\ UNCHANGED <<op, opened, dirty>>
         /\ Cmd.name = "targets" => Wrapped(a) /\ UNCHANGED <<at, left>>
         /\ Cmd.name = "poll" => rest' = IF seen' /\ a.halted THEN After ELSE rest
         /\ Cmd.name = "wait" => rest' = IF a.reset THEN rest ELSE After
         /\ Cmd.name = "until_halted" => rest' = IF a.halted THEN After ELSE rest
         /\ Cmd.name \notin {"read", "write", "targets", "poll", "wait", "until_halted"}
              => rest' = After /\ UNCHANGED <<at, left>>
<1>1. /\ copy' = (IF Cmd.name = "demcr" THEN a.catch ELSE copy)
      /\ seen' = (IF Cmd.name = "poll" THEN seen \/ a.reset ELSE seen)
      /\ UNCHANGED <<op, opened, dirty>>
  BY DEF Continue
<1>2. Cmd.name = "targets" => Wrapped(a) /\ UNCHANGED <<at, left>>
  BY DEF Continue, InPiece, Wrapped
<1>3. Cmd.name = "poll" => rest' = IF seen' /\ a.halted THEN After ELSE rest
  BY DEF Continue, InPiece
<1>4. Cmd.name = "wait" => rest' = IF a.reset THEN rest ELSE After
  BY DEF Continue, InPiece
<1>5. Cmd.name = "until_halted" => rest' = IF a.halted THEN After ELSE rest
  BY DEF Continue, InPiece
<1>6. Cmd.name \notin {"read", "write", "targets", "poll", "wait", "until_halted"}
        => rest' = After /\ UNCHANGED <<at, left>>
  BY DEF Continue, InPiece
<1> QED
  BY <1>1, <1>2, <1>3, <1>4, <1>5, <1>6

LEMMA CoreOf ==
  \A d \in Cores :
    /\ Halted(d).halted = TRUE /\ Halted(d).catch = d.catch /\ Halted(d).reset = d.reset
    /\ AtVector(d).halted = TRUE /\ AtVector(d).vector = TRUE /\ AtVector(d).catch = d.catch
    /\ AtVector(d).reset = TRUE
    /\ Running(d).halted = FALSE /\ Running(d).catch = d.catch
    /\ Restarted(d).halted = FALSE /\ Restarted(d).catch = d.catch /\ Restarted(d).vector = FALSE
    /\ [Restarted(d) EXCEPT !.catch = FALSE].halted = FALSE
    /\ [d EXCEPT !.reset = FALSE].halted = d.halted /\ [d EXCEPT !.reset = FALSE].vector = d.vector
    /\ [d EXCEPT !.reset = FALSE].catch = d.catch /\ [d EXCEPT !.reset = FALSE].reset = FALSE
    /\ \A b \in BOOLEAN : /\ [d EXCEPT !.catch = b].halted = d.halted
                          /\ [d EXCEPT !.catch = b].vector = d.vector
                          /\ [d EXCEPT !.catch = b].catch = b
                          /\ [d EXCEPT !.catch = b].reset = d.reset
  BY DEF Cores, Halted, AtVector, Running, Restarted

\* What an exception leaves of a reset_and_halt.
LEMMA HaltRaises ==
  ASSUME op = "reset_and_halt", Raises, op' = op
  PROVE  /\ Cmd.name \in {"aircr", "poll", "wait"} /\ UNCHANGED local
         /\ rest' = (IF Cmd.name = "aircr" THEN After ELSE rest)
<1>1. Caught
  BY DEF Raises
<1>2. Cmd.name \in {"aircr", "poll", "wait"}
  BY <1>1 DEF Caught
<1>3. Handled /\ UNCHANGED local
  BY <1>1 DEF Raises
<1> QED
  BY <1>2, <1>3 DEF Handled

\* The ST-Link, command by command.
LEMMA HaltStLink ==
  ASSUME BaseInv, driver = "stlink", op = "reset_and_halt", op' = op, Suffix(rest, Whole),
         HaltAt(Len(rest)), Sending, Good \/ Unanswered \/ Failed,
         UNCHANGED <<driver, mode>>, dirty => dirty'
  PROVE  Suffix(rest', Whole) /\ HaltAt(Len(rest))'
<1> DEFINE n == Len(rest)
<1>1. /\ core \in Cores /\ Flags /\ rest \in Seq(Messages)
  BY TypeParts DEF BaseInv, DataOK
<1>2. Whole' = Whole /\ Whole \in Seq(Messages) /\ Len(Whole) = 8
  BY WholeIs DEF Whole
<1>3. /\ n \in 1..8 /\ Cmd = Whole[8 - n + 1] /\ Len(After) = n - 1 /\ Suffix(After, Whole)
  BY <1>1, <1>2, SuffixStep DEF Sending, Cmd, After
<1>18. n = Len(rest) /\ HaltAt(n)
  OBVIOUS
<1> HIDE DEF n
<1>4. /\ n = 8 => Cmd.name = "halt"
      /\ n = 7 => Cmd.name = "demcr"
      /\ n = 6 => Cmd.name = "catch"
      /\ n = 5 => Cmd.name = "dhcsr"
      /\ n = 4 => Cmd.name = "aircr"
      /\ n = 3 => Cmd.name = "poll"
      /\ n = 2 => Cmd.name = "restore"
      /\ n = 1 => Cmd.name = "write_reg"
      /\ Cmd.checked /\ Cmd.bytes # 0
  <2>1. /\ n = 8 => Cmd = Whole[1]
        /\ n = 7 => Cmd = Whole[2]
        /\ n = 6 => Cmd = Whole[3]
        /\ n = 5 => Cmd = Whole[4]
        /\ n = 4 => Cmd = Whole[5]
        /\ n = 3 => Cmd = Whole[6]
        /\ n = 2 => Cmd = Whole[7]
        /\ n = 1 => Cmd = Whole[8]
    BY <1>3
  <2>2. Cmd.checked /\ Cmd.bytes # 0
    <3>1. 8 - n + 1 \in 1..8
      BY <1>3
    <3> QED
      BY <1>3, <3>1, WholeIs
  <2> QED
    BY <2>1, <2>2, WholeIs
<1>5. Good \/ Failed
  BY <1>4 DEF Unanswered
<1>7. ASSUME n \in {1, 2, 4, 5, 6, 7, 8}, Good
      PROVE  /\ rest' = After /\ seen' = seen /\ dirty' = dirty /\ core' \in Effects(Cmd.name)
             /\ copy' = (IF n = 7 THEN core.catch ELSE copy)
  <2>1. Continue(Answer(Cmd, TRUE)) /\ core' \in Effects(Cmd.name)
    BY <1>7 DEF Good, Executed
  <2>2. Cmd.name \notin {"read", "write", "targets", "poll", "wait", "until_halted"}
        /\ (Cmd.name = "demcr" <=> n = 7)
    BY <1>4, <1>7
  <2>3. Answer(Cmd, TRUE).catch = core.catch
    BY DEF Answer
  <2> QED
    BY <2>1, <2>2, <2>3, ContinueParts
<1>8. ASSUME Failed
      PROVE  /\ n \in {3, 4} /\ UNCHANGED <<copy, seen>> /\ rest' = (IF n = 4 THEN After ELSE rest)
             /\ core' \in Effects(Cmd.name) \/ core' = core
  <2>1. Raises /\ (core' \in Effects(Cmd.name) \/ core' = core)
    BY <1>8 DEF Failed, Executed, Ignored
  <2>2. /\ Cmd.name \in {"aircr", "poll", "wait"} /\ UNCHANGED local
        /\ rest' = (IF Cmd.name = "aircr" THEN After ELSE rest)
    BY <2>1, HaltRaises
  <2>3. n \in {3, 4} /\ (Cmd.name = "aircr" <=> n = 4)
    BY <1>3, <1>4, <2>2
  <2> QED
    BY <2>1, <2>2, <2>3 DEF local
<1>9. driver' = "stlink"
  OBVIOUS
<1> USE <1>2, <1>3, <1>9
<1>10. CASE n = 8
  <2>1. /\ rest' = After /\ seen' = seen /\ dirty' = dirty /\ core' = Halted(core)
        /\ copy' = copy
    BY <1>4, <1>5, <1>7, <1>8, <1>10, EffectOf
  <2>2. core'.halted /\ core'.catch = core.catch
    BY <1>1, <2>1, CoreOf
  <2>7. Len(rest') = 7
    BY <1>3, <1>10, <2>1
  <2> QED
    BY <2>7, <1>18, <1>10, <2>1, <2>2 DEF HaltAt
<1>11. CASE n = 7
  <2>1. /\ rest' = After /\ seen' = seen /\ dirty' = dirty /\ core' = core
        /\ copy' = core.catch
    BY <1>4, <1>5, <1>7, <1>8, <1>11, EffectOf DEF Acting
  <2>7. Len(rest') = 6
    BY <1>3, <1>11, <2>1
  <2> QED
    BY <2>7, <1>18, <1>11, <2>1 DEF HaltAt
<1>12. CASE n = 6
  <2>1. /\ rest' = After /\ seen' = seen /\ dirty' = dirty /\ core' = [core EXCEPT !.catch = TRUE]
        /\ copy' = copy
    BY <1>4, <1>5, <1>7, <1>8, <1>12, EffectOf
  <2>2. core'.halted = core.halted /\ core'.catch = TRUE
    BY <1>1, <2>1, CoreOf
  <2>7. Len(rest') = 5
    BY <1>3, <1>12, <2>1
  <2> QED
    BY <2>7, <1>18, <1>12, <2>1, <2>2 DEF HaltAt
<1>13. CASE n = 5
  <2>1. /\ rest' = After /\ seen' = seen /\ dirty' = dirty /\ core' = [core EXCEPT !.reset = FALSE]
        /\ copy' = copy
    BY <1>4, <1>5, <1>7, <1>8, <1>13, EffectOf
  <2>2. core'.halted = core.halted /\ core'.catch = core.catch /\ core'.reset = FALSE
    BY <1>1, <2>1, CoreOf
  <2>7. Len(rest') = 4
    BY <1>3, <1>13, <2>1
  <2> QED
    BY <2>7, <1>18, <1>13, <2>1, <2>2 DEF HaltAt
<1>14. CASE n = 4
  <2>1. core.catch /\ ~core.reset /\ core.halted /\ ~seen /\ (copy => dirty)
    BY <1>18, <1>14 DEF HaltAt
  <2>2. rest' = After /\ seen' = seen /\ copy' = copy
        /\ (core' \in Effects("aircr") \/ core' = core)
    BY <1>4, <1>5, <1>7, <1>8, <1>14
  <2>3. core' = AtVector(core) \/ core' = core
    BY <2>1, <2>2, EffectOf
  <2>4. core'.halted /\ core'.catch /\ (core'.reset => core'.vector)
    BY <1>1, <2>1, <2>3, CoreOf
  <2>7. Len(rest') = 3
    BY <1>3, <1>14, <2>2
  <2> QED
    BY <2>7, <1>14, <2>1, <2>2, <2>4 DEF HaltAt
<1>15. CASE n = 3
  <2>1. core.catch /\ core.halted /\ ~seen /\ (copy => dirty) /\ (core.reset => core.vector)
    BY <1>18, <1>15 DEF HaltAt
  <2>2. core' \in Effects("poll") \/ core' = core
    BY <1>4, <1>5, <1>8, <1>15 DEF Good, Executed
  <2>3. core' = [core EXCEPT !.reset = FALSE] \/ core' = core
    BY <2>2, EffectOf
  <2>4. core'.halted /\ core'.catch /\ core'.vector = core.vector /\ (core'.reset => core.reset)
    <3>1. CASE core' = core
      BY <2>1, <3>1
    <3>2. CASE core' = [core EXCEPT !.reset = FALSE]
      BY <1>1, <2>1, <3>2, CoreOf
    <3> QED
      BY <2>3, <3>1, <3>2
  <2>7. Len(rest) = 3
    BY <1>18, <1>15
  <2>5. CASE Good
    <3>1. Continue(Answer(Cmd, TRUE))
      BY <2>5 DEF Good
    <3>2. Answer(Cmd, TRUE).reset = core.reset /\ Answer(Cmd, TRUE).halted
      BY <2>1 DEF Answer
    <3>3. /\ copy' = copy /\ seen' = (seen \/ core.reset) /\ rest' = IF seen' THEN After ELSE rest
      BY <1>4, <1>15, <3>1, <3>2, ContinueParts
    <3>4. CASE core.reset
      <4>3. seen' = TRUE
        BY <3>3, <3>4
      <4>1. rest' = After /\ core'.vector
        BY <2>1, <2>4, <3>3, <3>4, <4>3
      <4>2. Len(rest') = 2
        BY <1>3, <1>15, <4>1
      <4>4. copy' = copy
        BY <3>3
      <4>6. core'.halted /\ core'.catch /\ core'.vector /\ (copy' => dirty')
        BY <2>1, <2>4, <4>1, <4>4
      <4>5. HaltAt(Len(rest))'
        BY <4>2, <4>6 DEF HaltAt
      <4> QED
        BY <4>1, <4>5
    <3>5. CASE ~core.reset
      <4>1. rest' = rest /\ ~seen' /\ Len(rest') = 3
        BY <2>7, <2>1, <3>3, <3>5
      <4> QED
        BY <1>15, <2>1, <2>4, <3>3, <3>5, <4>1 DEF HaltAt
    <3> QED
      BY <3>4, <3>5
  <2>6. CASE Failed
    <3>2. rest' = rest /\ UNCHANGED <<copy, seen>>
      BY <1>8, <1>15, <2>6
    <3>1. rest' = rest /\ UNCHANGED <<copy, seen>> /\ Len(rest') = 3
      BY <2>7, <3>2
    <3> QED
      BY <1>15, <2>1, <2>4, <3>1 DEF HaltAt
  <2> QED
    BY <1>5, <2>5, <2>6
<1>16. CASE n = 2
  <2>1. /\ rest' = After /\ seen' = seen /\ dirty' = dirty /\ core' = [core EXCEPT !.catch = copy]
        /\ copy' = copy
    BY <1>4, <1>5, <1>7, <1>8, <1>16, EffectOf
  <2>2. core'.halted = core.halted /\ core'.catch = copy /\ core'.vector = core.vector
    BY <1>1, <2>1, CoreOf DEF Flags
  <2>7. Len(rest') = 1
    BY <1>3, <1>16, <2>1
  <2> QED
    BY <2>7, <1>18, <1>16, <2>1, <2>2 DEF HaltAt
<1>17. CASE n = 1
  <2>1. /\ rest' = After /\ seen' = seen /\ dirty' = dirty /\ core' = core
        /\ copy' = copy
    BY <1>4, <1>5, <1>7, <1>8, <1>17, EffectOf DEF Acting
  <2>7. Len(rest') = 0
    BY <1>3, <1>17, <2>1
  <2> QED
    BY <2>7, <1>18, <1>17, <2>1 DEF HaltAt
<1> QED
  BY <1>10, <1>11, <1>12, <1>13, <1>14, <1>15, <1>16, <1>17

\* The J-Link with an ARM core.
LEMMA HaltJLink ==
  ASSUME BaseInv, driver = "jlink", mode = "arm", op = "reset_and_halt", op' = op,
         Suffix(rest, Whole), HaltAt(Len(rest)), Sending,
         Good \/ Unanswered \/ Failed, UNCHANGED <<driver, mode>>, dirty => dirty'
  PROVE  Suffix(rest', Whole) /\ HaltAt(Len(rest))'
<1> DEFINE n == Len(rest)
<1>1. /\ core \in Cores /\ Flags /\ rest \in Seq(Messages)
  BY TypeParts DEF BaseInv, DataOK
<1>2. Whole' = Whole /\ Whole \in Seq(Messages) /\ Len(Whole) = 8
  <2>1. JResetAndHalt' = JResetAndHalt
    BY DEF JResetAndHalt
  <2> QED
    BY <2>1, WholeIs DEF Whole
<1>3. /\ n \in 1..8 /\ Cmd = Whole[8 - n + 1] /\ Len(After) = n - 1 /\ Suffix(After, Whole)
  BY <1>1, <1>2, SuffixStep DEF Sending, Cmd, After
<1>18. n = Len(rest) /\ HaltAt(n)
  OBVIOUS
<1> HIDE DEF n
<1>4. /\ n = 8 => Cmd.name = "halt"
      /\ n = 7 => Cmd.name = "demcr"
      /\ n = 6 => Cmd.name = "catch"
      /\ n = 5 => Cmd.name = "jreset"
      /\ n = 4 => Cmd.name = "wait"
      /\ n = 3 => Cmd.name = "until_halted"
      /\ n = 2 => Cmd.name = "restore"
      /\ n = 1 => Cmd.name = "write_reg"
  <2>1. /\ n = 8 => Cmd = Whole[1]
        /\ n = 7 => Cmd = Whole[2]
        /\ n = 6 => Cmd = Whole[3]
        /\ n = 5 => Cmd = Whole[4]
        /\ n = 4 => Cmd = Whole[5]
        /\ n = 3 => Cmd = Whole[6]
        /\ n = 2 => Cmd = Whole[7]
        /\ n = 1 => Cmd = Whole[8]
    BY <1>3
  <2> QED
    BY <2>1, WholeIs
<1>5. Good \/ Failed
  BY DEF Unanswered
<1>7. ASSUME Good
      PROVE  /\ dirty' = dirty /\ seen' = seen /\ core' \in Effects(Cmd.name)
             /\ copy' = (IF n = 7 THEN core.catch ELSE copy)
             /\ n \in {1, 2, 5, 6, 7, 8} => rest' = After
             /\ n \in {3, 4} => rest' = After \/ rest' = rest
  <2>1. Continue(Answer(Cmd, TRUE)) /\ core' \in Effects(Cmd.name)
    BY <1>7 DEF Good, Executed
  <2>2. /\ n \in {1, 2, 5, 6, 7, 8} =>
             Cmd.name \notin {"read", "write", "targets", "poll", "wait", "until_halted"}
        /\ n \in {3, 4} => Cmd.name \in {"wait", "until_halted"}
        /\ Cmd.name = "demcr" <=> n = 7
        /\ Cmd.name # "poll"
    BY <1>3, <1>4
  <2>3. Answer(Cmd, TRUE).catch = core.catch
    BY DEF Answer
  <2> QED
    BY <2>1, <2>2, <2>3, ContinueParts
<1>8. ASSUME Failed
      PROVE  /\ n = 4 /\ UNCHANGED <<copy, seen>> /\ rest' = rest
             /\ core' \in Effects(Cmd.name) \/ core' = core
  <2>1. Raises /\ (core' \in Effects(Cmd.name) \/ core' = core)
    BY <1>8 DEF Failed, Executed, Ignored
  <2>2. /\ Cmd.name \in {"aircr", "poll", "wait"} /\ UNCHANGED local
        /\ rest' = (IF Cmd.name = "aircr" THEN After ELSE rest)
    BY <2>1, HaltRaises
  <2>3. n = 4 /\ Cmd.name # "aircr"
    BY <1>3, <1>4, <2>2
  <2> QED
    BY <2>1, <2>2, <2>3 DEF local
<1>9. driver' = "jlink"
  OBVIOUS
<1> USE <1>2, <1>3, <1>9
<1>10. CASE n = 8
  <2>1. /\ rest' = After /\ seen' = seen /\ dirty' = dirty /\ core' = Halted(core)
        /\ copy' = copy
    BY <1>4, <1>5, <1>7, <1>8, <1>10, EffectOf
  <2>2. core'.halted /\ core'.catch = core.catch
    BY <1>1, <2>1, CoreOf
  <2>3. Len(rest') = 7
    BY <1>10, <2>1
  <2>8. (core.catch => dirty) /\ ~seen
    BY <1>10, <1>18 DEF HaltAt
  <2>9. (core'.catch => dirty') /\ ~seen' /\ core'.halted
    BY <2>8, <2>1, <2>2
  <2>10. HaltAt(Len(rest))'
    BY <2>3, <2>9 DEF HaltAt
  <2> QED
    BY <2>1, <2>10
<1>11. CASE n = 7
  <2>1. /\ rest' = After /\ seen' = seen /\ dirty' = dirty /\ core' = core
        /\ copy' = core.catch
    BY <1>4, <1>5, <1>7, <1>8, <1>11, EffectOf DEF Acting
  <2>2. Len(rest') = 6
    BY <1>11, <2>1
  <2>8. (core.catch => dirty) /\ ~seen /\ core.halted
    BY <1>11, <1>18 DEF HaltAt
  <2>9. (core'.catch => dirty') /\ (copy' => dirty') /\ ~seen' /\ core'.halted
    BY <2>8, <2>1
  <2>10. HaltAt(Len(rest))'
    BY <2>2, <2>9 DEF HaltAt
  <2> QED
    BY <2>1, <2>10
<1>12. CASE n = 6
  <2>1. /\ rest' = After /\ seen' = seen /\ dirty' = dirty /\ core' = [core EXCEPT !.catch = TRUE]
        /\ copy' = copy
    BY <1>4, <1>5, <1>7, <1>8, <1>12, EffectOf
  <2>2. core'.halted = core.halted /\ core'.catch = TRUE
    BY <1>1, <2>1, CoreOf
  <2>3. Len(rest') = 5
    BY <1>12, <2>1
  <2>8. (copy => dirty) /\ ~seen /\ core.halted
    BY <1>12, <1>18 DEF HaltAt
  <2>9. (copy' => dirty') /\ ~seen' /\ core'.halted /\ core'.catch
    BY <2>8, <2>1, <2>2
  <2>10. HaltAt(Len(rest))'
    BY <2>3, <2>9 DEF HaltAt
  <2> QED
    BY <2>1, <2>10
<1>13. CASE n = 5
  <2>1. core.catch /\ (copy => dirty) /\ ~seen
    BY <1>13, <1>18 DEF HaltAt
  <2>2. /\ rest' = After /\ seen' = seen /\ core' = AtVector(core) /\ copy' = copy
    BY <1>4, <1>5, <1>7, <1>8, <1>13, <2>1, EffectOf
  <2>3. core'.halted /\ core'.catch /\ core'.vector
    BY <1>1, <2>1, <2>2, CoreOf
  <2>4. Len(rest') = 4
    BY <1>13, <2>2
  <2> QED
    BY <2>1, <2>2, <2>3, <2>4 DEF HaltAt
<1>14. CASE n = 4
  <2>1. core.catch /\ core.halted /\ core.vector /\ ~seen /\ (copy => dirty)
    BY <1>14, <1>18 DEF HaltAt
  <2>2. /\ rest' = After \/ rest' = rest
        /\ seen' = seen /\ copy' = copy /\ (core' \in Effects("wait") \/ core' = core)
    BY <1>4, <1>5, <1>7, <1>8, <1>14
  <2>3. core' = [core EXCEPT !.reset = FALSE] \/ core' = core
    BY <2>2, EffectOf
  <2>4. core'.halted /\ core'.catch /\ core'.vector
    <3>1. CASE core' = core
      BY <2>1, <3>1
    <3>2. CASE core' = [core EXCEPT !.reset = FALSE]
      BY <1>1, <2>1, <3>2, CoreOf
    <3> QED
      BY <2>3, <3>1, <3>2
  <2>5. Len(rest) = 4 /\ Len(After) = 3
    BY <1>14, <1>18
  <2>6. CASE rest' = After
    <3>1. Len(rest') = 3
      BY <2>5, <2>6
    <3> QED
      BY <2>1, <2>2, <2>4, <2>6, <3>1 DEF HaltAt
  <2>7. CASE rest' = rest
    <3>1. Len(rest') = 4
      BY <2>5, <2>7
    <3> QED
      BY <2>1, <2>2, <2>4, <2>7, <3>1 DEF HaltAt
  <2> QED
    BY <2>2, <2>6, <2>7
<1>15. CASE n = 3
  <2>1. core.catch /\ core.halted /\ core.vector /\ ~seen /\ (copy => dirty)
    BY <1>15, <1>18 DEF HaltAt
  <2>2. /\ rest' = After \/ rest' = rest
        /\ seen' = seen /\ copy' = copy /\ core' = core
    BY <1>4, <1>5, <1>7, <1>8, <1>15, EffectOf DEF Acting
  <2>5. Len(rest) = 3 /\ Len(After) = 2
    BY <1>15, <1>18
  <2>6. CASE rest' = After
    <3>1. Len(rest') = 2
      BY <2>5, <2>6
    <3> QED
      BY <2>1, <2>2, <2>6, <3>1 DEF HaltAt
  <2>7. CASE rest' = rest
    <3>1. Len(rest') = 3
      BY <2>5, <2>7
    <3> QED
      BY <2>1, <2>2, <2>7, <3>1 DEF HaltAt
  <2> QED
    BY <2>2, <2>6, <2>7
<1>16. CASE n = 2
  <2>1. /\ rest' = After /\ seen' = seen /\ dirty' = dirty /\ core' = [core EXCEPT !.catch = copy]
        /\ copy' = copy
    BY <1>4, <1>5, <1>7, <1>8, <1>16, EffectOf
  <2>2. core'.halted = core.halted /\ core'.catch = copy /\ core'.vector = core.vector
    BY <1>1, <2>1, CoreOf DEF Flags
  <2>3. Len(rest') = 1
    BY <1>16, <2>1
  <2>8. (copy => dirty) /\ core.vector /\ core.halted
    BY <1>16, <1>18 DEF HaltAt
  <2>9. (core'.catch => dirty') /\ core'.vector /\ core'.halted
    BY <2>8, <2>1, <2>2
  <2>10. HaltAt(Len(rest))'
    BY <2>3, <2>9 DEF HaltAt
  <2> QED
    BY <2>1, <2>10
<1>17. CASE n = 1
  <2>1. /\ rest' = After /\ seen' = seen /\ dirty' = dirty /\ core' = core
        /\ copy' = copy
    BY <1>4, <1>5, <1>7, <1>8, <1>17, EffectOf DEF Acting
  <2>2. Len(rest') = 0
    BY <1>17, <2>1
  <2> QED
    BY <1>17, <1>18, <2>1, <2>2 DEF HaltAt
<1> QED
  BY <1>10, <1>11, <1>12, <1>13, <1>14, <1>15, <1>16, <1>17

\* OpenOCD, and the J-Link with a RISC-V core, have one command for it.
LEMMA HaltOne ==
  ASSUME BaseInv, driver = "openocd" \/ (driver = "jlink" /\ mode = "rv"),
         op = "reset_and_halt", op' = op,
         Suffix(rest, Whole), HaltAt(Len(rest)), Sending,
         Good \/ Unanswered \/ Failed, UNCHANGED <<driver, mode>>, dirty => dirty'
  PROVE  Suffix(rest', Whole) /\ HaltAt(Len(rest))'
<1> DEFINE n == Len(rest)
<1>1. /\ core \in Cores /\ Flags /\ rest \in Seq(Messages)
  BY TypeParts DEF BaseInv, DataOK
<1>2. /\ Whole' = Whole /\ Whole \in Seq(Messages) /\ Len(Whole) = 1
      /\ Whole[1].name = "reset_halt" \/ (Whole[1].name = "jreset" /\ mode = "rv")
  <2>1. JResetAndHalt' = JResetAndHalt
    BY DEF JResetAndHalt
  <2>2. Whole' = Whole
    BY <2>1 DEF Whole
  <2> QED
    BY <2>2, WholeIs
<1>3. n = 1 /\ Cmd = Whole[1] /\ Len(After) = 0 /\ Suffix(After, Whole)
  BY <1>1, <1>2, SuffixStep DEF Sending, Cmd, After
<1>4. HaltAt(1)
  BY <1>3
<1> HIDE DEF n
<1>5. Cmd.name = "reset_halt" \/ (Cmd.name = "jreset" /\ mode = "rv")
  BY <1>2, <1>3
<1>6. Good
  <2>1. ~Failed
    BY <1>5, HaltRaises DEF Failed
  <2> QED
    BY <2>1 DEF Unanswered
<1>7. Continue(Answer(Cmd, TRUE)) /\ core' \in Effects(Cmd.name)
  BY <1>6 DEF Good, Executed
<1>8. rest' = After /\ dirty' = dirty
  BY <1>5, <1>7, ContinueParts
<1>9. core' = AtVector(core)
  BY <1>5, <1>7, EffectOf
<1>10. core'.vector /\ core'.catch = core.catch
  BY <1>1, <1>9, CoreOf
<1>11. Len(rest') = 0
  BY <1>3, <1>8
<1> QED
  BY <1>2, <1>3, <1>4, <1>8, <1>10, <1>11 DEF HaltAt

LEMMA HaltWait ==
  ASSUME BaseInv, op = "reset_and_halt", Suffix(rest, Whole), HaltAt(Len(rest)), WaitTimesOut
  PROVE  Suffix(rest, Whole)' /\ HaltAt(Len(rest))'
<1> DEFINE n == Len(rest)
<1>1. /\ rest \in Seq(Messages) /\ driver \in {"stlink", "openocd", "jlink"} /\ mode \in {"arm", "rv"}
  BY TypeParts, DirectProbeAssumption DEF BaseInv, DataOK
<1>2. /\ Sending /\ Cmd.name = "wait" /\ rest' = After
      /\ UNCHANGED <<driver, mode, copy, seen, core, dirty>>
  BY DEF WaitTimesOut, object, local, target, ghosts
<1>3. Whole' = Whole /\ Whole \in Seq(Messages)
  <2>1. JResetAndHalt' = JResetAndHalt
    BY <1>2 DEF JResetAndHalt
  <2> QED
    BY <1>2, <2>1, WholeIs DEF Whole
<1>4. /\ n \in 1..Len(Whole) /\ Cmd = Whole[Len(Whole) - n + 1] /\ Len(After) = n - 1
      /\ Suffix(After, Whole)
  BY <1>1, <1>2, <1>3, SuffixStep DEF Sending, Cmd, After
<1>5. n = Len(rest) /\ HaltAt(n)
  OBVIOUS
<1> HIDE DEF n
<1>6. CASE Len(Whole) = 1
  <2>1. Cmd = Whole[1]
    BY <1>4, <1>6
  <2> QED
    BY <1>1, <1>2, <1>6, <2>1, WholeIs
<1>7. CASE Len(Whole) = 8
  <2>1. /\ n = 8 => Cmd = Whole[1]
        /\ n = 7 => Cmd = Whole[2]
        /\ n = 6 => Cmd = Whole[3]
        /\ n = 5 => Cmd = Whole[4]
        /\ n = 4 => Cmd = Whole[5]
        /\ n = 3 => Cmd = Whole[6]
        /\ n = 2 => Cmd = Whole[7]
        /\ n = 1 => Cmd = Whole[8]
        /\ n \in 1..8
    BY <1>4, <1>7
  <2>2. n = 4 /\ driver = "jlink"
    <3>1. CASE driver = "stlink"
      BY <1>2, <2>1, <3>1, WholeIs
    <3>2. CASE driver = "openocd"
      BY <1>7, <3>2, WholeIs
    <3>3. CASE driver = "jlink"
      <4>1. mode = "arm"
        BY <1>7, <3>3, WholeIs
      <4> QED
        BY <1>2, <2>1, <3>3, <4>1, WholeIs
    <3> QED
      BY <1>1, <3>1, <3>2, <3>3
  <2>3. core.catch /\ core.halted /\ core.vector /\ ~seen /\ (copy => dirty)
    BY <1>5, <1>7, <2>2 DEF HaltAt
  <2>4. Len(rest') = 3
    BY <1>2, <1>4, <2>2
  <2>5. HaltAt(Len(rest))'
    BY <1>2, <1>3, <2>2, <2>3, <2>4 DEF HaltAt
  <2>6. Suffix(rest, Whole)'
    BY <1>2, <1>3, <1>4
  <2> QED
    BY <2>5, <2>6
<1> QED
  BY <1>1, <1>6, <1>7, WholeIs

LEMMA StepHalt ==
  ASSUME BaseInv, HaltInv, [Next]_vars
  PROVE  HaltInv'
<1> SUFFICES ASSUME op' = "reset_and_halt", ~Excused'
             PROVE  Suffix(rest, Whole)' /\ HaltAt(Len(rest))'
  BY DEF HaltInv
<1>1. driver \in {"stlink", "openocd", "jlink"} /\ mode \in {"arm", "rv"} /\ core \in Cores /\ Flags
  BY TypeParts, DirectProbeAssumption DEF BaseInv
<1>2. CASE User
  <2>1. Call
    BY <1>2 DEF User, Open, Close, Begin
  <2>2. PICK name \in DOMAIN Commands : \E request : Begin(name, Commands[name], request)
    BY <2>1 DEF Call
  <2>3. /\ op = "none" /\ name = "reset_and_halt" /\ rest' = Commands[name] /\ seen' = FALSE
        /\ UNCHANGED <<driver, mode, core, dirty>>
    BY <2>2 DEF Begin
  <2>4. Whole' = Whole /\ rest' = Whole /\ Whole \in Seq(Messages)
    <3>1. JResetAndHalt' = JResetAndHalt
      BY <2>3 DEF JResetAndHalt
    <3> QED
      BY <2>3, <3>1, WholeIs DEF Whole
  <2>5. core.catch => dirty
    BY <2>3 DEF BaseInv, CalmInv
  <2>6. Len(Whole) = 8 \/ Len(Whole) = 1
    BY <1>1, WholeIs
  <2>7. HaltAt(Len(rest))'
    <3>1. CASE Len(Whole) = 8
      <4>1. Len(rest') = 8
        BY <2>4, <3>1
      <4> QED
        BY <2>3, <2>4, <2>5, <3>1, <4>1 DEF HaltAt
    <3>2. CASE Len(Whole) = 1
      <4>1. Len(rest') = 1
        BY <2>4, <3>2
      <4> QED
        BY <2>3, <2>4, <2>5, <3>2, <4>1 DEF HaltAt
    <3> QED
      BY <2>6, <3>1, <3>2
  <2> QED
    BY <2>4, <2>7, SuffixSelf
<1>3. CASE Return \/ PollTimesOut
  BY <1>3 DEF Return, PollTimesOut
<1>4. CASE Exchange
  <2>1. ~unseen' /\ ~behind' /\ ~moved'
    BY DEF Excused
  <2>2. /\ Sending /\ op # "none" /\ (Good \/ Unanswered \/ Failed)
        /\ UNCHANGED <<driver, mode, moved>> /\ ~unseen /\ ~behind
    BY <1>4, <2>1, CleanExchange
  <2>3. op = "reset_and_halt" /\ op' = op
    BY <1>4, ExchangeBase
  <2>4. dirty => dirty'
    <3>1. Good \/ Unanswered => dirty' = dirty
      BY ContinueParts DEF Good, Unanswered
    <3>2. Failed => (dirty => dirty')
      BY DEF Failed, Raises
    <3> QED
      BY <2>2, <3>1, <3>2
  <2>5. Suffix(rest, Whole) /\ HaltAt(Len(rest))
    BY <2>1, <2>2, <2>3 DEF HaltInv, Excused
  <2>6. Suffix(rest', Whole) /\ HaltAt(Len(rest))'
    <3>1. CASE driver = "stlink"
      BY <2>2, <2>3, <2>4, <2>5, <3>1, HaltStLink
    <3>2. CASE driver = "openocd" \/ (driver = "jlink" /\ mode = "rv")
      BY <2>2, <2>3, <2>4, <2>5, <3>2, HaltOne
    <3>3. CASE driver = "jlink" /\ mode = "arm"
      BY <2>2, <2>3, <2>4, <2>5, <3>3, HaltJLink
    <3> QED
      BY <1>1, <3>1, <3>2, <3>3
  <2>7. Whole' = Whole
    <3>1. JResetAndHalt' = JResetAndHalt
      BY <2>2 DEF JResetAndHalt
    <3> QED
      BY <2>2, <3>1 DEF Whole
  <2> QED
    BY <2>6, <2>7
<1>5. CASE WaitTimesOut
  <2>1. op = "reset_and_halt" /\ ~Excused
    BY <1>5 DEF WaitTimesOut, ghosts, Excused
  <2> QED
    BY <1>5, <2>1, HaltWait DEF HaltInv
<1>6. CASE CoreStops \/ CoreResets
  BY <1>6 DEF CoreStops, CoreResets, Excused, object
<1>7. CASE UNCHANGED vars
  <2>1. UNCHANGED <<driver, mode, op, rest, copy, seen, core, unseen, behind, moved, dirty>>
    BY <1>7 DEF vars, object, local, target, ghosts
  <2>2. Whole' = Whole
    <3>1. JResetAndHalt' = JResetAndHalt
      BY <2>1 DEF JResetAndHalt
    <3> QED
      BY <2>1, <3>1 DEF Whole
  <2>3. Suffix(rest, Whole) /\ HaltAt(Len(rest))
    BY <2>1 DEF HaltInv, Excused
  <2>4. HaltAt(Len(rest))'
    BY <2>1, <2>2, <2>3 DEF HaltAt
  <2> QED
    BY <2>1, <2>2, <2>3, <2>4
<1> QED
  BY <1>2, <1>3, <1>4, <1>5, <1>6, <1>7 DEF Next

LEMMA CatchReturns == BaseInv /\ HaltInv => CatchReturned
<1> SUFFICES ASSUME BaseInv, HaltInv, op = "reset_and_halt", rest = <<>>, ~Excused
             PROVE  core.catch => dirty
  BY DEF CatchReturned
<1>1. HaltAt(0)
  BY DEF HaltInv
<1> QED
  BY <1>1 DEF HaltAt

LEMMA StepBase ==
  ASSUME BaseInv, HaltInv, [Next]_vars
  PROVE  BaseInv'
  BY UserBase, ReturnBase, ExchangeBase, OtherBase, CatchReturns DEF Next

-----------------------------------------------------------------------------
(* reset: whichever way it takes, the core is let run.                      *)

ResetInv ==
  op = "reset" /\ driver # "jlink" /\ ~Excused /\ ~dirty =>
    \/ /\ driver = "stlink"
       /\ \E c \in {DriveNrst, WriteDebugReg("aircr")} : rest = <<c, ReadDebugReg("wait")>>
    \/ driver = "openocd" /\ rest = <<Line("reset_run")>>
    \/ rest = <<ReadDebugReg("wait")>> /\ ~core.halted
    \/ rest = <<>> /\ ~core.halted

LEMMA Tuples ==
  /\ \A a : Head(<<a>>) = a /\ Tail(<<a>>) = <<>> /\ <<a>> # <<>>
  /\ \A a, b : Head(<<a, b>>) = a /\ Tail(<<a, b>>) = <<b>> /\ <<a, b>> # <<>>
  /\ \A a, b, c : Head(<<a, b, c>>) = a /\ Tail(<<a, b, c>>) = <<b, c>> /\ <<a, b, c>> # <<>>
  /\ \A a, b : <<a>> \o <<b>> = <<a, b>>
  /\ \A a, b, c : <<a>> \o <<b>> \o <<c>> = <<a, b, c>>
<1>1. \A a : Head(<<a>>) = a /\ Tail(<<a>>) = <<>> /\ <<a>> # <<>>
  OBVIOUS
<1>2. \A a, b : Head(<<a, b>>) = a /\ Tail(<<a, b>>) = <<b>> /\ <<a, b>> # <<>>
  OBVIOUS
<1>3. \A a, b, c : Head(<<a, b, c>>) = a /\ Tail(<<a, b, c>>) = <<b, c>> /\ <<a, b, c>> # <<>>
  OBVIOUS
<1>4. \A a, b : <<a>> \o <<b>> = <<a, b>>
  <2> TAKE a, b
  <2>1. <<a>> \in Seq({a, b}) /\ <<b>> \in Seq({a, b}) /\ <<a, b>> \in Seq({a, b})
    OBVIOUS
  <2>2. Len(<<a>>) = 1 /\ <<a>>[1] = a /\ Len(<<b>>) = 1 /\ <<b>>[1] = b
        /\ Len(<<a, b>>) = 2 /\ <<a, b>>[1] = a /\ <<a, b>>[2] = b
    OBVIOUS
  <2> DEFINE s == <<a>> \o <<b>>
  <2>3. s \in Seq({a, b}) /\ Len(s) = 2 /\ s[1] = a /\ s[2] = b
    BY <2>1, <2>2, ConcatProperties
  <2> HIDE DEF s
  <2>4. \A i \in 1..Len(s) : s[i] = <<a, b>>[i]
    BY <2>2, <2>3
  <2>5. s = <<a, b>>
    BY <2>1, <2>2, <2>3, <2>4, SeqEqual
  <2> QED
    BY <2>5 DEF s
<1>5. \A a, b, c : <<a>> \o <<b>> \o <<c>> = <<a, b, c>>
  <2> TAKE a, b, c
  <2>1. /\ <<a, b>> \in Seq({a, b, c}) /\ <<c>> \in Seq({a, b, c})
        /\ <<a, b, c>> \in Seq({a, b, c})
    OBVIOUS
  <2>2. /\ Len(<<a, b>>) = 2 /\ <<a, b>>[1] = a /\ <<a, b>>[2] = b /\ Len(<<c>>) = 1 /\ <<c>>[1] = c
        /\ Len(<<a, b, c>>) = 3 /\ <<a, b, c>>[1] = a /\ <<a, b, c>>[2] = b /\ <<a, b, c>>[3] = c
    OBVIOUS
  <2> DEFINE s == <<a, b>> \o <<c>>
  <2>3. s \in Seq({a, b, c}) /\ Len(s) = 3 /\ s[1] = a /\ s[2] = b /\ s[3] = c
    BY <2>1, <2>2, ConcatProperties
  <2> HIDE DEF s
  <2>4. \A i \in 1..Len(s) : s[i] = <<a, b, c>>[i]
    BY <2>2, <2>3
  <2>5. s = <<a, b, c>>
    BY <2>1, <2>2, <2>3, <2>4, SeqEqual
  <2> QED
    BY <1>4, <2>5 DEF s
<1> QED
  BY <1>1, <1>2, <1>3, <1>4, <1>5

LEMMA Fields ==
  \A n : /\ WriteDebugReg(n).name = n /\ WriteDebugReg(n).checked /\ WriteDebugReg(n).bytes # 0
         /\ ReadDebugReg(n).name = n /\ ReadDebugReg(n).checked /\ ReadDebugReg(n).bytes # 0
         /\ Status(n).name = n /\ Status(n).checked /\ Status(n).bytes # 0
         /\ Line(n).name = n
         /\ DriveNrst.name = "nrst" /\ ~DriveNrst.checked /\ DriveNrst.bytes # 0
  BY DEF WriteDebugReg, ReadDebugReg, Status, Line, DriveNrst, Command

LEMMA DirtyKept ==
  ASSUME Good \/ Unanswered \/ Failed
  PROVE  dirty => dirty'
<1>1. Good \/ Unanswered => dirty' = dirty
  BY ContinueParts DEF Good, Unanswered
<1>2. Failed => (dirty => dirty')
  BY DEF Failed, Raises
<1> QED
  BY <1>1, <1>2

LEMMA ResetExchange ==
  ASSUME BaseInv, ResetInv, op = "reset", op' = op, driver # "jlink", driver' = driver, ~Excused,
         ~dirty, Sending, Good \/ Unanswered \/ Failed
  PROVE  \/ /\ driver = "stlink"
            /\ \E c \in {DriveNrst, WriteDebugReg("aircr")} : rest' = <<c, ReadDebugReg("wait")>>
         \/ rest' = <<ReadDebugReg("wait")>> /\ ~core'.halted
         \/ rest' = <<>> /\ ~core'.halted
<1>1. core \in Cores /\ ~core.catch /\ driver \in {"stlink", "openocd", "jlink"}
  BY TypeParts, DirectProbeAssumption DEF BaseInv, CalmInv
<1>2. Good => Continue(Answer(Cmd, TRUE)) /\ core' \in Effects(Cmd.name)
  BY DEF Good, Executed
<1>3. Failed => Raises /\ (core' \in Effects(Cmd.name) \/ core' = core)
  BY DEF Failed, Executed, Ignored
<1>4. rest # <<>>
  BY DEF Sending
<1>5. ASSUME NEW c \in {DriveNrst, WriteDebugReg("aircr")}, driver = "stlink",
             rest = <<c, ReadDebugReg("wait")>>
      PROVE  \/ \E d \in {DriveNrst, WriteDebugReg("aircr")} : rest' = <<d, ReadDebugReg("wait")>>
             \/ rest' = <<ReadDebugReg("wait")>> /\ ~core'.halted
  <2>1. Cmd = c /\ After = <<ReadDebugReg("wait")>> /\ Cmd.bytes # 0
        /\ Cmd.name \in {"nrst", "aircr"} /\ (Cmd.name = "nrst" \/ Cmd.name # "nrst")
    BY <1>5, Tuples, Fields DEF Cmd, After
  <2>2. Good \/ Failed
    BY <2>1 DEF Unanswered
  <2>3. CASE Good
    <3>1. rest' = After
      BY <1>2, <2>1, <2>3, ContinueParts
    <3>2. core' \in Effects("nrst") \/ core' \in Effects("aircr")
      BY <1>2, <2>1, <2>3
    <3>3. core' = [Restarted(core) EXCEPT !.catch = FALSE] \/ core' = Restarted(core)
      <4>1. CASE core' \in Effects("nrst")
        BY <4>1, EffectOf
      <4>2. CASE core' \in Effects("aircr")
        <5>1. Effects("aircr") = {Restarted(core)}
          BY <1>1, EffectOf
        <5> QED
          BY <4>2, <5>1
      <4> QED
        BY <3>2, <4>1, <4>2
    <3>4. ~core'.halted
      <4>1. CASE core' = Restarted(core)
        BY <1>1, <4>1, CoreOf
      <4>2. CASE core' = [Restarted(core) EXCEPT !.catch = FALSE]
        <5>1. [Restarted(core) EXCEPT !.catch = FALSE].halted = FALSE
          BY <1>1, CoreOf
        <5> QED
          BY <4>2, <5>1
      <4> QED
        BY <3>3, <4>1, <4>2
    <3> QED
      BY <2>1, <3>1, <3>4
  <2>4. CASE Failed
    <3>1. Caught
      BY <1>3, <2>4 DEF Raises
    <3>2. Cmd.name = "nrst"
      BY <2>1, <3>1 DEF Caught
    <3>3. rest' = <<WriteDebugReg("aircr")>> \o After
      BY <1>3, <2>4, <3>1, <3>2 DEF Raises, Handled
    <3> QED
      BY <2>1, <3>3, Tuples
  <2> QED
    BY <2>2, <2>3, <2>4
<1>6. ASSUME driver = "openocd", rest = <<Line("reset_run")>>
      PROVE  rest' = <<>> /\ ~core'.halted
  <2>1. Cmd.name = "reset_run" /\ After = <<>>
    BY <1>6, Tuples, Fields DEF Cmd, After
  <2>2. ~Failed
    BY <1>3, <2>1 DEF Raises, Caught
  <2>3. Good
    BY <1>6, <2>2 DEF Unanswered
  <2>4. rest' = <<>>
    BY <1>2, <2>1, <2>3, ContinueParts
  <2>5. core' = Restarted(core)
    BY <1>2, <2>1, <2>3, EffectOf
  <2> QED
    BY <1>1, <2>4, <2>5, CoreOf
<1>7. ASSUME rest = <<ReadDebugReg("wait")>>, ~core.halted
      PROVE  (rest' = rest \/ rest' = <<>>) /\ ~core'.halted
  <2>1. Cmd.name = "wait" /\ After = <<>> /\ Cmd.checked /\ Cmd.bytes # 0
    BY <1>7, Tuples, Fields DEF Cmd, After
  <2>2. Good \/ Failed
    BY <2>1 DEF Unanswered
  <2>3. rest' = rest \/ rest' = After
    <3>1. CASE Good
      BY <1>2, <2>1, <3>1, ContinueParts
    <3>2. CASE Failed
      <4>1. Handled
        BY <1>3, <2>1, <3>2 DEF Raises, Caught
      <4> QED
        BY <2>1, <4>1 DEF Handled
    <3> QED
      BY <2>2, <3>1, <3>2
  <2>4. core' = core \/ core' = [core EXCEPT !.reset = FALSE]
    BY <1>2, <1>3, <2>1, <2>2, EffectOf
  <2>5. ~core'.halted
    <3>1. CASE core' = core
      BY <1>7, <3>1
    <3>2. CASE core' = [core EXCEPT !.reset = FALSE]
      BY <1>1, <1>7, <3>2, CoreOf
    <3> QED
      BY <2>4, <3>1, <3>2
  <2> QED
    BY <2>1, <2>3, <2>5
<1> QED
  BY <1>4, <1>5, <1>6, <1>7 DEF ResetInv

LEMMA ResetCommands ==
  /\ driver = "stlink" => Commands["reset"] = <<DriveNrst, ReadDebugReg("wait")>>
  /\ driver = "openocd" => Commands["reset"] = <<Line("reset_run")>>
<1>1. ASSUME driver = "stlink"
      PROVE  Commands["reset"] = <<DriveNrst, ReadDebugReg("wait")>>
  <2>1. Commands["reset"] = StReset
    BY <1>1 DEF Commands, StCmds
  <2> QED
    BY <2>1 DEF StReset
<1>2. ASSUME driver = "openocd"
      PROVE  Commands["reset"] = <<Line("reset_run")>>
  BY <1>2 DEF Commands, OcdCmds
<1> QED
  BY <1>1, <1>2

LEMMA StepReset ==
  ASSUME BaseInv, ResetInv, [Next]_vars
  PROVE  ResetInv'
<1> SUFFICES ASSUME op' = "reset", driver' # "jlink", ~Excused', ~dirty'
             PROVE  \/ /\ driver' = "stlink"
                       /\ \E c \in {DriveNrst, WriteDebugReg("aircr")} :
                            rest' = <<c, ReadDebugReg("wait")>>
                    \/ driver' = "openocd" /\ rest' = <<Line("reset_run")>>
                    \/ rest' = <<ReadDebugReg("wait")>> /\ ~core'.halted
                    \/ rest' = <<>> /\ ~core'.halted
  BY DEF ResetInv
<1>1. driver \in {"stlink", "openocd", "jlink"} /\ core \in Cores /\ Flags
  BY TypeParts, DirectProbeAssumption DEF BaseInv
<1>2. CASE User
  <2>1. Call
    BY <1>2 DEF User, Open, Close, Begin
  <2>2. PICK name \in DOMAIN Commands : \E request : Begin(name, Commands[name], request)
    BY <2>1 DEF Call
  <2>3. name = "reset" /\ rest' = Commands[name] /\ driver' = driver
    BY <2>2 DEF Begin
  <2> QED
    BY <1>1, <2>3, ResetCommands
<1>3. CASE Return \/ PollTimesOut
  BY <1>3 DEF Return, PollTimesOut
<1>4. CASE Exchange
  <2>1. ~unseen' /\ ~behind' /\ ~moved'
    BY DEF Excused
  <2>2. /\ Sending /\ op # "none" /\ (Good \/ Unanswered \/ Failed)
        /\ UNCHANGED <<driver, moved>> /\ ~unseen /\ ~behind
    BY <1>4, <2>1, CleanExchange
  <2>3. op = "reset" /\ op' = op
    BY <1>4, ExchangeBase
  <2>4. ~dirty /\ ~Excused
    BY <2>1, <2>2, DirtyKept DEF Excused
  <2> QED
    BY <2>2, <2>3, <2>4, ResetExchange
<1>5. CASE WaitTimesOut
  <2>1. Sending /\ Cmd.name = "wait" /\ rest' = After
        /\ UNCHANGED <<driver, op, core, unseen, behind, moved, dirty>>
    BY <1>5 DEF WaitTimesOut, object, target, ghosts
  <2>2. ASSUME NEW c \in {DriveNrst, WriteDebugReg("aircr")},
               rest = <<c, ReadDebugReg("wait")>>
        PROVE  FALSE
    <3>1. Cmd = c
      BY <2>2, Tuples DEF Cmd
    <3> QED
      BY <2>1, <3>1, Fields
  <2>3. rest # <<Line("reset_run")>> /\ rest # <<>>
    BY <2>1, Tuples, Fields DEF Cmd, Sending
  <2>4. rest = <<ReadDebugReg("wait")>> /\ ~core.halted
    BY <2>1, <2>2, <2>3 DEF ResetInv, Excused
  <2> QED
    BY <2>1, <2>4, Tuples DEF After
<1>6. CASE CoreStops \/ CoreResets
  BY <1>6 DEF CoreStops, CoreResets, Excused, object
<1>7. CASE UNCHANGED vars
  <2>1. UNCHANGED <<driver, op, rest, core, unseen, behind, moved, dirty>>
    BY <1>7 DEF vars, object, local, target, ghosts
  <2> QED
    BY <2>1 DEF ResetInv, Excused
<1> QED
  BY <1>2, <1>3, <1>4, <1>5, <1>6, <1>7 DEF Next

-----------------------------------------------------------------------------
(* read, write, read_core_type: what is written, and whether the core runs.  *)

Accesses == {"read", "write", "core_type"}

Body == CASE op = "read" -> ReadPiece [] op = "write" -> WritePiece [] OTHER -> Line("read_reg")

\* A write so far: all that lies behind is written, or the probe knows better.
Writing ==
  /\ at \in Nat /\ left \in Nat /\ asked[1] \in Nat /\ asked[2] \in Nat
  /\ at + left = asked[1] + asked[2] /\ asked[1] <= at
  /\ status => written = asked[1]..(at - 1)
  /\ driver # "stlink" => status
Pending == op = "write" => Writing /\ left > 0
Done == op = "write" => Writing /\ left = 0

\* Without halt and go around it, or with them.
Same == ~moved => (core.halted <=> ~ran)
Restart == driver # "stlink" /\ (~moved => ran)

AccessInv ==
  op \in Accesses /\ ~unseen /\ ~behind =>
    \/ rest = <<Line("targets"), Body>> /\ driver # "stlink" /\ Pending /\ Same
    \/ rest = <<Line("halt"), Body, Line("go")>> /\ Pending /\ Restart
    \/ rest = <<Body, Line("go")>> /\ Pending /\ Restart
    \/ rest = <<Line("go")>> /\ Done /\ Restart
    \/ rest = <<Body, RwStatus>> /\ driver = "stlink" /\ op = "write" /\ Pending /\ Same
    \/ rest = <<Body>> /\ ~(driver = "stlink" /\ op = "write") /\ Pending /\ Same
    \/ rest = <<RwStatus>> /\ driver = "stlink" /\ op = "write" /\ Done /\ Same
    \/ rest = <<>> /\ Done /\ Same /\ (op = "write" => status)

LEMMA Interval ==
  \A a, n \in Nat : {a + i : i \in 0..(n - 1)} = a..(a + n - 1)
<1> TAKE a, n \in Nat
<1>1. \A x \in a..(a + n - 1) : x - a \in 0..(n - 1) /\ x = a + (x - a)
  OBVIOUS
<1>2. \A i \in 0..(n - 1) : a + i \in a..(a + n - 1)
  OBVIOUS
<1> QED
  BY <1>1, <1>2

LEMMA Pieces ==
  ASSUME at \in Nat, left \in Nat, left > 0
  PROVE  PieceSize \in 1..left /\ Stored(PieceSize) = at..(at + PieceSize - 1)
<1>1. Max32 \in Nat \ {0} /\ Max32 % 4 = 0 /\ Max8 \in Nat \ {0} /\ MaxItems \in Nat \ {0}
  BY DirectProbeAssumption
<1>2. \A a, b \in Nat \ {0} : Less(a, b) \in Nat \ {0} /\ Less(a, b) <= a /\ Less(a, b) <= b
                              /\ (Less(a, b) = a \/ Less(a, b) = b)
  BY DEF Less
<1>3. PieceSize \in 1..left /\ (driver = "stlink" /\ Wide => PieceSize % 4 = 0)
  <2>1. CASE driver = "stlink" /\ Wide
    <3> DEFINE words == left - (left % 4)
    <3>1. left >= 4
      BY <2>1 DEF Wide
    <3>2. words \in Nat \ {0} /\ words <= left /\ words % 4 = 0
      BY <3>1
    <3>3. PieceSize = Less(words, Max32)
      BY <2>1 DEF PieceSize
    <3> HIDE DEF words
    <3> QED
      BY <1>1, <1>2, <3>2, <3>3
  <2>2. CASE driver = "stlink" /\ ~Wide
    <3>1. PieceSize = Less(left, Max8)
      BY <2>2 DEF PieceSize
    <3> QED
      BY <1>1, <1>2, <2>2, <3>1
  <2>3. CASE driver = "openocd"
    <3>1. PieceSize = Less(MaxItems, left)
      BY <2>3 DEF PieceSize
    <3> QED
      BY <1>1, <1>2, <2>3, <3>1
  <2>4. CASE driver \notin {"stlink", "openocd"}
    BY <2>4 DEF PieceSize
  <2> QED
    BY <2>1, <2>2, <2>3, <2>4
<1> DEFINE size == PieceSize
<1>4. size \in 1..left /\ size \in Nat /\ (driver = "stlink" /\ Wide => size % 4 = 0)
  BY <1>3
<1> HIDE DEF size
<1>5. Stored(size) = {at + i : i \in 0..(size - 1)}
  <2>1. (IF driver = "stlink" /\ Wide THEN size - (size % 4) ELSE size) = size
    BY <1>4
  <2> QED
    BY <2>1 DEF Stored
<1>6. Stored(size) = at..(at + size - 1)
  BY <1>4, <1>5, Interval
<1> QED
  BY <1>3, <1>6 DEF size

LEMMA PieceTaken ==
  ASSUME NEW a, Continue(a), Cmd.name \in {"read", "write"}
  PROVE  /\ at' = at + PieceSize /\ left' = left - PieceSize
         /\ rest' = IF left = PieceSize THEN After ELSE rest
<1>1. InPiece
  BY DEF InPiece
<1>2. NextPiece
  BY <1>1 DEF Continue
<1> QED
  BY <1>2 DEF NextPiece

LEMMA BodyIs ==
  /\ op = "read" => Body.name = "read" /\ Body.bytes = Max32
  /\ op = "write" => Body.name = "write" /\ (driver = "stlink" => Body.bytes = 0)
  /\ op = "core_type" => Body.name = "read_reg"
<1>1. op = "read" => Body = ReadPiece
  BY DEF Body
<1>2. op = "write" => Body = WritePiece
  BY DEF Body
<1>3. op = "core_type" => Body = Line("read_reg")
  BY DEF Body
<1> QED
  BY <1>1, <1>2, <1>3 DEF ReadPiece, WritePiece, Line, Command

\* Nothing that these operations send is caught when it fails.
LEMMA AccessGoesOn ==
  ASSUME op \in Accesses, op' = op, Cmd.name \notin {"poll", "wait"},
         Good \/ Unanswered \/ Failed
  PROVE  Good \/ Unanswered
<1>1. ~Caught
  BY DEF Caught, Accesses
<1>2. Failed => op' = "none"
  BY <1>1 DEF Failed, Raises
<1> QED
  BY <1>2 DEF Accesses

LEMMA BodyStep ==
  ASSUME BaseInv, op \in Accesses, op' = op, driver' = driver, asked' = asked,
         Cmd = Body, Pending, Good \/ Unanswered \/ Failed
  PROVE  /\ core' = core
         /\ (rest' = rest /\ Pending') \/ (rest' = After /\ Done')
<1>1. Cmd.name \in {"read", "write", "read_reg"}
  BY BodyIs DEF Accesses
<1>2. Good \/ Unanswered
  BY <1>1, AccessGoesOn
<1>3. Executed(Cmd) => core' = core
  <2>1. Effects(Cmd.name) = {core}
    BY <1>1, EffectOf DEF Acting
  <2> QED
    BY <2>1 DEF Executed
<1>4. core' = core
  BY <1>2, <1>3 DEF Good, Unanswered, Ignored
<1>5. PICK a : Continue(a)
  BY <1>2 DEF Good, Unanswered
<1>6. CASE op # "write"
  <2>1. rest' = rest \/ rest' = After
    <3>1. CASE Cmd.name = "read_reg"
      BY <1>5, <3>1, ContinueParts
    <3>2. CASE Cmd.name \in {"read", "write"}
      BY <1>5, <3>2, PieceTaken
    <3> QED
      BY <1>1, <3>1, <3>2
  <2> QED
    BY <1>4, <1>6, <2>1 DEF Pending, Done
<1>7. CASE op = "write"
  <2>1. Cmd.name = "write" /\ (driver = "stlink" => Cmd.bytes = 0)
    BY <1>7, BodyIs
  <2>2. Writing /\ left > 0
    BY <1>7 DEF Pending
  <2>3. at \in Nat /\ left \in Nat /\ asked[1] \in Nat /\ asked[2] \in Nat
        /\ at + left = asked[1] + asked[2] /\ asked[1] <= at
        /\ (status => written = asked[1]..(at - 1)) /\ (driver # "stlink" => status)
    BY <2>2 DEF Writing
  <2>4. PieceSize \in 1..left /\ Stored(PieceSize) = at..(at + PieceSize - 1)
    BY <2>2, <2>3, Pieces
  <2>5. /\ at' = at + PieceSize /\ left' = left - PieceSize
        /\ rest' = IF left = PieceSize THEN After ELSE rest
    BY <1>5, <2>1, PieceTaken
  <2> DEFINE size == PieceSize
             store == Stored(PieceSize)
  <2>6. size \in 1..left /\ store = at..(at + size - 1) /\ at' = at + size /\ left' = left - size
        /\ rest' = IF left = size THEN After ELSE rest
    BY <2>4, <2>5
  <2>7. Good \/ Unanswered
    BY <1>2
  <2>8. Good => status' = TRUE /\ written' = written \union store
    BY <2>1 DEF Good, Executed
  <2>9. Unanswered => status' = FALSE /\ driver = "stlink"
    BY <2>1 DEF Unanswered, Ignored
  <2>10. Good => status
    BY <2>1, <2>3 DEF Good
  <2> HIDE DEF size, store
  <2>11. Good => written' = asked[1]..(at' - 1)
    <3> SUFFICES ASSUME Good
                 PROVE  written' = asked[1]..(at' - 1)
      OBVIOUS
    <3>1. written' = (asked[1]..(at - 1)) \union (at..(at + size - 1))
      BY <2>3, <2>6, <2>8, <2>10
    <3>2. (asked[1]..(at - 1)) \union (at..(at + size - 1)) = asked[1]..(at + size - 1)
      <4> DEFINE first == asked[1]
      <4>1. first \in Nat /\ first <= at /\ size \in Nat /\ size >= 1
        BY <2>3, <2>6
      <4> HIDE DEF first
      <4>2. (first..(at - 1)) \union (at..(at + size - 1)) = first..(at + size - 1)
        BY <2>3, <4>1
      <4> QED
        BY <4>2 DEF first
    <3>3. at' - 1 = at + size - 1
      <4>1. at' = at + size /\ at \in Nat /\ size \in Nat
        BY <2>3, <2>6
      <4> QED
        BY <4>1
    <3> QED
      BY <3>1, <3>2, <3>3
  <2>12. /\ at' \in Nat /\ left' \in Nat /\ at' + left' = at + left /\ at <= at'
         /\ left = size => left' = 0
         /\ left # size => left' > 0
    BY <2>3, <2>6
  <2>13. Writing'
    <3>1. asked[1] <= at'
      BY <2>3, <2>12
    <3>2. at' + left' = asked[1] + asked[2]
      BY <2>3, <2>12
    <3>3. /\ status' => written' = asked[1]..(at' - 1)
          /\ driver # "stlink" => status'
      BY <2>7, <2>8, <2>9, <2>11
    <3> QED
      BY <2>3, <2>12, <3>1, <3>2, <3>3 DEF Writing
  <2> QED
    BY <1>4, <1>7, <2>6, <2>12, <2>13 DEF Pending, Done
<1> QED
  BY <1>6, <1>7

\* What one command of an access makes of its eight stages.
LEMMA AccessExchange ==
  ASSUME BaseInv, AccessInv, op \in Accesses, op' = op, ~unseen, ~behind, Sending,
         UNCHANGED <<driver, firmware, ran, asked, moved>>,
         Good \/ Unanswered \/ Failed
  PROVE  \/ rest' = <<Line("halt"), Body, Line("go")>> /\ Pending' /\ Restart'
         \/ rest' = <<Body, Line("go")>> /\ Pending' /\ Restart'
         \/ rest' = <<Line("go")>> /\ Done' /\ Restart'
         \/ rest' = <<Body, RwStatus>> /\ driver = "stlink" /\ op = "write" /\ Pending' /\ Same'
         \/ rest' = <<Body>> /\ ~(driver = "stlink" /\ op = "write") /\ Pending' /\ Same'
         \/ rest' = <<RwStatus>> /\ driver = "stlink" /\ op = "write" /\ Done' /\ Same'
         \/ rest' = <<>> /\ Done' /\ Same' /\ (op = "write" => status')
<1>1. core \in Cores /\ Flags
  BY TypeParts DEF BaseInv
<1>2. rest # <<>>
  BY DEF Sending
<1>3. Good => Continue(Answer(Cmd, TRUE)) /\ Executed(Cmd)
  BY DEF Good
<1>4. ASSUME Cmd.name \in {"targets", "halt", "go", "rw_status"}, Cmd.bytes # 0,
             Cmd.checked \/ driver # "stlink"
      PROVE  /\ Good /\ status' = status /\ written' = written /\ UNCHANGED <<at, left>>
             /\ core' \in Effects(Cmd.name)
  <2>1. Good \/ Unanswered
    BY <1>4, AccessGoesOn
  <2>2. Good
    BY <1>4, <2>1 DEF Unanswered
  <2>3. status' = status /\ written' = written /\ core' \in Effects(Cmd.name)
    BY <1>3, <1>4, <2>2 DEF Executed
  <2>4. UNCHANGED <<at, left>>
    BY <1>3, <1>4, <2>2, ContinueParts
  <2> QED
    BY <2>2, <2>3, <2>4
<1>5. ASSUME status' = status, written' = written, UNCHANGED <<at, left>>
      PROVE  Pending' = Pending /\ Done' = Done
  <2>1. Writing' = Writing
    BY <1>5 DEF Writing
  <2> QED
    BY <1>5, <2>1 DEF Pending, Done
<1>6. ASSUME core' = core
      PROVE  Same' = Same
  BY <1>6 DEF Same
<1>7. Restart' = Restart
  BY DEF Restart
<1>8. ASSUME rest = <<Line("targets"), Body>>, driver # "stlink", Pending, Same
      PROVE  \/ rest' = <<Line("halt"), Body, Line("go")>> /\ Pending' /\ Restart'
             \/ rest' = <<Body>> /\ ~(driver = "stlink" /\ op = "write") /\ Pending' /\ Same'
  <2>1. Cmd.name = "targets" /\ Cmd.bytes # 0 /\ After = <<Body>>
    BY <1>8, Tuples, Fields DEF Cmd, After, Line, Command
  <2>2. Good /\ status' = status /\ written' = written /\ UNCHANGED <<at, left>> /\ core' = core
    <3>1. Effects("targets") = {core}
      BY EffectOf DEF Acting
    <3> QED
      BY <1>4, <1>8, <2>1, <3>1
  <2>3. Wrapped(Answer(Cmd, TRUE))
    BY <1>3, <2>1, <2>2, ContinueParts
  <2>4. Answer(Cmd, TRUE).halted <=> core.halted
    BY <2>1 DEF Answer
  <2>5. CASE core.halted
    <3>1. rest' = After
      BY <2>3, <2>4, <2>5 DEF Wrapped
    <3> QED
      BY <1>5, <1>6, <1>8, <2>1, <2>2, <3>1
  <2>6. CASE ~core.halted
    <3>1. rest' = <<Line("halt")>> \o After \o <<Line("go")>>
      BY <2>3, <2>4, <2>6 DEF Wrapped
    <3>2. Restart
      BY <1>8, <2>6 DEF Restart, Same
    <3> QED
      BY <1>5, <1>7, <1>8, <2>1, <2>2, <3>1, <3>2, Tuples
  <2> QED
    BY <2>5, <2>6
<1>9. ASSUME rest = <<Line("halt"), Body, Line("go")>>, Pending, Restart
      PROVE  rest' = <<Body, Line("go")>> /\ Pending' /\ Restart'
  <2>1. Cmd.name = "halt" /\ Cmd.bytes # 0 /\ After = <<Body, Line("go")>>
    <3>1. Cmd = Line("halt") /\ After = <<Body, Line("go")>>
      BY <1>9, Tuples DEF Cmd, After
    <3>2. Line("halt").name = "halt" /\ Line("halt").bytes = 1
      BY DEF Line, Command
    <3> QED
      BY <3>1, <3>2
  <2>2. Good /\ status' = status /\ written' = written /\ UNCHANGED <<at, left>>
    BY <1>4, <1>9, <2>1 DEF Restart
  <2>3. rest' = After
    BY <1>3, <2>1, <2>2, ContinueParts
  <2> QED
    BY <1>5, <1>7, <1>9, <2>1, <2>2, <2>3
<1>10. ASSUME rest = <<Body, Line("go")>>, Pending, Restart
       PROVE  \/ rest' = <<Body, Line("go")>> /\ Pending' /\ Restart'
              \/ rest' = <<Line("go")>> /\ Done' /\ Restart'
  <2>1. Cmd = Body /\ After = <<Line("go")>>
    BY <1>10, Tuples DEF Cmd, After
  <2>2. (rest' = rest /\ Pending') \/ (rest' = After /\ Done')
    BY <1>10, <2>1, BodyStep
  <2> QED
    BY <1>7, <1>10, <2>1, <2>2
<1>11. ASSUME rest = <<Line("go")>>, Done, Restart
       PROVE  rest' = <<>> /\ Done' /\ Same' /\ (op = "write" => status')
  <2>1. Cmd.name = "go" /\ Cmd.bytes # 0 /\ After = <<>>
    BY <1>11, Tuples, Fields DEF Cmd, After, Line, Command
  <2>2. /\ Good /\ status' = status /\ written' = written /\ UNCHANGED <<at, left>>
        /\ core' = Running(core)
    <3>1. Effects("go") = {Running(core)}
      BY EffectOf
    <3> QED
      BY <1>4, <1>11, <2>1, <3>1 DEF Restart
  <2>3. rest' = After
    BY <1>3, <2>1, <2>2, ContinueParts
  <2>4. core'.halted = FALSE
    BY <1>1, <2>2, CoreOf
  <2>5. Same'
    BY <1>11, <2>4 DEF Same, Restart
  <2>6. op = "write" => status
    BY <1>11 DEF Done, Writing, Restart
  <2> QED
    BY <1>5, <1>11, <2>1, <2>2, <2>3, <2>5, <2>6
<1>12. ASSUME rest = <<Body, RwStatus>>, driver = "stlink", op = "write", Pending, Same
       PROVE  \/ rest' = <<Body, RwStatus>> /\ Pending' /\ Same'
              \/ rest' = <<RwStatus>> /\ Done' /\ Same'
  <2>1. Cmd = Body /\ After = <<RwStatus>>
    BY <1>12, Tuples DEF Cmd, After
  <2>2. core' = core /\ ((rest' = rest /\ Pending') \/ (rest' = After /\ Done'))
    BY <1>12, <2>1, BodyStep
  <2> QED
    BY <1>6, <1>12, <2>1, <2>2
<1>13. ASSUME rest = <<Body>>, ~(driver = "stlink" /\ op = "write"), Pending, Same
       PROVE  \/ rest' = <<Body>> /\ Pending' /\ Same'
              \/ rest' = <<>> /\ Done' /\ Same' /\ (op = "write" => status')
  <2>1. Cmd = Body /\ After = <<>>
    BY <1>13, Tuples DEF Cmd, After
  <2>2. core' = core /\ ((rest' = rest /\ Pending') \/ (rest' = After /\ Done'))
    BY <1>13, <2>1, BodyStep
  <2>3. Done' /\ op = "write" => status'
    BY <1>13 DEF Done, Writing
  <2> QED
    BY <1>6, <1>13, <2>1, <2>2, <2>3
<1>14. ASSUME rest = <<RwStatus>>, driver = "stlink", op = "write", Done, Same
       PROVE  rest' = <<>> /\ Done' /\ Same' /\ (op = "write" => status')
  <2>1. Cmd = RwStatus /\ After = <<>>
    BY <1>14, Tuples DEF Cmd, After
  <2>2. Cmd.name = "rw_status" /\ Cmd.bytes # 0 /\ Cmd.checked
    BY <2>1 DEF RwStatus, Command
  <2>3. Good /\ status' = status /\ written' = written /\ UNCHANGED <<at, left>> /\ core' = core
    <3>1. Effects("rw_status") = {core}
      BY EffectOf DEF Acting
    <3> QED
      BY <1>4, <2>2, <3>1
  <2>4. rest' = After /\ status
    BY <1>3, <1>14, <2>2, <2>3, ContinueParts DEF Good
  <2> QED
    BY <1>5, <1>6, <1>14, <2>1, <2>3, <2>4
<1> QED
  BY <1>2, <1>8, <1>9, <1>10, <1>11, <1>12, <1>13, <1>14 DEF AccessInv

LEMMA AccessBegins ==
  ASSUME BaseInv, NEW name \in DOMAIN Commands, name \in Accesses,
         NEW request \in IF name \in {"read", "write"} THEN Requests ELSE {<<0, 0>>},
         Begin(name, Commands[name], request)
  PROVE  \/ rest' = <<Line("targets"), Body'>> /\ driver' # "stlink" /\ Pending' /\ Same'
         \/ /\ rest' = <<Body', RwStatus'>> /\ driver' = "stlink" /\ op' = "write"
            /\ Pending' /\ Same'
         \/ rest' = <<Body'>> /\ ~(driver' = "stlink" /\ op' = "write") /\ Pending' /\ Same'
<1>1. core \in Cores /\ Flags /\ driver \in {"stlink", "openocd", "jlink"}
  BY TypeParts, DirectProbeAssumption DEF BaseInv
<1>2. /\ op' = name /\ rest' = Commands[name] /\ asked' = request
      /\ at' = request[1] /\ left' = request[2] /\ written' = {} /\ status' = TRUE
      /\ ran' = ~core.halted /\ UNCHANGED <<driver, firmware, core>>
  BY DEF Begin
<1>3. Same'
  <2>1. core.halted \in BOOLEAN
    BY <1>1 DEF Cores
  <2> QED
    BY <1>2, <2>1 DEF Same
<1>4. Pending'
  <2> SUFFICES ASSUME name = "write"
               PROVE  Writing' /\ left' > 0
    BY <1>2 DEF Pending
  <2>1. request[1] \in Nat /\ request[2] \in Nat \ {0}
    BY DirectProbeAssumption
  <2> DEFINE first == request[1]
             count == request[2]
  <2>2. first \in Nat /\ count \in Nat \ {0} /\ at' = first /\ left' = count
        /\ asked'[1] = first /\ asked'[2] = count
    BY <1>2, <2>1
  <2> HIDE DEF first, count
  <2>3. first..(first - 1) = {}
    BY <2>2
  <2>4. written' = asked'[1]..(at' - 1)
    BY <1>2, <2>2, <2>3
  <2> QED
    BY <1>2, <2>2, <2>4 DEF Writing
<1>5. RwStatus' = RwStatus /\ WritePiece' = WritePiece /\ ReadPiece' = ReadPiece
  BY <1>2 DEF RwStatus, WritePiece, ReadPiece
<1>6. Body' = IF name = "read" THEN ReadPiece ELSE IF name = "write" THEN WritePiece
              ELSE Line("read_reg")
  BY <1>2, <1>5 DEF Body
<1>7. CASE driver = "stlink"
  <2>1. Commands = StCmds
    BY <1>7 DEF Commands
  <2>2. StCmds["read"] = <<ReadPiece>> /\ StCmds["write"] = StWrite /\ "core_type" \notin DOMAIN StCmds
    BY DEF StCmds
  <2>3. name \in {"read", "write"}
    BY <2>1, <2>2 DEF Accesses
  <2>4. name = "read" => rest' = <<Body'>>
    BY <1>2, <1>6, <2>1, <2>2
  <2>5. name = "write" => rest' = <<Body', RwStatus'>>
    BY <1>2, <1>5, <1>6, <2>1, <2>2 DEF StWrite
  <2> QED
    BY <1>2, <1>3, <1>4, <1>7, <2>3, <2>4, <2>5
<1>8. CASE driver = "openocd"
  <2>1. Commands = OcdCmds
    BY <1>8 DEF Commands
  <2>2. /\ OcdCmds["read"] = Asking(<<ReadPiece>>) /\ OcdCmds["write"] = Asking(<<WritePiece>>)
        /\ OcdCmds["core_type"] = Asking(<<Line("read_reg")>>)
    BY DEF OcdCmds
  <2>3. Commands[name] = Asking(<<Body'>>)
    BY <1>6, <2>1, <2>2 DEF Accesses
  <2>4. rest' = <<Line("targets"), Body'>>
    BY <1>2, <2>3, Tuples DEF Asking
  <2> QED
    BY <1>2, <1>3, <1>4, <1>8, <2>4
<1>9. CASE driver = "jlink"
  <2>1. Commands = JCmds
    BY <1>9 DEF Commands
  <2>2. /\ JCmds["read"] = <<ReadPiece>> /\ JCmds["write"] = <<WritePiece>>
        /\ JCmds["core_type"] = Asking(<<Line("read_reg")>>)
    BY DEF JCmds
  <2>3. name \in {"read", "write"} => rest' = <<Body'>>
    BY <1>2, <1>6, <2>1, <2>2
  <2>4. name = "core_type" => rest' = <<Line("targets"), Body'>>
    BY <1>2, <1>6, <2>1, <2>2, Tuples DEF Asking
  <2> QED
    BY <1>2, <1>3, <1>4, <1>9, <2>3, <2>4 DEF Accesses
<1> QED
  BY <1>1, <1>7, <1>8, <1>9

LEMMA StepAccess ==
  ASSUME BaseInv, AccessInv, [Next]_vars
  PROVE  AccessInv'
<1> SUFFICES ASSUME op' \in Accesses, ~unseen', ~behind'
             PROVE  AccessInv'
  BY DEF AccessInv
<1>1. CASE User
  <2>1. Call
    BY <1>1 DEF User, Open, Close, Begin, Accesses
  <2>2. PICK name \in DOMAIN Commands :
          \E request \in IF name \in {"read", "write"} THEN Requests ELSE {<<0, 0>>} :
            Begin(name, Commands[name], request)
    BY <2>1 DEF Call
  <2>3. name \in Accesses
    BY <2>2 DEF Begin
  <2> QED
    BY <2>2, <2>3, AccessBegins DEF AccessInv
<1>2. CASE Return \/ PollTimesOut
  BY <1>2 DEF Return, PollTimesOut, Accesses
<1>3. CASE Exchange
  <2>1. /\ Sending /\ op # "none" /\ (Good \/ Unanswered \/ Failed)
        /\ UNCHANGED <<driver, firmware, ran, asked, moved>> /\ ~unseen /\ ~behind
    BY <1>3, CleanExchange
  <2>2. op' = op /\ op \in Accesses
    BY <1>3, ExchangeBase DEF Accesses
  <2>3. RwStatus' = RwStatus /\ Body' = Body
    <3>1. WritePiece' = WritePiece /\ ReadPiece' = ReadPiece
      BY <2>1 DEF WritePiece, ReadPiece
    <3> QED
      BY <2>1, <2>2, <3>1 DEF RwStatus, Body
  <2> QED
    BY <2>1, <2>2, <2>3, AccessExchange DEF AccessInv
<1>4. CASE WaitTimesOut
  <2>1. /\ Sending /\ Cmd.name = "wait"
        /\ UNCHANGED <<op, unseen, behind>>
    BY <1>4 DEF WaitTimesOut, object, ghosts
  <2>2. Body.name \in {"read", "write", "read_reg"} /\ RwStatus.name = "rw_status"
    BY <2>1, BodyIs DEF RwStatus, Command, Accesses
  <2>3. Cmd \in {Line("targets"), Line("halt"), Line("go"), Body, RwStatus}
    BY <2>1, Tuples DEF AccessInv, Cmd, Sending
  <2> QED
    BY <2>1, <2>2, <2>3, Fields
<1>5. CASE CoreStops \/ CoreResets
  <2>1. /\ UNCHANGED <<driver, firmware, op, rest, at, left, written, status, ran, asked, unseen, behind>>
        /\ moved' = (op # "none")
    BY <1>5 DEF CoreStops, CoreResets, object, local
  <2>2. moved'
    BY <2>1 DEF Accesses
  <2>3. RwStatus' = RwStatus /\ Body' = Body /\ Pending' = Pending /\ Done' = Done
    <3>1. WritePiece' = WritePiece /\ ReadPiece' = ReadPiece /\ Writing' = Writing
      BY <2>1 DEF WritePiece, ReadPiece, Writing
    <3> QED
      BY <2>1, <3>1 DEF RwStatus, Body, Pending, Done
  <2>4. Same' /\ (Restart => Restart')
    BY <2>1, <2>2 DEF Same, Restart
  <2> QED
    BY <2>1, <2>3, <2>4 DEF AccessInv
<1>6. CASE UNCHANGED vars
  <2>1. UNCHANGED <<driver, firmware, op, rest, at, left, core, written, status, ran, asked, unseen,
                    behind, moved>>
    BY <1>6 DEF vars, object, local, target, ghosts
  <2>2. RwStatus' = RwStatus /\ Body' = Body /\ Pending' = Pending /\ Done' = Done
    <3>1. WritePiece' = WritePiece /\ ReadPiece' = ReadPiece /\ Writing' = Writing
      BY <2>1 DEF WritePiece, ReadPiece, Writing
    <3> QED
      BY <2>1, <3>1 DEF RwStatus, Body, Pending, Done
  <2>3. Same' = Same /\ Restart' = Restart
    BY <2>1 DEF Same, Restart
  <2> QED
    BY <2>1, <2>2, <2>3 DEF AccessInv
<1> QED
  BY <1>1, <1>2, <1>3, <1>4, <1>5, <1>6 DEF Next

-----------------------------------------------------------------------------
(* The theorems.                                                           *)

IInv == BaseInv /\ HaltInv /\ ResetInv /\ AccessInv

LEMMA Invariance == Spec => []IInv
<1>1. Init => IInv
  <2>1. ASSUME Init
        PROVE  BaseInv /\ op = "none"
    BY <2>1, InitBase DEF Init
  <2> QED
    BY <2>1 DEF IInv, HaltInv, ResetInv, AccessInv, Accesses
<1>2. IInv /\ [Next]_vars => IInv'
  BY StepBase, StepHalt, StepReset, StepAccess DEF IInv
<1> QED
  BY <1>1, <1>2, PTL DEF Spec

\* Whatever the probe, the server or the DLL does, and in whatever order the
\* answers come, the variables keep their types.
THEOREM TypeCorrect == Spec => []TypeOK
<1>1. IInv => TypeOK
  BY DEF IInv, BaseInv
<1> QED
  BY <1>1, Invariance, PTL

\* reset_and_halt of all three drivers returns only with the core at its reset
\* vector, and reset only with the core running, unless a failure nobody looked
\* at, a late answer or the core itself came in between.
THEOREM ResetsNamed == Spec => ResetsDoAsNamed
<1>1. IInv => (Return /\ op = "reset_and_halt" => core.vector \/ unseen \/ behind \/ moved)
  <2> SUFFICES ASSUME IInv, Return, op = "reset_and_halt", ~(unseen \/ behind \/ moved)
               PROVE  core.vector
    OBVIOUS
  <2>1. rest = <<>>
    BY DEF Return
  <2>2. HaltAt(Len(rest)) /\ Len(rest) = 0
    BY <2>1 DEF IInv, HaltInv, Excused
  <2> QED
    BY <2>2 DEF HaltAt
<1>2. IInv => (Return /\ op = "reset" /\ driver # "jlink"
                 => ~core.halted \/ dirty \/ unseen \/ behind \/ moved)
  <2> SUFFICES ASSUME IInv, Return, op = "reset", driver # "jlink",
                      ~(dirty \/ unseen \/ behind \/ moved)
               PROVE  ~core.halted
    OBVIOUS
  <2>1. rest = <<>>
    BY DEF Return
  <2> QED
    BY <2>1, Tuples DEF IInv, ResetInv, Excused
<1>3. Spec => StopsAtVector
  BY <1>1, Invariance, PTL DEF StopsAtVector
<1>4. Spec => ResetLetsRun
  BY <1>2, Invariance, PTL DEF ResetLetsRun
<1> QED
  BY <1>3, <1>4 DEF ResetsDoAsNamed

\* write_mem_U8 and write_mem_ of every driver: what returns has written the
\* bytes asked for and no other, for every address, length and piece size.
THEOREM WritesExact == Spec => WriteIsExact
<1>1. IInv => (Return /\ op = "write" /\ ~(unseen \/ behind)
                 => written = {asked[1] + i : i \in 0..(asked[2] - 1)})
  <2> SUFFICES ASSUME IInv, Return, op = "write", ~unseen, ~behind
               PROVE  written = {asked[1] + i : i \in 0..(asked[2] - 1)}
    OBVIOUS
  <2>1. rest = <<>>
    BY DEF Return
  <2>2. Done /\ status
    BY <2>1, Tuples DEF IInv, AccessInv, Accesses
  <2>3. /\ at \in Nat /\ left = 0 /\ asked[1] \in Nat /\ asked[2] \in Nat
        /\ at + left = asked[1] + asked[2] /\ written = asked[1]..(at - 1)
    BY <2>2 DEF Done, Writing
  <2> DEFINE first == asked[1]
             count == asked[2]
  <2>4. first \in Nat /\ count \in Nat /\ at = first + count /\ written = first..(at - 1)
    BY <2>3
  <2> HIDE DEF first, count
  <2>5. written = {first + i : i \in 0..(count - 1)}
    <3>1. {first + i : i \in 0..(count - 1)} = first..(first + count - 1)
      BY <2>4, Interval
    <3> QED
      BY <2>4, <3>1
  <2> QED
    BY <2>5 DEF first, count
<1> QED
  BY <1>1, Invariance, PTL DEF WriteIsExact

\* halt_required and read_core_type: an access leaves a running core running
\* and a halted one halted.
THEOREM RunStateSafe == Spec => RunStateKept
<1>1. IInv => (Return /\ op \in {"read", "write", "core_type"} /\ ~(unseen \/ behind \/ moved)
                 => core.halted = ~ran)
  <2> SUFFICES ASSUME IInv, Return, op \in {"read", "write", "core_type"},
                      ~unseen, ~behind, ~moved
               PROVE  core.halted = ~ran
    OBVIOUS
  <2>1. rest = <<>>
    BY DEF Return
  <2>2. Same
    BY <2>1, Tuples DEF IInv, AccessInv, Accesses
  <2>3. core.halted \in BOOLEAN /\ ran \in BOOLEAN
    BY TypeParts DEF IInv, BaseInv, Flags, Cores
  <2> QED
    BY <2>2, <2>3 DEF Same
<1> QED
  BY <1>1, Invariance, PTL DEF RunStateKept
=============================================================================
