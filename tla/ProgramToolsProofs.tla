------------------------- MODULE ProgramToolsProofs -------------------------
(***************************************************************************)
(* What the deny list refuses it refuses with more words after it and in   *)
(* every order of the arguments, and no tool runs a command that it        *)
(* refuses; an answer of notes_list, notes_search or get_system_info hides *)
(* nothing; and git_status says of every change that git printed what it   *)
(* is, while notes_write sees every conflict.                              *)
(***************************************************************************)
EXTENDS ProgramTools, WellFoundedInduction, FiniteSetTheorems, TLAPS

--------------------------------------------------------------------------
(* The deny list itself.                                                   *)

\* An argument that is there is there, whatever follows it.
LEMMA SomeGrows ==
    ASSUME NEW S, NEW w \in Seq(S), NEW k \in 1..Len(w), NEW words,
           Some(SubSeq(w, 1, k), words)
    PROVE  Some(w, words)
<1> DEFINE start == SubSeq(w, 1, k)
<1>1. start \in Seq(S) /\ Len(start) = k /\ \A i \in 1..k : start[i] = w[i]
  OBVIOUS
<1>2. PICK i \in 2..Len(start) : start[i] \in words
  BY DEF Some
<1>3. i \in 2..Len(w) /\ w[i] \in words
  BY <1>1, <1>2
<1>. QED
  BY <1>3 DEF Some

LEMMA ProgramKept ==
    ASSUME NEW S, NEW w \in Seq(S), NEW k \in 1..Len(w)
    PROVE  Program(SubSeq(w, 1, k)) = Program(w)
<1>1. Len(SubSeq(w, 1, k)) = k /\ SubSeq(w, 1, k)[1] = w[1]
  OBVIOUS
<1>2. SubSeq(w, 1, k) # <<>> /\ w # <<>>
  BY <1>1
<1>. QED
  BY <1>1, <1>2 DEF Program

\* Flags and paths count wherever they stand: what is refused stays refused when its
\* arguments come in another order, some of them twice, or with others among them
\* (_check_deny_tokenize).
THEOREM DeniedInAnyOrder ==
    ASSUME NEW c, NEW d, Program(c) = Program(d),
           \A words : Some(c, words) => Some(d, words),
           DenyTokenize(c)
    PROVE  DenyTokenize(d)
  BY DEF DenyTokenize, DangerousRm, DangerousChownChmod, DangerousDd, DangerousMv,
         DangerousKill, DangerousMkfs

LEMMA TokenizeGrows ==
    ASSUME NEW S, NEW w \in Seq(S), NEW k \in 1..Len(w), DenyTokenize(SubSeq(w, 1, k))
    PROVE  DenyTokenize(w)
  BY ProgramKept, SomeGrows, DeniedInAnyOrder

\* Every pattern but the one for "init 0" is open at its end (_DENY_REGEX).
LEMMA RegexGrows ==
    ASSUME NEW S, NEW w \in Seq(S), NEW k \in 1..Len(w),
           DenyRegex(SubSeq(w, 1, k)), ~InitRunlevel(SubSeq(w, 1, k))
    PROVE  DenyRegex(w)
<1> DEFINE start == SubSeq(w, 1, k)
<1>1. Len(start) = k /\ \A i \in 1..k : start[i] = w[i]
  OBVIOUS
<1>2. k \in Nat /\ Len(w) \in Nat /\ k <= Len(w)
  OBVIOUS
<1>3. Program(start) = Program(w)
  BY ProgramKept
<1> HIDE DEF start
<1>4. CASE \E i \in 1..Len(start) : start[i] = ":(){:|:&};:"
  <2>1. PICK i \in 1..k : start[i] = ":(){:|:&};:"
    BY <1>1, <1>4
  <2>2. start[i] = w[i] /\ i \in 1..Len(w)
    BY <1>1, <1>2
  <2>. QED
    BY <2>1, <2>2, Zenon DEF DenyRegex
<1>5. CASE \E i, j \in 1..Len(start) : /\ i < j /\ j < Len(start) /\ start[i] \in Downloaders
                                       /\ start[j] = "|" /\ start[j + 1] \in Interpreters
  <2>1. PICK i \in 1..k, j \in 1..k : /\ i < j /\ j < k /\ start[i] \in Downloaders
                                      /\ start[j] = "|" /\ start[j + 1] \in Interpreters
    BY <1>1, <1>5
  <2>2. start[i] = w[i] /\ start[j] = w[j] /\ start[j + 1] = w[j + 1]
    BY <1>1, <1>2, <2>1
  <2>3. i \in 1..Len(w) /\ j \in 1..Len(w) /\ j < Len(w)
    BY <1>2, <2>1
  <2>. QED
    BY <2>1, <2>2, <2>3 DEF DenyRegex
<1>6. CASE \E i \in 1..Len(start) : i < Len(start) /\ start[i] = ">" /\ start[i + 1] \in System
  <2>1. PICK i \in 1..k : i < k /\ start[i] = ">" /\ start[i + 1] \in System
    BY <1>1, <1>6
  <2>2. start[i] = w[i] /\ start[i + 1] = w[i + 1]
    BY <1>1, <1>2, <2>1
  <2>3. i \in 1..Len(w) /\ i < Len(w)
    BY <1>2, <2>1
  <2>. QED
    BY <2>1, <2>2, <2>3 DEF DenyRegex
<1>7. CASE Program(start) \in PowerCommands
  BY <1>3, <1>7 DEF DenyRegex
<1>8. CASE Program(start) = "systemctl" /\ Len(start) >= 2 /\ start[2] \in PowerUnits
  <2>1. Len(w) >= 2 /\ start[2] = w[2]
    BY <1>1, <1>2, <1>8
  <2>. QED
    BY <1>3, <1>8, <2>1 DEF DenyRegex
<1>9. DenyRegex(start) /\ ~InitRunlevel(start)
  BY DEF start
<1>. QED
  BY <1>4, <1>5, <1>6, <1>7, <1>8, <1>9 DEF DenyRegex

\* More words after a refused command do not make it one that passes - but for
\* "init 0" (check_deny_list; SECURITY.md has "rm -rf / --verbose" as its example).
THEOREM DeniedGrows ==
    ASSUME NEW S, NEW w \in Seq(S), NEW k \in 1..Len(w),
           Listed(SubSeq(w, 1, k)), ~InitRunlevel(SubSeq(w, 1, k))
    PROVE  Listed(w)
  BY TokenizeGrows, RegexGrows DEF Listed

--------------------------------------------------------------------------
(* The tools.                                                              *)

Fields == {"pc", "tool", "req", "answer", "ran"}

\* A command passes the deny list before its program runs, and nothing that comes
\* later makes it another command.
Checked ==
    /\ Fields \subseteq DOMAIN call
    /\ At("gate") /\ Is(ExecTools) => call.req \in Commands
    /\ call.ran \/ (At("run") /\ Is(ExecTools)) => call.req \in Commands /\ PassesDenyList(call.req)
    /\ call.ran => call.answer # ""

\* A step that leaves the request alone and does not come to the program.
Aside ==
    /\ DOMAIN call' = DOMAIN call
    /\ call'.tool = call.tool /\ call'.req = call.req /\ call'.ran = call.ran
    /\ call'.answer = call.answer \/ call'.answer # ""
    /\ call'.pc # "gate" /\ (call'.pc = "run" => call.pc = "run")

LEMMA AsideChecked == Checked /\ Aside => Checked'
  BY DEF Checked, Aside, At, Is

LEMMA InitChecked == Init => Checked
<1> SUFFICES ASSUME Init
             PROVE  Checked
  OBVIOUS
<1>1. call.pc = "idle" /\ ~call.ran /\ Fields \subseteq DOMAIN call
  BY DEF Init, Fields
<1>. QED
  BY <1>1 DEF Checked, At

LEMMA StartChecked ==
    ASSUME Checked, NEW tool \in Tools, NEW req \in Requests(tool), Start(tool, req)
    PROVE  Checked'
<1>1. tool \in ExecTools => req \in Commands
  BY DEF Requests, ExecTools
<1>2. ~call.ran
  BY DEF Checked, Start
<1>3. /\ DOMAIN call' = DOMAIN call
      /\ call'.pc \in {"list", "gate"}
      /\ call'.tool = tool /\ call'.req = req /\ call'.ran = call.ran
  BY DEF Checked, Fields, Start
<1>. QED
  BY <1>1, <1>2, <1>3 DEF Checked, At, Is

LEMMA GatedChecked == Checked /\ Gated => Checked'
<1> SUFFICES ASSUME Checked, Gated
             PROVE  Checked'
  OBVIOUS
<1> DEFINE open == CASE Is({"run_tests"}) -> PassesDenyList(call.req)
                     [] Is({"run_command"}) -> \E w \in Whitelists : PassesCommand(call.req, w)
                     [] Is({"read_journalctl"}) -> call.req \in UnitList
                     [] OTHER -> TRUE
<1>1. At("gate") /\ (IF open THEN Goes([call EXCEPT !.pc = "run"], said) ELSE Answer("denied", call, said))
  BY DEF Gated
<1>2. open /\ Is(ExecTools) => PassesDenyList(call.req)
  BY DEF Is, ExecTools, PassesCommand
<1>3. ~(At("run") /\ Is(ExecTools)) /\ (Is(ExecTools) => call.req \in Commands)
  BY <1>1 DEF Checked, At
<1> HIDE DEF open
<1>4. CASE open
  <2>1. call' = [call EXCEPT !.pc = "run"]
    BY <1>1, <1>4 DEF Goes
  <2>2. /\ DOMAIN call' = DOMAIN call /\ call'.pc = "run" /\ call'.tool = call.tool
        /\ call'.req = call.req /\ call'.ran = call.ran /\ call'.answer = call.answer
    BY <2>1 DEF Checked, Fields
  <2>. QED
    BY <1>2, <1>3, <1>4, <2>2 DEF Checked, At, Is
<1>5. CASE ~open
  <2>1. call' = [call EXCEPT !.pc = "idle", !.answer = "denied"]
    BY <1>1, <1>5 DEF Answer, Goes
  <2>2. Aside
    BY <2>1 DEF Checked, Fields, Aside
  <2>. QED
    BY <2>2, AsideChecked
<1>. QED
  BY <1>4, <1>5

\* The program of a command that passed runs, or is not there.
LEMMA RanChecked ==
    ASSUME Checked, At("run"), Is(ExecTools),
           NEW a, a # "", call' = [call EXCEPT !.ran = TRUE, !.pc = "idle", !.answer = a]
    PROVE  Checked'
<1>1. /\ DOMAIN call' = DOMAIN call /\ call'.pc = "idle" /\ call'.tool = call.tool
      /\ call'.req = call.req /\ call'.answer = a
  BY DEF Checked, Fields
<1>. QED
  BY <1>1 DEF Checked, At, Is

LEMMA AnswerAside ==
    ASSUME Checked, NEW a, a # "", NEW s, Answer(a, call, s)
    PROVE  Aside
<1>1. call' = [call EXCEPT !.pc = "idle", !.answer = a]
  BY DEF Answer, Goes
<1>. QED
  BY <1>1 DEF Checked, Fields, Aside

LEMMA FailedChecked == Checked /\ Failed => Checked'
<1> SUFFICES ASSUME Checked, Failed
             PROVE  Checked'
  OBVIOUS
<1>1. PICK how \in Failures :
          IF Is(ExecTools) /\ how # "absent"
          THEN Answer(IF how = "timeout" THEN "ok" ELSE "error", [call EXCEPT !.ran = TRUE], said)
          ELSE Answer("error", call, said)
  BY DEF Failed
<1>2. CASE Is(ExecTools) /\ how # "absent"
  <2> DEFINE a == IF how = "timeout" THEN "ok" ELSE "error"
  <2>1. a # ""
    OBVIOUS
  <2>2. Answer(a, [call EXCEPT !.ran = TRUE], said)
    BY <1>1, <1>2
  <2> HIDE DEF a
  <2>3. call' = [call EXCEPT !.ran = TRUE, !.pc = "idle", !.answer = a]
    BY <2>2 DEF Answer, Goes
  <2>4. At("run")
    BY DEF Failed
  <2>. QED
    BY <1>2, <2>1, <2>3, <2>4, RanChecked
<1>3. CASE ~(Is(ExecTools) /\ how # "absent")
  BY <1>1, <1>3, AnswerAside, AsideChecked
<1>. QED
  BY <1>2, <1>3

LEMMA ExecutedChecked == Checked /\ Executed => Checked'
<1> SUFFICES ASSUME Checked, Executed
             PROVE  Checked'
  OBVIOUS
<1>1. call' = [call EXCEPT !.ran = TRUE, !.pc = "idle", !.answer = "ok"]
  BY DEF Executed, Answer, Goes
<1>. QED
  BY <1>1, RanChecked DEF Executed

LEMMA StepChecked == Checked /\ Step => Checked'
<1> SUFFICES ASSUME Checked, Step
             PROVE  Checked'
  OBVIOUS
<1>0. Fields \subseteq DOMAIN call
  BY DEF Checked
<1>1. CASE Gated
  BY <1>1, GatedChecked
<1>2. CASE Failed
  BY <1>2, FailedChecked
<1>3. CASE Executed
  BY <1>3, ExecutedChecked
<1>4. CASE StatusRun
  <2>1. PICK report \in Reports, h \in Heads :
           call' = [call EXCEPT !.pc = "parse", !.entries = Printed(report),
                                !.status = [head |-> ParsedHead(h), staged |-> {}, unstaged |-> {}, untracked |-> {}]]
    BY <1>4, Zenon DEF StatusRun, Goes
  <2>2. Aside
    BY <1>0, <2>1 DEF Fields, Aside
  <2>. QED
    BY <2>2, AsideChecked
<1>5. CASE Parsed
  <2>1. PICK e, st : call' = [call EXCEPT !.status = st, !.entries = e]
    BY <1>5, Zenon DEF Parsed, Parsing, Goes
  <2>2. At("parse")
    BY <1>5 DEF Parsed
  <2>3. Aside
    BY <1>0, <2>1, <2>2 DEF Fields, Aside, At
  <2>. QED
    BY <2>3, AsideChecked
<1>6. CASE StatusTold \/ ConflictSought
  BY <1>6, AnswerAside, AsideChecked DEF StatusTold, ConflictSought
<1>7. CASE \E n \in Notes : NoteListed(n)
  <2>1. PICK n \in Notes : NoteListed(n)
    BY <1>7
  <2>2. CASE vault[n].kind = "locked"
    <3>1. Answer("error", call, said)
      BY <2>1, <2>2, Zenon DEF NoteListed
    <3>. QED
      BY <3>1, AnswerAside, AsideChecked
  <2>3. CASE vault[n].kind # "locked"
    <3>1. PICK l, q : call' = [call EXCEPT !.left = l, !.queue = q]
      BY <2>1, <2>3, Zenon DEF NoteListed, Goes
    <3>2. At("list")
      BY <2>1 DEF NoteListed
    <3>3. Aside
      BY <1>0, <3>1, <3>2 DEF Fields, Aside, At
    <3>. QED
      BY <3>3, AsideChecked
  <2>. QED
    BY <2>2, <2>3
<1>8. CASE ListTold
  <2>1. CASE Is({"notes_list"})
    <3>1. PICK f, c : call' = [call EXCEPT !.found = f, !.cut = c, !.pc = "idle", !.answer = "ok"]
      BY <1>8, <2>1, Zenon DEF ListTold, Answer, Goes
    <3>2. Aside
      BY <1>0, <3>1 DEF Fields, Aside
    <3>. QED
      BY <3>2, AsideChecked
  <2>2. CASE ~Is({"notes_list"})
    <3>1. call' = [call EXCEPT !.pc = "search"]
      BY <1>8, <2>2, Zenon DEF ListTold, Goes
    <3>2. Aside
      BY <1>0, <3>1 DEF Fields, Aside
    <3>. QED
      BY <3>2, AsideChecked
  <2>. QED
    BY <2>1, <2>2
<1>9. CASE NoteSearched
  <2>1. At("search")
    BY <1>9 DEF NoteSearched
  <2>2. CASE vault[Least(call.queue)].kind \notin {"file", "link"}
    <3>1. Answer("error", call, said)
      BY <1>9, <2>2 DEF NoteSearched, Searching
    <3>. QED
      BY <3>1, AnswerAside, AsideChecked
  <2>3. CASE vault[Least(call.queue)].kind \in {"file", "link"}
    <3>1. PICK q, f, c : call' = [call EXCEPT !.queue = q, !.found = f, !.cut = c]
      BY <1>9, <2>3, Zenon DEF NoteSearched, Searching, Goes
    <3>2. Aside
      BY <1>0, <2>1, <3>1 DEF Fields, Aside, At
    <3>. QED
      BY <3>2, AsideChecked
  <2>. QED
    BY <2>2, <2>3
<1>10. CASE SearchTold \/ InfoTold
  BY <1>10, AnswerAside, AsideChecked DEF SearchTold, InfoTold
<1>11. CASE FilesSearched \/ TextCut
  <2>1. PICK f, c : call' = [call EXCEPT !.found = f, !.cut = c, !.pc = "idle", !.answer = "ok"]
    BY <1>11, Zenon DEF FilesSearched, TextCut, Answer, Goes
  <2>2. Aside
    BY <1>0, <2>1 DEF Fields, Aside
  <2>. QED
    BY <2>2, AsideChecked
<1>12. CASE UnitsListed
  <2>1. PICK f : call' = [call EXCEPT !.found = f, !.pc = "idle", !.answer = "ok"]
    BY <1>12, Zenon DEF UnitsListed, Answer, Goes
  <2>2. Aside
    BY <1>0, <2>1 DEF Fields, Aside
  <2>. QED
    BY <2>2, AsideChecked
<1>13. CASE InfoStep
  <2>1. CASE Answer("error", call, said)
    BY <2>1, AnswerAside, AsideChecked
  <2>2. CASE ~Answer("error", call, said)
    <3>1. PICK i : call' = [call EXCEPT !.info = i]
      BY <1>13, <2>2, Zenon DEF InfoStep, Goes
    <3>2. Aside
      BY <1>0, <1>13, <3>1 DEF Fields, Aside, InfoStep, At
    <3>. QED
      BY <3>2, AsideChecked
  <2>. QED
    BY <2>1, <2>2
<1>. QED
  BY <1>1, <1>2, <1>3, <1>4, <1>5, <1>6, <1>7, <1>8, <1>9, <1>10, <1>11, <1>12, <1>13, Zenon DEF Step

\* Where the deny list was passed, no part of the command is refused.
LEMMA CheckedDenied == Checked => DeniedStaysDenied
<1> SUFFICES ASSUME Checked, call.ran,
                    NEW k \in 1..Len(call.req.words),
                    Listed(SubSeq(call.req.words, 1, k)),
                    ~InitRunlevel(SubSeq(call.req.words, 1, k))
             PROVE  FALSE
  BY DEF DeniedStaysDenied
<1>1. call.req.words \in Seq(STRING)
  BY CommandsAssumption DEF Checked
<1>2. Listed(call.req.words)
  BY <1>1, DeniedGrows
<1>. QED
  BY <1>2 DEF Checked, PassesDenyList

\* No tool runs a command that begins with one that the deny list refuses
\* (check_deny_list, check_command, _run_configured).
THEOREM Denied == Spec => []DeniedStaysDenied
<1>1. Checked /\ [Next]_vars => Checked'
  <2> SUFFICES ASSUME Checked, [Next]_vars
               PROVE  Checked'
    OBVIOUS
  <2>1. CASE \E tool \in Tools : \E req \in Requests(tool) : Start(tool, req)
    BY <2>1, StartChecked
  <2>2. CASE Step
    BY <2>2, StepChecked
  <2>3. CASE (\E n \in Notes, note \in NoteStates : OthersChange(n, note)) \/ UNCHANGED vars
    <3>1. call' = call
      BY <2>3, Zenon DEF OthersChange, vars
    <3>. QED
      BY <3>1 DEF Checked, At, Is
  <2>. QED
    BY <2>1, <2>2, <2>3, Zenon DEF Next
<1>. QED
  BY InitChecked, CheckedDenied, <1>1, PTL DEF Spec

--------------------------------------------------------------------------
(* Least numbers, and the first numbers of a set.                          *)

\* The order of the numbers as a set of pairs; it has no descending chains.
LEMMA NumberOrder ==
    \E R : /\ IsWellFoundedOn(R, Nat)
           /\ \A x, y \in Nat : x < y => <<x, y>> \in R
<1> DEFINE R == OpToRel(<, Nat)
<1>1. IsWellFoundedOn(R, Nat)  BY NatLessThanWellFounded
<1>2. \A x, y \in Nat : x < y => <<x, y>> \in R  BY DEF OpToRel
<1> HIDE DEF R
<1> QED  BY <1>1, <1>2

\* Numbers have a least one among them.
LEMMA LeastNumber ==
    ASSUME NEW S, S \subseteq Nat, S # {}
    PROVE  \E n \in S : \A m \in S : n <= m
<1>1. PICK R : /\ IsWellFoundedOn(R, Nat)
               /\ \A x, y \in Nat : x < y => <<x, y>> \in R
  BY NumberOrder
<1>2. IsWellFoundedOn(R, Nat)  BY <1>1
<1>3. \E n \in S : \A m \in S : ~(<<m, n>> \in R)  BY <1>2, WFMin, Zenon
<1>4. PICK n \in S : \A m \in S : ~(<<m, n>> \in R)  BY <1>3
<1>5. ASSUME NEW m \in S PROVE n <= m
  <2>1. n \in Nat /\ m \in Nat  OBVIOUS
  <2>2. ~(<<m, n>> \in R)  BY <1>4
  <2>3. m < n => <<m, n>> \in R  BY <1>1, <2>1
  <2> QED  BY <2>1, <2>2, <2>3
<1> QED  BY <1>5

\* So what holds of 0, and of each next number, holds of all: the set of those it does not
\* hold of has no least one.
LEMMA EveryNumber ==
    ASSUME NEW S, 0 \in S, \A n \in Nat : n \in S => n + 1 \in S
    PROVE  Nat \subseteq S
<1> SUFFICES ASSUME Nat \ S # {} PROVE FALSE  OBVIOUS
<1>1. PICK n \in Nat \ S : \A m \in Nat \ S : n <= m  BY LeastNumber
<1>2. n # 0  OBVIOUS
<1>3. n - 1 \in Nat /\ n - 1 \in S  BY <1>1, <1>2
<1>4. (n - 1) + 1 \in S  BY <1>3
<1> QED  BY <1>4

LEMMA LeastDefined ==
    ASSUME NEW S, S \subseteq Nat, S # {}
    PROVE  Least(S) \in S /\ \A m \in S : Least(S) <= m
<1>1. \E n \in S : \A m \in S : n <= m  BY LeastNumber
<1> QED  BY <1>1 DEF Least

\* Those of a set of numbers that have fewer than k before them.
Before(S, n) == {m \in S : m < n}
First(S, k) == {n \in S : Cardinality(Before(S, n)) < k}

\* The next one in a set of numbers, after the first of them.
LEMMA FirstGrow ==
    ASSUME NEW S, S \subseteq Nat, IsFiniteSet(S), NEW k \in Nat,
           Cardinality(First(S, k)) = k, k < Cardinality(S)
    PROVE  Cardinality(First(S, k + 1)) = k + 1
<1>f. /\ First(S, k) \subseteq S /\ IsFiniteSet(First(S, k))
      /\ \A n : /\ Before(S, n) \subseteq S /\ IsFiniteSet(Before(S, n))
                /\ Cardinality(Before(S, n)) \in Nat
  BY FS_Subset, FS_CardinalityType DEF First, Before
<1> DEFINE Others == S \ First(S, k)
<1>1. Others # {}
  <2>1. Others = {} => First(S, k) = S  BY <1>f
  <2> QED  BY <2>1
<1>2. PICK n \in Others : \A m \in Others : n <= m  BY <1>1, LeastNumber
<1>3. Cardinality(Before(S, n)) >= k  BY <1>f, <1>2 DEF First
<1>4. ASSUME NEW m \in Before(S, n) PROVE m \in First(S, k)
  <2>1. m \in S /\ m < n /\ m \in Nat /\ n \in Nat  BY <1>2 DEF Before
  <2> QED  BY <1>2, <2>1
<1>5. Cardinality(Before(S, n)) = k /\ Before(S, n) = First(S, k)
  <2>1. Cardinality(Before(S, n)) <= k  BY <1>f, <1>4, FS_Subset
  <2>2. Cardinality(Before(S, n)) = k  BY <1>f, <1>3, <2>1
  <2> QED  BY <1>f, <1>4, <2>2, FS_Subset
<1>6. First(S, k + 1) = First(S, k) \cup {n}
  <2>1. n \in First(S, k + 1)  BY <1>5, <1>2 DEF First
  <2>2. First(S, k) \subseteq First(S, k + 1)  BY <1>f DEF First
  <2>3. ASSUME NEW m \in First(S, k + 1), m \notin First(S, k) PROVE m = n
    <3>1. m \in Others /\ n <= m /\ m \in Nat /\ n \in Nat  BY <1>2, <2>3 DEF First
    <3>2. CASE n < m
      <4>1. ASSUME NEW l \in Before(S, n) \cup {n} PROVE l \in Before(S, m)
        <5>1. l \in S /\ l \in Nat /\ l <= n  BY <1>2, <3>1 DEF Before
        <5> QED  BY <3>1, <3>2, <5>1 DEF Before
      <4>2. n \notin Before(S, n)  BY <3>1 DEF Before
      <4>3. Cardinality(Before(S, n) \cup {n}) = k + 1  BY <1>f, <1>5, <4>2, FS_AddElement
      <4>4. Cardinality(Before(S, m)) >= k + 1  BY <1>f, <4>1, <4>3, FS_Subset
      <4>5. Cardinality(Before(S, m)) < k + 1  BY <2>3 DEF First
      <4> QED  BY <1>f, <4>4, <4>5
    <3> QED  BY <3>1, <3>2
  <2> QED  BY <2>1, <2>2, <2>3
<1> QED  BY <1>f, <1>2, <1>6, FS_AddElement

\* The first k of them are k, when there are as many.
LEMMA FirstCount ==
    ASSUME NEW S, S \subseteq Nat, IsFiniteSet(S), NEW k \in Nat, k <= Cardinality(S)
    PROVE  Cardinality(First(S, k)) = k
<1> DEFINE Good == {i \in Nat : i <= Cardinality(S) => Cardinality(First(S, i)) = i}
<1>c. Cardinality(S) \in Nat  BY FS_CardinalityType
<1>1. 0 \in Good
  <2>1. First(S, 0) = {}
    <3>1. \A n \in S : Cardinality(Before(S, n)) \in Nat
      BY FS_Subset, FS_CardinalityType DEF Before
    <3>2. \A n \in S : ~(Cardinality(Before(S, n)) < 0)  BY <3>1
    <3> QED  BY <3>2 DEF First
  <2> QED  BY <2>1, FS_EmptySet
<1>2. ASSUME NEW i \in Nat, i \in Good PROVE i + 1 \in Good
  <2>1. CASE i + 1 <= Cardinality(S)
    <3>1. i < Cardinality(S) /\ Cardinality(First(S, i)) = i  BY <1>c, <1>2, <2>1
    <3>2. Cardinality(First(S, i + 1)) = i + 1  BY <3>1, FirstGrow
    <3> QED  BY <3>2
  <2> QED  BY <2>1
<1>3. Nat \subseteq Good
  <2> HIDE DEF Good
  <2> QED  BY <1>1, <1>2, EveryNumber
<1> QED  BY <1>3

\* The first k hits of a note are k.
LEMMA HitsCount ==
    ASSUME NEW n, NEW k \in Nat
    PROVE  LET T == {<<n, i>> : i \in 1..k} IN IsFiniteSet(T) /\ Cardinality(T) = k
<1> DEFINE T == {<<n, i>> : i \in 1..k}
           f == [i \in 1..k |-> <<n, i>>]
<1>1. f \in Bijection(1..k, T)
  <2>1. f \in [1..k -> T]  OBVIOUS
  <2>2. \A i, j \in 1..k : f[i] = f[j] => i = j  OBVIOUS
  <2>3. \A t \in T : \E i \in 1..k : f[i] = t  OBVIOUS
  <2> HIDE DEF f, T
  <2>4. f \in Injection(1..k, T)  BY <2>1, <2>2 DEF Injection, IsInjective
  <2>5. f \in Surjection(1..k, T)  BY <2>1, <2>3 DEF Surjection
  <2> QED  BY <2>4, <2>5 DEF Bijection
<1>2. IsFiniteSet(1..k) /\ Cardinality(1..k) = k  BY FS_Interval
<1> HIDE DEF f, T
<1>3. ExistsBijection(1..k, T)  BY <1>1 DEF ExistsBijection
<1>4. IsFiniteSet(T) /\ Cardinality(T) = k  BY <1>2, <1>3, FS_Bijection
<1> QED  BY <1>4 DEF T

--------------------------------------------------------------------------
(* What the tools say they found.                                          *)

AllFields == {"pc", "tool", "req", "answer", "ran", "entries", "status", "left", "queue",
              "found", "cut", "info"}
VaultOK ==
    /\ AllFields \subseteq DOMAIN call
    /\ same \subseteq Notes /\ vault \in [Notes -> NoteStates]
Told == VaultOK /\ AnswerInv /\ NothingHidden

LEMMA HitsType ==
    ASSUME VaultOK, NEW n \in Notes
    PROVE  HitsIn(n) \in Nat
BY NotesAssumption DEF VaultOK, HitsIn, NoteStates

LEMMA InitToldOK == Init => Told
<1> SUFFICES ASSUME Init PROVE Told  OBVIOUS
<1>1. VaultOK
  BY DEF Init, VaultOK, AllFields, NoteStates
<1>2. /\ call.pc = "idle" /\ call.answer = "" /\ call.found = {} /\ ~call.cut
      /\ call.queue = {} /\ call.info = <<>> /\ said = {}
  BY DEF Init
<1>3. AnswerInv
  BY <1>2 DEF AnswerInv, PhaseInv, FreshInv, ListInv, SearchInv, InfoInv, At
<1>4. NothingHidden  BY <1>2 DEF NothingHidden
<1> QED  BY <1>1, <1>3, <1>4 DEF Told

\* A call that is answered is in no phase of its own.
LEMMA DoneInv ==
    ASSUME call'.pc = "idle", call'.answer # ""
    PROVE  AnswerInv'
BY DEF AnswerInv, PhaseInv, FreshInv, ListInv, SearchInv, InfoInv, At

\* A call that is not answered has nothing to tell yet.
LEMMA UnansweredHides ==
    ASSUME call'.pc # "idle" \/ call'.answer = ""
    PROVE  NothingHidden'
BY DEF NothingHidden, At

LEMMA StartToldOK ==
    ASSUME Told, NEW tool \in Tools, NEW req \in Requests(tool), Start(tool, req)
    PROVE  Told'
<1>1. /\ AllFields \subseteq DOMAIN call' /\ call'.tool = tool
      /\ call'.pc = (IF tool \in VaultTools THEN "list" ELSE "gate")
      /\ call'.left = (IF tool \in VaultTools THEN Notes ELSE {})
      /\ call'.answer = "" /\ call'.found = call.found /\ call'.cut = call.cut
      /\ call'.queue = call.queue /\ call'.info = call.info
  BY DEF Start, Told, VaultOK, AllFields
<1>2. VaultOK'
  BY <1>1 DEF Start, Told, VaultOK
<1>3. call.found = {} /\ ~call.cut /\ call.queue = {} /\ call.info = <<>> /\ said' = {}
  BY DEF Start, Told, AnswerInv, FreshInv, At
<1>4. PhaseInv'  BY <1>1 DEF PhaseInv, At, Is, VaultTools
<1>5. FreshInv' /\ SearchInv' /\ InfoInv'
  BY <1>1, <1>3 DEF FreshInv, SearchInv, InfoInv, At
<1>6. ListInv'
  BY <1>1, <1>2, <1>3 DEF ListInv, At, VaultOK
<1>7. NothingHidden'  BY <1>1, UnansweredHides
<1> QED  BY <1>2, <1>4, <1>5, <1>6, <1>7 DEF Told, AnswerInv

LEMMA GatedToldOK == Told /\ Gated => Told'
<1> SUFFICES ASSUME Told, Gated PROVE Told'  OBVIOUS
<1>1. /\ At("gate")
      /\ \/ Goes([call EXCEPT !.pc = "run"], said)
         \/ Answer("denied", call, said)
  BY Zenon DEF Gated
<1>2. call.answer = "" /\ ~Is(VaultTools) /\ call.info = <<>> /\ said = {}
  BY <1>1 DEF Told, AnswerInv, PhaseInv, FreshInv, At
<1>3. CASE Goes([call EXCEPT !.pc = "run"], said)
  <2>1. /\ AllFields \subseteq DOMAIN call' /\ call'.tool = call.tool
        /\ call'.pc = "run" /\ call'.answer = call.answer /\ call'.info = call.info
    BY <1>3 DEF Goes, Told, VaultOK, AllFields
  <2>2. VaultOK' /\ said' = said  BY <1>3, <2>1 DEF Goes, Told, VaultOK
  <2>3. PhaseInv' /\ FreshInv' /\ ListInv' /\ SearchInv'
    BY <1>2, <2>1 DEF PhaseInv, FreshInv, ListInv, SearchInv, At, Is
  <2>4. InfoInv'
    <3>1. Len(InfoSteps) = 5  BY DEF InfoSteps
    <3>2. call'.info = <<>> /\ said' = {}  BY <1>2, <2>1, <2>2
    <3> QED  BY <3>1, <3>2 DEF InfoInv
  <2>5. NothingHidden'  BY <2>1, UnansweredHides
  <2> QED  BY <2>2, <2>3, <2>4, <2>5 DEF Told, AnswerInv
<1>4. CASE Answer("denied", call, said)
  <2>1. /\ AllFields \subseteq DOMAIN call' /\ call'.tool = call.tool
        /\ call'.pc = "idle" /\ call'.answer = "denied"
    BY <1>4 DEF Answer, Goes, Told, VaultOK, AllFields
  <2>2. VaultOK'  BY <1>4, <2>1 DEF Answer, Goes, Told, VaultOK
  <2>3. NothingHidden'  BY <2>1 DEF NothingHidden
  <2> QED  BY <2>1, <2>2, <2>3, DoneInv DEF Told
<1> QED  BY <1>1, <1>3, <1>4

\* An answer leaves the vault alone.
LEMMA OtherAnswer ==
    ASSUME Told, AllFields \subseteq DOMAIN call', call'.pc = "idle", call'.answer # "",
           UNCHANGED <<vault, same>>
    PROVE  VaultOK' /\ AnswerInv'
<1>1. VaultOK'  BY DEF Told, VaultOK
<1> QED  BY <1>1, DoneInv

\* The answer of one that finds nothing at all, or fails.
LEMMA BareAnswer ==
    ASSUME Told, ~Is(VaultTools), NEW c, NEW a, NEW s, a # "",
           AllFields \subseteq DOMAIN c, c.tool = call.tool, Answer(a, c, s),
           a # "ok" \/ Is(ExecTools \cup StatusTools)
    PROVE  Told'
<1>0. /\ AllFields \subseteq DOMAIN call' /\ call'.pc = "idle" /\ call'.answer = a
      /\ call'.tool = call.tool /\ UNCHANGED <<vault, same>>
  BY DEF Answer, Goes, AllFields
<1>1. VaultOK' /\ AnswerInv' /\ call'.answer = a /\ call'.tool = call.tool
  BY <1>0, OtherAnswer
<1>2. NothingHidden'
  BY <1>1 DEF NothingHidden, Is, ExecTools, StatusTools, VaultTools
<1> QED  BY <1>1, <1>2 DEF Told

LEMMA PlainToldOK == Told /\ (Failed \/ Executed \/ StatusTold \/ ConflictSought) => Told'
<1> SUFFICES ASSUME Told, Failed \/ Executed \/ StatusTold \/ ConflictSought PROVE Told'
  OBVIOUS
<1>p. (At("run") \/ At("parse")) => ~Is(VaultTools)
  BY DEF Told, AnswerInv, PhaseInv, At
<1>f. AllFields \subseteq DOMAIN call  BY DEF Told, VaultOK
<1>c. LET c == [call EXCEPT !.ran = TRUE]
      IN  AllFields \subseteq DOMAIN c /\ c.tool = call.tool
  BY <1>f DEF AllFields
<1>e. Is(ExecTools) \/ Is(StatusTools) => Is(ExecTools \cup StatusTools)  BY DEF Is
<1>1. CASE Failed
  <2>1. PICK how \in Failures :
            IF Is(ExecTools) /\ how # "absent"
            THEN Answer(IF how = "timeout" THEN "ok" ELSE "error", [call EXCEPT !.ran = TRUE], said)
            ELSE Answer("error", call, said)
    BY <1>1 DEF Failed
  <2>2. ~Is(VaultTools)  BY <1>1, <1>p DEF Failed
  <2>3. CASE Is(ExecTools) /\ how # "absent"
    <3> DEFINE a == IF how = "timeout" THEN "ok" ELSE "error"
    <3>1. a # "" /\ Answer(a, [call EXCEPT !.ran = TRUE], said)  BY <2>1, <2>3
    <3> HIDE DEF a
    <3> QED  BY <2>2, <2>3, <3>1, <1>c, <1>e, BareAnswer
  <2>4. CASE ~(Is(ExecTools) /\ how # "absent")
    <3>1. Answer("error", call, said)  BY <2>1, <2>4
    <3> QED  BY <2>2, <3>1, <1>f, BareAnswer
  <2> QED  BY <2>3, <2>4
<1>2. CASE Executed
  BY <1>2, <1>p, <1>c, <1>e, BareAnswer DEF Executed
<1>3. CASE StatusTold \/ ConflictSought
  <2>1. At("parse") /\ \E a \in {"ok", "denied"} : Answer(a, call, said)
    BY <1>3 DEF StatusTold, ConflictSought
  <2>2. Is(StatusTools)  BY <1>3 DEF StatusTold, ConflictSought, Is, StatusTools
  <2> QED  BY <2>1, <2>2, <1>p, <1>f, <1>e, BareAnswer
<1> QED  BY <1>1, <1>2, <1>3

\* While the output of git status is read.
LEMMA ParseToldOK == Told /\ (StatusRun \/ Parsed) => Told'
<1> SUFFICES ASSUME Told, StatusRun \/ Parsed PROVE Told'
  OBVIOUS
<1>f. AllFields \subseteq DOMAIN call  BY DEF Told, VaultOK
<1>1. \E e, st : call' = [call EXCEPT !.pc = "parse", !.entries = e, !.status = st]
  <2>1. CASE StatusRun  BY <2>1, Zenon DEF StatusRun, Goes
  <2>2. CASE Parsed
    <3>1. PICK e, st : call' = [call EXCEPT !.status = st, !.entries = e]
      BY <2>2, Zenon DEF Parsed, Parsing, Goes
    <3>2. call.pc = "parse"  BY <2>2 DEF Parsed, At
    <3>3. call' = [call EXCEPT !.pc = "parse", !.entries = e, !.status = st]
      BY <3>1, <3>2
    <3> QED  BY <3>3
  <2> QED  BY <2>1, <2>2
<1>2. /\ AllFields \subseteq DOMAIN call' /\ call'.pc = "parse"
      /\ call'.tool = call.tool /\ call'.answer = call.answer
  BY <1>1, <1>f DEF AllFields
<1>3. UNCHANGED <<vault, same>>
  BY DEF StatusRun, Parsed, Parsing, Goes
<1>4. VaultOK'  BY <1>2, <1>3 DEF Told, VaultOK
<1>5. call.pc \in {"run", "parse"} /\ call.answer = "" /\ ~Is(VaultTools)
  BY DEF StatusRun, Parsed, Told, AnswerInv, PhaseInv, At
<1>6. AnswerInv'
  BY <1>2, <1>5 DEF AnswerInv, PhaseInv, FreshInv, ListInv, SearchInv, InfoInv, At, Is
<1>7. NothingHidden'  BY <1>2, UnansweredHides
<1> QED  BY <1>4, <1>6, <1>7 DEF Told

\* What search_files, git_diff and the system tools found is what the program printed,
\* or its beginning, and then the answer says so.
LEMMA TextToldOK == Told /\ (FilesSearched \/ TextCut \/ UnitsListed) => Told'
<1> SUFFICES ASSUME Told, FilesSearched \/ TextCut \/ UnitsListed PROVE Told'
  OBVIOUS
<1>f. AllFields \subseteq DOMAIN call  BY DEF Told, VaultOK
<1>v. ~Is(VaultTools)
  BY DEF FilesSearched, TextCut, UnitsListed, Told, AnswerInv, PhaseInv, At
<1>1. CASE FilesSearched \/ TextCut
  <2>0. PICK n \in 0..(Most + 1) :
           LET found == 1..(IF n < Most THEN n ELSE Most)
           IN  \/ Answer("ok", [call EXCEPT !.found = found, !.cut = n >= Most], 1..n)
               \/ Answer("ok", [call EXCEPT !.found = found, !.cut = n > Most], 1..n)
    BY <1>1, Zenon DEF FilesSearched, TextCut
  <2>g. n > Most => n >= Most  BY NotesAssumption
  <2>1. PICK cut :
           /\ n > Most => cut
           /\ Answer("ok", [call EXCEPT !.found = 1..(IF n < Most THEN n ELSE Most), !.cut = cut], 1..n)
    BY <2>0, <2>g, Zenon
  <2> DEFINE found == 1..(IF n < Most THEN n ELSE Most)
             c == [call EXCEPT !.found = found, !.cut = cut]
  <2>2. found \subseteq 1..n /\ (found # 1..n => n > Most)
    <3>1. CASE n < Most  BY <3>1
    <3>2. CASE ~(n < Most)
      <4>1. n \in {Most, Most + 1} /\ found = 1..Most  BY <3>2, NotesAssumption
      <4> QED  BY <4>1, NotesAssumption
    <3> QED  BY <3>1, <3>2
  <2>3. Answer("ok", c, 1..n)  BY <2>1
  <2> HIDE DEF found
  <2>4. AllFields \subseteq DOMAIN c /\ c.tool = call.tool /\ c.found = found
    BY <1>f DEF AllFields
  <2>c. c.cut = cut  BY <1>f DEF AllFields
  <2>k. call' = [c EXCEPT !.pc = "idle", !.answer = "ok"] /\ said' = 1..n
        /\ UNCHANGED <<vault, same>>
    BY <2>3 DEF Answer, Goes
  <2> HIDE DEF c
  <2>5. /\ AllFields \subseteq DOMAIN call' /\ call'.pc = "idle" /\ call'.answer = "ok"
        /\ call'.tool = call.tool /\ call'.found = c.found /\ call'.cut = c.cut
    BY <2>4, <2>k DEF AllFields
  <2>o. VaultOK' /\ AnswerInv'
    BY <2>k, <2>5, OtherAnswer
  <2>6. Is({"search_files", "git_diff", "read_journalctl"})
    BY <1>1 DEF FilesSearched, TextCut, Is
  <2>7. NothingHidden'
    <3>1. call'.found \subseteq said'  BY <2>2, <2>4, <2>5, <2>k
    <3>2. call'.found # said' => n > Most  BY <2>2, <2>4, <2>5, <2>k
    <3>3. n > Most => call'.cut  BY <2>1, <2>c, <2>5, Zenon
    <3> QED  BY <3>1, <3>2, <3>3, <2>5, <2>6, <1>v DEF NothingHidden, Is
  <2> QED  BY <2>o, <2>7 DEF Told
<1>2. CASE UnitsListed
  <2>1. PICK there : Answer("ok", [call EXCEPT !.found = there \cap call.req], there)
    BY <1>2 DEF UnitsListed
  <2> DEFINE c == [call EXCEPT !.found = there \cap call.req]
  <2>2. /\ AllFields \subseteq DOMAIN c /\ c.tool = call.tool
        /\ c.found = there \cap call.req /\ c.req = call.req
    BY <1>f DEF AllFields
  <2>3. /\ call' = [c EXCEPT !.pc = "idle", !.answer = "ok"] /\ said' = there
        /\ UNCHANGED <<vault, same>>
    BY <2>1 DEF Answer, Goes
  <2> HIDE DEF c
  <2>4. /\ AllFields \subseteq DOMAIN call' /\ call'.pc = "idle" /\ call'.answer = "ok"
        /\ call'.tool = call.tool
        /\ call'.found = there \cap call.req /\ call'.req = call.req
    BY <2>2, <2>3 DEF AllFields
  <2>o. VaultOK' /\ AnswerInv'
    BY <2>3, <2>4, OtherAnswer
  <2>5. Is({"list_systemd_services"})  BY <1>2 DEF UnitsListed
  <2>6. NothingHidden'
    BY <2>3, <2>4, <2>5, <1>v DEF NothingHidden, Is
  <2> QED  BY <2>o, <2>6 DEF Told
<1> QED  BY <1>1, <1>2

LEMMA Appended ==
    ASSUME NEW S, NEW s \in Seq(S), NEW x \in S
    PROVE  /\ Append(s, x) \in Seq(S) /\ Len(Append(s, x)) = Len(s) + 1
           /\ DOMAIN Append(s, x) = 1..(Len(s) + 1) /\ Append(s, x)[Len(s) + 1] = x
           /\ \A j \in 1..Len(s) : Append(s, x)[j] = s[j]
OBVIOUS

\* Each step of get_system_info tells for itself, and of the others what they told.
LEMMA InfoStepToldOK == Told /\ InfoStep => Told'
<1> SUFFICES ASSUME Told, InfoStep PROVE Told'  OBVIOUS
<1> DEFINE k == Len(call.info) + 1
<1>f. AllFields \subseteq DOMAIN call  BY DEF Told, VaultOK
<1>1. At("run") /\ Is({"get_system_info"}) /\ k <= Len(InfoSteps)  BY DEF InfoStep
<1>l. Len(InfoSteps) = 5 /\ DOMAIN InfoSteps = 1..5  BY DEF InfoSteps
<1>2. /\ call.info \in Seq(BOOLEAN) /\ Len(call.info) \in Nat /\ DOMAIN call.info = 1..Len(call.info)
      /\ \A j \in 1..5 : j \in said <=> j \in DOMAIN call.info /\ call.info[j]
  BY <1>1, <1>l DEF Told, AnswerInv, InfoInv
<1>3. call.answer = "" /\ ~Is(VaultTools)
  BY <1>1 DEF Told, AnswerInv, PhaseInv, At
<1>4. CASE Answer("error", call, said)
  BY <1>3, <1>4, <1>f, BareAnswer
<1>5. CASE \E ok \in BOOLEAN : Goes([call EXCEPT !.info = Append(@, ok)],
                                   IF ok THEN said \cup {k} ELSE said)
  <2>1. PICK ok \in BOOLEAN : Goes([call EXCEPT !.info = Append(@, ok)],
                                   IF ok THEN said \cup {k} ELSE said)
    BY <1>5, Zenon
  <2>2. /\ AllFields \subseteq DOMAIN call' /\ call'.pc = "run" /\ call'.tool = call.tool
        /\ call'.answer = "" /\ call'.info = Append(call.info, ok)
    BY <2>1, <1>f, <1>1, <1>3 DEF Goes, AllFields, At
  <2>3. UNCHANGED <<vault, same>> /\ said' = IF ok THEN said \cup {k} ELSE said
    BY <2>1, Zenon DEF Goes
  <2>4. VaultOK'  BY <2>2, <2>3 DEF Told, VaultOK
  <2>5. PhaseInv' /\ FreshInv' /\ ListInv' /\ SearchInv'
    BY <1>3, <2>2 DEF PhaseInv, FreshInv, ListInv, SearchInv, At, Is
  <2>a. /\ Append(call.info, ok) \in Seq(BOOLEAN) /\ Len(Append(call.info, ok)) = k
        /\ DOMAIN Append(call.info, ok) = 1..k /\ Append(call.info, ok)[k] = ok
        /\ \A j \in 1..Len(call.info) : Append(call.info, ok)[j] = call.info[j]
    <3>1. PICK B : B = BOOLEAN  OBVIOUS
    <3>2. call.info \in Seq(B) /\ ok \in B  BY <1>2, <3>1
    <3>3. /\ Append(call.info, ok) \in Seq(B) /\ Len(Append(call.info, ok)) = Len(call.info) + 1
          /\ DOMAIN Append(call.info, ok) = 1..(Len(call.info) + 1)
          /\ Append(call.info, ok)[Len(call.info) + 1] = ok
          /\ \A j \in 1..Len(call.info) : Append(call.info, ok)[j] = call.info[j]
      BY <3>2, Appended
    <3> QED  BY <3>1, <3>3, Zenon
  <2>6. call'.info \in Seq(BOOLEAN) /\ Len(call'.info) = k /\ DOMAIN call'.info = 1..k
    BY <2>a, <2>2, Zenon
  <2>7. call'.info[k] = ok /\ \A j \in 1..Len(call.info) : call'.info[j] = call.info[j]
    BY <2>a, <2>2, Zenon
  <2>8. ASSUME NEW j \in 1..5
        PROVE  j \in said' <=> j \in DOMAIN call'.info /\ call'.info[j]
    <3>1. k \in Nat /\ Len(call.info) \in Nat /\ k = Len(call.info) + 1  BY <1>2
    <3> HIDE DEF k
    <3>2. CASE j = k
      <4>1. ~(j \in said)  BY <1>2, <3>1, <3>2
      <4>2. j \in said' <=> ok  BY <2>3, <3>2, <4>1, Zenon
      <4>3. j \in DOMAIN call'.info  BY <2>6, <3>1, <3>2
      <4> QED  BY <2>7, <3>2, <4>2, <4>3, Zenon
    <3>3. CASE j # k
      <4>1. j \in said' <=> j \in said  BY <2>3, <3>3, Zenon
      <4>2. j \in DOMAIN call'.info <=> j \in DOMAIN call.info  BY <1>2, <2>6, <3>1, <3>3
      <4>3. j \in DOMAIN call.info => call'.info[j] = call.info[j]  BY <1>2, <2>7
      <4> QED  BY <1>2, <4>1, <4>2, <4>3, Zenon
    <3> QED  BY <3>2, <3>3
  <2>9. InfoInv'  BY <1>1, <1>l, <2>6, <2>8 DEF InfoInv
  <2>10. NothingHidden'  BY <2>2, UnansweredHides
  <2> QED  BY <2>4, <2>5, <2>9, <2>10 DEF Told, AnswerInv
<1>6. \/ Goes([call EXCEPT !.info = Append(@, TRUE)], said \cup {k})
      \/ Goes([call EXCEPT !.info = Append(@, FALSE)], said)
      \/ Answer("error", call, said)
  BY DEF InfoStep
<1>7. (\E ok \in BOOLEAN : Goes([call EXCEPT !.info = Append(@, ok)],
                                IF ok THEN said \cup {k} ELSE said))
      \/ Answer("error", call, said)
  <2>1. CASE Goes([call EXCEPT !.info = Append(@, TRUE)], said \cup {k})
    <3>1. Goes([call EXCEPT !.info = Append(@, TRUE)], IF TRUE THEN said \cup {k} ELSE said)
      BY <2>1
    <3> HIDE DEF k
    <3> QED  BY <3>1, Zenon
  <2>2. CASE Goes([call EXCEPT !.info = Append(@, FALSE)], said)
    <3>1. Goes([call EXCEPT !.info = Append(@, FALSE)], IF FALSE THEN said \cup {k} ELSE said)
      BY <2>2
    <3> HIDE DEF k
    <3> QED  BY <3>1, Zenon
  <2> QED  BY <1>6, <2>1, <2>2
<1> QED  BY <1>4, <1>5, <1>7

LEMMA InfoToldOK == Told /\ InfoTold => Told'
<1> SUFFICES ASSUME Told, InfoTold PROVE Told'  OBVIOUS
<1>f. AllFields \subseteq DOMAIN call  BY DEF Told, VaultOK
<1>1. /\ At("run") /\ Is({"get_system_info"}) /\ Len(call.info) = Len(InfoSteps)
      /\ Answer("ok", call, said)
  BY DEF InfoTold
<1>2. /\ AllFields \subseteq DOMAIN call' /\ call'.pc = "idle" /\ call'.answer = "ok"
      /\ call'.tool = call.tool /\ call'.info = call.info /\ said' = said
      /\ UNCHANGED <<vault, same>>
  BY <1>1, <1>f DEF Answer, Goes, AllFields
<1>3. call.info \in Seq(BOOLEAN) /\ DOMAIN call.info = DOMAIN InfoSteps
  <2>1. call.info \in Seq(BOOLEAN)  BY <1>1 DEF Told, AnswerInv, InfoInv
  <2>2. Len(InfoSteps) = 5 /\ DOMAIN InfoSteps = 1..5  BY DEF InfoSteps
  <2> QED  BY <1>1, <2>1, <2>2
<1>4. \A k \in DOMAIN InfoSteps : call'.info[k] <=> k \in said'
  BY <1>1, <1>2, <1>3, Zenon DEF Told, AnswerInv, InfoInv
<1>5. VaultOK' /\ AnswerInv'  BY <1>2, OtherAnswer
<1>6. NothingHidden'
  BY <1>1, <1>2, <1>4, Zenon DEF NothingHidden, Is, VaultTools
<1> QED  BY <1>5, <1>6 DEF Told

--------------------------------------------------------------------------
(* The notes.                                                              *)

\* What a note gives to an answer changes with the note and the tool only.
LEMMA GivesKept ==
    ASSUME call'.tool = call.tool, NEW n, vault'[n] = vault[n]
    PROVE  Gives(n)' = Gives(n)
BY DEF Gives, HitsIn, Is

LEMMA NoteListedToldOK ==
    ASSUME Told, NEW n \in Notes, NoteListed(n)
    PROVE  Told'
<1>f. AllFields \subseteq DOMAIN call  BY DEF Told, VaultOK
<1>1. At("list") /\ n \in call.left  BY DEF NoteListed
<1>l. CASE vault[n].kind = "locked"
  <2>1. Answer("error", call, said)  BY <1>l, Zenon DEF NoteListed
  <2>2. /\ AllFields \subseteq DOMAIN call' /\ call'.pc = "idle" /\ call'.answer = "error"
        /\ call'.tool = call.tool /\ UNCHANGED <<vault, same>>
    BY <2>1, <1>f DEF Answer, Goes, AllFields
  <2>3. VaultOK' /\ AnswerInv'  BY <2>2, OtherAnswer
  <2>4. \E m \in Notes : MayNotRead(m)'  BY <1>l, <2>2 DEF MayNotRead
  <2>5. NothingHidden'  BY <2>2, <2>4 DEF NothingHidden
  <2> QED  BY <2>3, <2>5 DEF Told
<1> SUFFICES ASSUME vault[n].kind # "locked" PROVE Told'  BY <1>l
<1> DEFINE q == IF vault[n].kind \in Seen THEN call.queue \cup {n} ELSE call.queue
<1>2. /\ call' = [call EXCEPT !.left = call.left \ {n}, !.queue = q]
      /\ UNCHANGED <<vault, same>>
  BY Zenon DEF NoteListed, Goes
<1>q. q \subseteq call.queue \cup {n} /\ call.queue \subseteq q /\ (n \in q <=> n \in call.queue \/ vault[n].kind \in Seen)
  BY Zenon
<1> HIDE DEF q
<1>3. /\ AllFields \subseteq DOMAIN call' /\ call'.pc = "list" /\ call'.tool = call.tool
      /\ call'.answer = call.answer /\ call'.left = call.left \ {n} /\ call'.queue = q
      /\ call'.found = call.found /\ call'.cut = call.cut
  BY <1>1, <1>2, <1>f DEF At, AllFields
<1>4. VaultOK'  BY <1>2, <1>3 DEF Told, VaultOK
<1>5. PhaseInv' /\ FreshInv' /\ SearchInv' /\ InfoInv'
  BY <1>1, <1>3 DEF Told, AnswerInv, PhaseInv, FreshInv, SearchInv, InfoInv, At, Is
<1>6. /\ call.left \subseteq Notes /\ call.queue \subseteq Notes \ call.left
      /\ call.found = {} /\ ~call.cut
      /\ \A m \in same \ call.left : m \in call.queue <=> vault[m].kind \in Seen
  BY <1>1 DEF Told, AnswerInv, ListInv
<1>7. \A m \in same \ call'.left : m \in call'.queue <=> vault[m].kind \in Seen
  <2> TAKE m \in same \ call'.left
  <2>1. CASE m = n  BY <2>1, <1>1, <1>3, <1>6, <1>q, Zenon
  <2>2. CASE m # n
    <3>1. m \in same \ call.left  BY <2>2, <1>3
    <3> QED  BY <2>2, <3>1, <1>3, <1>6, <1>q
  <2> QED  BY <2>1, <2>2
<1>8. ListInv'
  BY <1>1, <1>2, <1>3, <1>6, <1>7, <1>q DEF ListInv
<1>9. NothingHidden'  BY <1>3, UnansweredHides
<1> QED  BY <1>4, <1>5, <1>8, <1>9 DEF Told, AnswerInv

\* The first Most names, and the others are not: notes_list cuts the sorted list.
LEMMA ListCut ==
    ASSUME NEW Q, Q \subseteq Nat, IsFiniteSet(Q), NEW k \in Nat
    PROVE  /\ First(Q, k) \subseteq Q
           /\ Cardinality(Q) <= k => First(Q, k) = Q
           /\ Cardinality(Q) > k => Cardinality(First(Q, k)) = k /\ First(Q, k) # Q
           /\ \A n \in First(Q, k), m \in Q : m < n => m \in First(Q, k)
<1>1. First(Q, k) \subseteq Q  BY DEF First
<1>2. Cardinality(Q) \in Nat /\ \A n \in Q : /\ IsFiniteSet(Before(Q, n))
                                             /\ Cardinality(Before(Q, n)) \in Nat
                                             /\ Cardinality(Before(Q, n)) < Cardinality(Q)
  <2>1. Cardinality(Q) \in Nat  BY FS_CardinalityType
  <2>2. ASSUME NEW n \in Q
        PROVE  /\ IsFiniteSet(Before(Q, n)) /\ Cardinality(Before(Q, n)) \in Nat
               /\ Cardinality(Before(Q, n)) < Cardinality(Q)
    <3>1. Before(Q, n) \subseteq Q /\ n \notin Before(Q, n)  BY DEF Before
    <3>2. IsFiniteSet(Before(Q, n)) /\ Cardinality(Before(Q, n)) <= Cardinality(Q)
          /\ (Cardinality(Before(Q, n)) = Cardinality(Q) => Before(Q, n) = Q)
      BY <3>1, FS_Subset
    <3>3. Cardinality(Before(Q, n)) \in Nat  BY <3>2, FS_CardinalityType
    <3> QED  BY <2>1, <3>1, <3>2, <3>3
  <2> QED  BY <2>1, <2>2
<1>3. ASSUME Cardinality(Q) <= k PROVE First(Q, k) = Q
  <2>1. \A n \in Q : Cardinality(Before(Q, n)) < k  BY <1>2, <1>3
  <2> QED  BY <2>1 DEF First
<1>4. ASSUME Cardinality(Q) > k PROVE Cardinality(First(Q, k)) = k /\ First(Q, k) # Q
  <2>0. k <= Cardinality(Q)  BY <1>2, <1>4
  <2>1. Cardinality(First(Q, k)) = k  BY <2>0, FirstCount
  <2> QED  BY <1>2, <1>4, <2>1
<1>5. ASSUME NEW n \in First(Q, k), NEW m \in Q, m < n PROVE m \in First(Q, k)
  <2>1. n \in Q /\ Cardinality(Before(Q, n)) < k  BY DEF First
  <2>2. Before(Q, m) \subseteq Before(Q, n)
    <3>1. n \in Nat /\ m \in Nat  BY <2>1
    <3>2. ASSUME NEW l \in Q, l < m PROVE l < n
      <4>1. l \in Nat  OBVIOUS
      <4> QED  BY <1>5, <3>1, <3>2, <4>1
    <3> QED  BY <3>2 DEF Before
  <2>3. Cardinality(Before(Q, m)) <= Cardinality(Before(Q, n))  BY <1>2, <2>1, <2>2, FS_Subset
  <2>4. Cardinality(Before(Q, m)) < k  BY <1>2, <2>1, <2>3
  <2> QED  BY <2>4 DEF First
<1> QED  BY <1>1, <1>3, <1>4, <1>5

LEMMA ListToldOK == Told /\ ListTold => Told'
<1> SUFFICES ASSUME Told, ListTold PROVE Told'  OBVIOUS
<1>f. AllFields \subseteq DOMAIN call  BY DEF Told, VaultOK
<1>1. At("list") /\ call.left = {} /\ Is(VaultTools)
  BY DEF ListTold, Told, AnswerInv, PhaseInv
<1>2. /\ call.queue \subseteq Notes /\ call.found = {} /\ ~call.cut /\ same \subseteq Notes
      /\ \A n \in same : n \in call.queue <=> vault[n].kind \in Seen
  BY <1>1 DEF Told, AnswerInv, ListInv, VaultOK
<1>3. call.queue \subseteq Nat /\ IsFiniteSet(call.queue)
  BY <1>2, NotesAssumption, FS_Subset
<1>4. CASE Is({"notes_list"})
  <2> DEFINE first == First(call.queue, Most)
  <2>1. call' = [call EXCEPT !.found = first, !.cut = Cardinality(call.queue) > Most,
                             !.pc = "idle", !.answer = "ok"]
        /\ UNCHANGED <<vault, same>>
    BY <1>4 DEF ListTold, Answer, Goes, First, Before
  <2>2. /\ first \subseteq call.queue
        /\ Cardinality(call.queue) <= Most => first = call.queue
        /\ Cardinality(call.queue) > Most => Cardinality(first) = Most /\ first # call.queue
        /\ \A n \in first, m \in call.queue : m < n => m \in first
    BY <1>3, NotesAssumption, ListCut
  <2>3. Cardinality(call.queue) <= Most \/ Cardinality(call.queue) > Most
    BY <1>3, NotesAssumption, FS_CardinalityType
  <2> HIDE DEF first
  <2>4. /\ AllFields \subseteq DOMAIN call' /\ call'.pc = "idle" /\ call'.answer = "ok"
        /\ call'.tool = call.tool /\ call'.found = first
    BY <2>1, <1>f DEF AllFields
  <2>5. call'.cut <=> Cardinality(call.queue) > Most
    BY <2>1, <1>f, Zenon DEF AllFields
  <2>6. VaultOK' /\ AnswerInv'  BY <2>1, <2>4, OtherAnswer
  <2>7. \A n : Gives(n)' = {m \in {n} : vault[n].kind \in Seen}
    BY <1>4, <2>1, <2>4 DEF Gives, Is
  <2>8. \A n \in same : n \in call.queue => Gives(n)' = {n}
    BY <1>2, <2>7
  <2>9. \A n \in same : n \notin call.queue => Gives(n)' = {}
    BY <1>2, <2>7
  <2>10. ~call'.cut => \A n \in same' : Gives(n)' \subseteq call'.found
    BY <2>1, <2>2, <2>3, <2>4, <2>5, <2>8, <2>9
  <2>11. call'.cut => Cardinality(call'.found) = Most
    BY <2>2, <2>4, <2>5
  <2>12. \A n \in same' : \A m \in same' :
            m < n /\ Gives(n)' \cap call'.found # {} => Gives(m)' \subseteq call'.found
    <3> SUFFICES ASSUME NEW n \in same, NEW m \in same, m < n,
                        Gives(n)' \cap first # {}
                 PROVE  Gives(m)' \subseteq first
      BY <2>1, <2>4
    <3>1. n \in first  BY <2>8, <2>9
    <3>2. CASE m \in call.queue
      <4>1. m \in first  BY <2>2, <3>1, <3>2
      <4> QED  BY <2>8, <3>2, <4>1
    <3>3. CASE m \notin call.queue  BY <2>9, <3>3
    <3> QED  BY <3>2, <3>3
  <2>13. same' = Notes => LET all == UNION {Gives(n)' : n \in Notes} IN
                          call'.found \subseteq all /\ (call'.cut => call'.found # all)
    <3> SUFFICES ASSUME same = Notes
                 PROVE  LET all == UNION {Gives(n)' : n \in Notes} IN
                        first \subseteq all /\ (call'.cut => first # all)
      BY <2>1, <2>4
    <3>1. UNION {Gives(n)' : n \in Notes} = call.queue  BY <1>2, <2>8, <2>9
    <3> QED  BY <3>1, <2>2, <2>5
  <2>14. NothingHidden'
    BY <1>4, <2>4, <2>10, <2>11, <2>12, <2>13 DEF NothingHidden, Is
  <2> QED  BY <2>6, <2>14 DEF Told
<1>5. CASE ~Is({"notes_list"})
  <2>1. call' = [call EXCEPT !.pc = "search"] /\ UNCHANGED <<vault, same>>
    BY <1>5 DEF ListTold, Goes
  <2>2. /\ AllFields \subseteq DOMAIN call' /\ call'.pc = "search" /\ call'.tool = call.tool
        /\ call'.answer = call.answer /\ call'.queue = call.queue
        /\ call'.found = call.found /\ call'.cut = call.cut
    BY <2>1, <1>f DEF AllFields
  <2>3. VaultOK'  BY <2>1, <2>2 DEF Told, VaultOK
  <2>4. Is({"notes_search"})' /\ call.answer = ""
    BY <1>1, <1>5, <2>2 DEF Is, VaultTools, Told, AnswerInv, PhaseInv, At
  <2>5. PhaseInv' /\ FreshInv' /\ ListInv' /\ InfoInv'
    BY <2>2, <2>4 DEF PhaseInv, FreshInv, ListInv, InfoInv, At, Is
  <2>6. \A n \in same' \ call'.queue : Gives(n)' = {}
    <3> TAKE n \in same' \ call'.queue
    <3>1. n \in Notes /\ ~(vault'[n].kind \in Seen)  BY <1>2, <2>1, <2>2
    <3>2. HitsIn(n)' = 0  BY <3>1 DEF HitsIn, Seen
    <3>3. ~Is({"notes_list"})'  BY <2>4 DEF Is
    <3>4. Gives(n)' = {<<n, i>> : i \in 1..0}  BY <3>2, <3>3 DEF Gives
    <3> QED  BY <3>4
  <2>7. Cardinality(call'.found) <= Most /\ IsFiniteSet(call'.found)
    BY <1>2, <2>2, FS_EmptySet, NotesAssumption
  <2>8. SearchInv'
    BY <1>2, <2>1, <2>2, <2>6, <2>7 DEF SearchInv
  <2>9. NothingHidden'  BY <2>2, UnansweredHides
  <2> QED  BY <2>3, <2>5, <2>8, <2>9 DEF Told, AnswerInv
<1> QED  BY <1>4, <1>5

\* What a note gives to the answer of notes_search.
LEMMA SearchGives ==
    ASSUME Is({"notes_search"}), NEW n
    PROVE  Gives(n) = {<<n, i>> : i \in 1..HitsIn(n)}
BY DEF Gives, Is

\* The next note of a search.
LEMMA NoteSearchedToldOK == Told /\ NoteSearched => Told'
<1> SUFFICES ASSUME Told, NoteSearched PROVE Told'  OBVIOUS
<1>0. PICK n : n = Least(call.queue)  OBVIOUS
<1>f. AllFields \subseteq DOMAIN call  BY DEF Told, VaultOK
<1>1. At("search") /\ call.queue # {} /\ ~call.cut /\ Searching(n, call.queue \ {n})
  BY <1>0 DEF NoteSearched
<1>2. Is({"notes_search"}) /\ Is(VaultTools) /\ call.answer = ""
  BY <1>1 DEF Told, AnswerInv, PhaseInv, At, Is, VaultTools
<1>3. /\ call.queue \subseteq Notes
      /\ call.found \subseteq Notes \X Nat /\ IsFiniteSet(call.found)
      /\ \A m \in same \cap call.queue : vault[m].kind \in Seen
      /\ \A e \in call.found : /\ e[1] \in same => e \in Gives(e[1])
                               /\ \A m \in call.queue : e[1] < m
      /\ Cardinality(call.found) <= Most
      /\ \A m \in same \ call.queue : Gives(m) \subseteq call.found
  BY <1>1, Zenon DEF Told, AnswerInv, SearchInv
<1>4. /\ call.queue \subseteq Nat /\ n \in call.queue /\ n \in Nat /\ n \in Notes
      /\ \A m \in call.queue \ {n} : n < m
  <2>1. call.queue \subseteq Nat  BY <1>3, NotesAssumption
  <2>2. n \in call.queue /\ \A m \in call.queue : n <= m  BY <1>0, <1>1, <2>1, LeastDefined
  <2>3. ASSUME NEW m \in call.queue, m # n PROVE n < m
    <3>1. n \in Nat /\ m \in Nat  BY <2>1, <2>2
    <3> QED  BY <2>2, <2>3, <3>1
  <2> QED  BY <1>3, <2>1, <2>2, <2>3
<1>5. CASE vault[n].kind \notin {"file", "link"}
  <2>1. Answer("error", call, said)  BY <1>1, <1>5 DEF Searching
  <2>2. /\ AllFields \subseteq DOMAIN call' /\ call'.pc = "idle" /\ call'.answer = "error"
        /\ call'.tool = call.tool /\ UNCHANGED <<vault, same>>
    BY <2>1, <1>f DEF Answer, Goes, AllFields
  <2>3. VaultOK' /\ AnswerInv'  BY <2>2, OtherAnswer
  <2>4. same' # Notes \/ \E m \in Notes : MayNotRead(m)'
    <3>1. CASE n \notin same  BY <1>4, <2>2, <3>1
    <3>2. CASE n \in same
      <4>1. vault[n].kind = "barred"  BY <1>3, <1>4, <1>5, <3>2 DEF Seen
      <4> QED  BY <1>2, <1>4, <2>2, <4>1 DEF MayNotRead, Is
    <3> QED  BY <3>1, <3>2
  <2>5. NothingHidden'  BY <2>2, <2>4 DEF NothingHidden
  <2> QED  BY <2>3, <2>5 DEF Told
<1>6. CASE vault[n].kind \in {"file", "link"}
  <2> DEFINE K == IF HitsIn(n) > Room THEN Room ELSE HitsIn(n)
             T == {<<n, i>> : i \in 1..K}
  <2>1. /\ call' = [call EXCEPT !.queue = call.queue \ {n}, !.found = call.found \cup T,
                                !.cut = HitsIn(n) > Room]
        /\ UNCHANGED <<vault, same>>
    BY <1>1, <1>6 DEF Searching, Goes
  <2>2. /\ HitsIn(n) \in Nat /\ Room \in Nat /\ Cardinality(call.found) \in Nat
        /\ Most = Cardinality(call.found) + Room
    <3>1. HitsIn(n) \in Nat  BY <1>4, HitsType DEF Told
    <3>2. Cardinality(call.found) \in Nat  BY <1>3, FS_CardinalityType
    <3> QED  BY <1>3, <3>1, <3>2, NotesAssumption DEF Room
  <2>3. K \in Nat /\ K <= HitsIn(n) /\ K <= Room
        /\ (HitsIn(n) > Room => K = Room) /\ (~(HitsIn(n) > Room) => K = HitsIn(n))
    BY <2>2
  <2> HIDE DEF K
  <2>4. IsFiniteSet(T) /\ Cardinality(T) = K  BY <2>3, HitsCount
  <2>5. \A e \in T : e[1] = n /\ \E i \in 1..K : e = <<n, i>>
    OBVIOUS
  <2>t. \A i \in 1..K : <<n, i>> \in T  OBVIOUS
  <2>t2. \A i \in Nat : <<n, i>> \in T => i \in 1..K  OBVIOUS
  <2> HIDE DEF T
  <2>6. T \cap call.found = {}
    <3> SUFFICES ASSUME NEW e \in T, e \in call.found PROVE FALSE  OBVIOUS
    <3>1. e[1] = n /\ e[1] < n  BY <1>3, <1>4, <2>5
    <3> QED  BY <1>4, <3>1
  <2>7. /\ IsFiniteSet(call.found \cup T)
        /\ Cardinality(call.found \cup T) = Cardinality(call.found) + K
    <3>1. /\ IsFiniteSet(call.found \cup T)
          /\ Cardinality(call.found \cup T) =
                 Cardinality(call.found) + Cardinality(T) - Cardinality(call.found \cap T)
      BY <1>3, <2>4, FS_Union
    <3>2. Cardinality(call.found \cap T) = 0
      <4>1. call.found \cap T = {}  BY <2>6
      <4> QED  BY <4>1, FS_EmptySet
    <3> QED  BY <2>2, <2>3, <2>4, <3>1, <3>2
  <2>8. /\ AllFields \subseteq DOMAIN call' /\ call'.pc = "search" /\ call'.tool = call.tool
        /\ call'.answer = "" /\ call'.queue = call.queue \ {n}
        /\ call'.found = call.found \cup T
    BY <1>1, <1>2, <2>1, <1>f DEF At, AllFields
  <2>9. call'.cut <=> HitsIn(n) > Room
    BY <2>1, <1>f, Zenon DEF AllFields
  <2>10. VaultOK'  BY <2>1, <2>8 DEF Told, VaultOK
  <2>11. PhaseInv' /\ FreshInv' /\ ListInv' /\ InfoInv'
    BY <1>2, <2>8 DEF PhaseInv, FreshInv, ListInv, InfoInv, At, Is
  <2>g. \A m : Gives(m)' = Gives(m)
    BY <2>1, <2>8, GivesKept
  <2>g1. Gives(n) = {<<n, i>> : i \in 1..HitsIn(n)}  BY <1>2, SearchGives
  <2>12. \A e \in T : e \in Gives(n)
    <3> TAKE e \in T
    <3>1. PICK i \in 1..K : e = <<n, i>>  BY <2>5
    <3>2. i \in 1..HitsIn(n)  BY <2>2, <2>3
    <3> QED  BY <2>g1, <3>1, <3>2
  <2>13. T \subseteq Notes \X Nat
    <3> SUFFICES ASSUME NEW e \in T PROVE e \in Notes \X Nat  OBVIOUS
    <3>1. PICK i \in 1..K : e = <<n, i>>  BY <2>5
    <3> QED  BY <1>4, <3>1
  <2>14. \A e \in call'.found : /\ e[1] \in same' => e \in Gives(e[1])'
                                /\ \A m \in call'.queue : e[1] < m
    <3> TAKE e \in call'.found
    <3>1. CASE e \in call.found  BY <1>3, <2>1, <2>8, <2>g, <3>1
    <3>2. CASE e \in T
      <4>1. e[1] = n  BY <2>5, <3>2
      <4> QED  BY <1>4, <2>8, <2>12, <2>g, <3>2, <4>1
    <3> QED  BY <2>8, <3>1, <3>2
  <2>15. ASSUME HitsIn(n) > Room
         PROVE  Cardinality(call'.found) = Most /\ \E c \in Notes : CutAt(c)'
    <3>1. Cardinality(call'.found) = Most  BY <2>2, <2>3, <2>7, <2>8, <2>15
    <3>2. \A e \in call'.found : e[1] <= n
      <4> TAKE e \in call'.found
      <4>1. CASE e \in call.found
        <5>1. e[1] \in Nat /\ e[1] < n  BY <1>3, <1>4, <4>1, NotesAssumption
        <5> QED  BY <1>4, <5>1
      <4>2. CASE e \in T  BY <1>4, <2>5, <4>2
      <4> QED  BY <2>8, <4>1, <4>2
    <3>3. \A m \in call'.queue : n < m  BY <1>4, <2>8
    <3>4. \A m \in same' \ (call'.queue \cup {n}) : Gives(m)' \subseteq call'.found
      <4> TAKE m \in same' \ (call'.queue \cup {n})
      <4>1. m \in same \ call.queue  BY <2>1, <2>8
      <4> QED  BY <1>3, <2>8, <2>g, <4>1
    <3>5. ~(Gives(n)' \subseteq call'.found)
      <4>1. HitsIn(n) \in 1..HitsIn(n) /\ ~(HitsIn(n) \in 1..K)  BY <2>2, <2>3, <2>15
      <4>2. <<n, HitsIn(n)>> \in Gives(n)  BY <2>g1, <4>1
      <4>3. ~(<<n, HitsIn(n)>> \in T)  BY <2>2, <2>t2, <4>1
      <4>4. ~(<<n, HitsIn(n)>> \in call.found)
        <5>1. <<n, HitsIn(n)>>[1] = n /\ ~(n < n)  BY <1>4
        <5> QED  BY <1>3, <1>4, <5>1
      <4>5. ~(<<n, HitsIn(n)>> \in call'.found)  BY <2>8, <4>3, <4>4
      <4>6. Gives(n)' = Gives(n)  BY <2>g
      <4> QED  BY <4>2, <4>5, <4>6, Zenon
    <3>6. CutAt(n)'  BY <3>2, <3>3, <3>4, <3>5, Zenon DEF CutAt
    <3> QED  BY <1>4, <3>1, <3>6, Zenon
  <2>16. ASSUME ~(HitsIn(n) > Room)
         PROVE  /\ Cardinality(call'.found) <= Most
                /\ \A m \in same' \ call'.queue : Gives(m)' \subseteq call'.found
    <3>0. Cardinality(call'.found) = Cardinality(call.found) + K  BY <2>7, <2>8
    <3>1. Cardinality(call'.found) <= Most  BY <2>2, <2>3, <3>0
    <3>2. ASSUME NEW m \in same' \ call'.queue
          PROVE  Gives(m)' \subseteq call'.found
      <4>1. CASE m = n
        <5>1. ASSUME NEW e \in Gives(n) PROVE e \in T
          <6>1. PICK i \in 1..HitsIn(n) : e = <<n, i>>  BY <2>g1
          <6>2. i \in 1..K  BY <2>3, <2>16
          <6> QED  BY <2>t, <6>1, <6>2
        <5> QED  BY <2>8, <2>g, <4>1, <5>1
      <4>2. CASE m # n
        <5>1. m \in same \ call.queue  BY <2>1, <2>8, <4>2
        <5> QED  BY <1>3, <2>8, <2>g, <5>1
      <4> QED  BY <4>1, <4>2
    <3> QED  BY <3>1, <3>2
  <2>17. SearchInv'
    <3>1. /\ call'.queue \subseteq Notes
          /\ call'.found \subseteq Notes \X Nat /\ IsFiniteSet(call'.found)
          /\ \A m \in same' \cap call'.queue : vault'[m].kind \in Seen
      BY <1>3, <2>1, <2>7, <2>8, <2>13
    <3>2. IF call'.cut
          THEN Cardinality(call'.found) = Most /\ \E c \in Notes : CutAt(c)'
          ELSE /\ Cardinality(call'.found) <= Most
               /\ \A m \in same' \ call'.queue : Gives(m)' \subseteq call'.found
      BY <2>9, <2>15, <2>16, Zenon
    <3> QED  BY <2>14, <3>1, <3>2, Zenon DEF SearchInv
  <2>18. NothingHidden'  BY <2>8, UnansweredHides
  <2> QED  BY <2>10, <2>11, <2>17, <2>18 DEF Told, AnswerInv
<1> QED  BY <1>5, <1>6

\* A search that is over has searched every note, or all before the one it was cut at.
LEMMA SearchToldOK == Told /\ SearchTold => Told'
<1> SUFFICES ASSUME Told, SearchTold PROVE Told'  OBVIOUS
<1>f. AllFields \subseteq DOMAIN call  BY DEF Told, VaultOK
<1>1. At("search") /\ (call.queue = {} \/ call.cut) /\ Answer("ok", call, said)
  BY DEF SearchTold
<1>2. Is({"notes_search"}) /\ Is(VaultTools)
  BY <1>1 DEF Told, AnswerInv, PhaseInv, Is, VaultTools
<1>3. /\ AllFields \subseteq DOMAIN call' /\ call'.pc = "idle" /\ call'.answer = "ok"
      /\ call'.tool = call.tool /\ call'.found = call.found
      /\ UNCHANGED <<vault, same>>
  BY <1>1, <1>f DEF Answer, Goes, AllFields
<1>c. call'.cut <=> call.cut
  <2>1. call' = [call EXCEPT !.pc = "idle", !.answer = "ok"]  BY <1>1 DEF Answer, Goes
  <2> QED  BY <2>1, <1>f, Zenon DEF AllFields
<1>4. VaultOK' /\ AnswerInv'  BY <1>3, OtherAnswer
<1>s. /\ same \subseteq Notes /\ Notes \subseteq Nat
      /\ call.found \subseteq Notes \X Nat
      /\ \A e \in call.found : e[1] \in same => e \in Gives(e[1])
      /\ call.cut => Cardinality(call.found) = Most /\ \E c \in Notes : CutAt(c)
      /\ ~call.cut => \A m \in same \ call.queue : Gives(m) \subseteq call.found
  <2>1. same \subseteq Notes /\ Notes \subseteq Nat  BY NotesAssumption DEF Told, VaultOK
  <2>2. SearchInv  BY DEF Told, AnswerInv
  <2> QED  BY <1>1, <2>1, <2>2, Zenon DEF SearchInv
<1>g. \A n : Gives(n)' = Gives(n)  BY <1>3, GivesKept
<1>g1. \A n : \A e \in Gives(n) : e[1] = n
  <2>1. \A n : Gives(n) = {<<n, i>> : i \in 1..HitsIn(n)}  BY <1>2, SearchGives
  <2> QED  BY <2>1
<1>5. ~call'.cut => \A n \in same' : Gives(n)' \subseteq call'.found
  BY <1>1, <1>s, <1>3, <1>c, <1>g
<1>6. call'.cut => Cardinality(call'.found) = Most
  BY <1>s, <1>3, <1>c
<1>7. \A n \in same' : \A m \in same' :
         m < n /\ Gives(n)' \cap call'.found # {} => Gives(m)' \subseteq call'.found
  <2> SUFFICES ASSUME NEW n \in same, NEW m \in same, m < n, Gives(n) \cap call.found # {}
               PROVE  Gives(m) \subseteq call.found
    BY <1>3, <1>g
  <2>1. CASE ~call.cut  BY <2>1, <1>1, <1>s
  <2>2. CASE call.cut
    <3>1. PICK c \in Notes : CutAt(c)  BY <2>2, <1>s
    <3>2. PICK e \in call.found : e[1] = n  BY <1>g1
    <3>3. m \in Nat /\ n \in Nat /\ c \in Nat  BY <1>s
    <3>4. n <= c  BY <3>1, <3>2 DEF CutAt
    <3>5. m < c  BY <3>3, <3>4
    <3>6. m \notin call.queue \cup {c}
      <4>1. \A l \in call.queue : c < l  BY <3>1 DEF CutAt
      <4> QED  BY <3>3, <3>5, <4>1
    <3> QED  BY <3>1, <3>6 DEF CutAt
  <2> QED  BY <2>1, <2>2
<1>8. same' = Notes => LET all == UNION {Gives(n)' : n \in Notes} IN
                       call'.found \subseteq all /\ (call'.cut => call'.found # all)
  <2> SUFFICES ASSUME same = Notes
               PROVE  LET all == UNION {Gives(n) : n \in Notes} IN
                      call.found \subseteq all /\ (call.cut => call.found # all)
    BY <1>3, <1>c, <1>g
  <2> DEFINE all == UNION {Gives(n) : n \in Notes}
  <2>1. \A e \in call.found : e[1] \in Notes /\ e \in Gives(e[1])  BY <1>s
  <2>2. call.found \subseteq all  BY <2>1
  <2>3. ASSUME call.cut PROVE call.found # all
    <3>1. PICK c \in Notes : CutAt(c)  BY <2>3, <1>s
    <3>2. ~(Gives(c) \subseteq call.found)  BY <3>1 DEF CutAt
    <3>3. Gives(c) \subseteq all  OBVIOUS
    <3> QED  BY <3>2, <3>3
  <2> QED  BY <2>2, <2>3
<1>9. NothingHidden'
  BY <1>2, <1>3, <1>5, <1>6, <1>7, <1>8 DEF NothingHidden, Is, VaultTools
<1> QED  BY <1>4, <1>9 DEF Told

\* Who changes a note takes it from those that the answer speaks of, and no other.
LEMMA OthersToldOK ==
    ASSUME Told, NEW n \in Notes, NEW note \in NoteStates, OthersChange(n, note)
    PROVE  Told'
<1>1. /\ ~At("idle") /\ vault' = [vault EXCEPT ![n] = note] /\ same' = same \ {n}
      /\ call' = call /\ said' = said
  BY DEF OthersChange
<1>2. VaultOK'  BY <1>1 DEF Told, VaultOK
<1>3. \A m \in same' : vault'[m] = vault[m] /\ m \in same
  BY <1>1 DEF Told, VaultOK
<1>4. \A m \in same' : Gives(m)' = Gives(m)  BY <1>1, <1>3, GivesKept
<1>5. PhaseInv' /\ FreshInv' /\ InfoInv'
  BY <1>1 DEF Told, AnswerInv, PhaseInv, FreshInv, InfoInv, At, Is
<1>6. ListInv'
  BY <1>1, <1>3 DEF Told, AnswerInv, ListInv, At
<1>7. SearchInv'
  <2> SUFFICES ASSUME At("search") PROVE SearchInv'
    BY <1>1 DEF SearchInv, At
  <2>0. SearchInv  BY DEF Told, AnswerInv
  <2>1. /\ call.queue \subseteq Notes
        /\ call.found \subseteq Notes \X Nat /\ IsFiniteSet(call.found)
        /\ \A m \in same \cap call.queue : vault[m].kind \in Seen
        /\ \A e \in call.found : /\ e[1] \in same => e \in Gives(e[1])
                                 /\ \A m \in call.queue : e[1] < m
        /\ call.cut => Cardinality(call.found) = Most /\ \E c \in Notes : CutAt(c)
        /\ ~call.cut => /\ Cardinality(call.found) <= Most
                        /\ \A m \in same \ call.queue : Gives(m) \subseteq call.found
    BY <2>0, Zenon DEF SearchInv
  <2>2. ASSUME NEW c \in Notes, CutAt(c) PROVE CutAt(c)'
    <3>1. /\ \A e \in call.found : e[1] <= c
          /\ \A m \in call.queue : c < m
          /\ \A m \in same \ (call.queue \cup {c}) : Gives(m) \subseteq call.found
          /\ c \in same => ~(Gives(c) \subseteq call.found)
      BY <2>2 DEF CutAt
    <3>2. \A m \in same' \ (call'.queue \cup {c}) : Gives(m)' \subseteq call'.found
      BY <1>1, <1>3, <1>4, <3>1
    <3>3. c \in same' => ~(Gives(c)' \subseteq call'.found)
      BY <1>1, <1>3, <1>4, <3>1
    <3> QED  BY <1>1, <3>1, <3>2, <3>3, Zenon DEF CutAt
  <2>3. /\ call'.queue \subseteq Notes
        /\ call'.found \subseteq Notes \X Nat /\ IsFiniteSet(call'.found)
        /\ \A m \in same' \cap call'.queue : vault'[m].kind \in Seen
    BY <1>1, <1>3, <2>1
  <2>4. \A e \in call'.found : /\ e[1] \in same' => e \in Gives(e[1])'
                               /\ \A m \in call'.queue : e[1] < m
    BY <1>1, <1>3, <1>4, <2>1
  <2>5. call'.cut => Cardinality(call'.found) = Most /\ \E c \in Notes : CutAt(c)'
    BY <1>1, <2>1, <2>2, Zenon
  <2>6. ~call'.cut => /\ Cardinality(call'.found) <= Most
                      /\ \A m \in same' \ call'.queue : Gives(m)' \subseteq call'.found
    <3>1. ~call.cut => \A m \in same' \ call.queue : Gives(m)' \subseteq call.found
      BY <1>3, <1>4, <2>1
    <3> QED  BY <1>1, <2>1, <3>1, Zenon
  <2> QED  BY <2>3, <2>4, <2>5, <2>6, Zenon DEF SearchInv
<1>8. NothingHidden'  BY <1>1, UnansweredHides DEF At
<1> QED  BY <1>2, <1>5, <1>6, <1>7, <1>8 DEF Told, AnswerInv

LEMMA UnchangedToldOK == Told /\ UNCHANGED vars => Told'
<1> SUFFICES ASSUME Told, UNCHANGED vars PROVE Told'  OBVIOUS
<1>1. vault' = vault /\ same' = same /\ call' = call /\ said' = said  BY DEF vars
<1>2. VaultOK'  BY <1>1 DEF Told, VaultOK
<1>3. PhaseInv' /\ FreshInv' /\ ListInv' /\ InfoInv'
  BY <1>1 DEF Told, AnswerInv, PhaseInv, FreshInv, ListInv, InfoInv, At, Is
<1>4. \A n : Gives(n)' = Gives(n)  BY <1>1, GivesKept
<1>5. \A c : CutAt(c) => CutAt(c)'
  <2> SUFFICES ASSUME NEW c, CutAt(c) PROVE CutAt(c)'  OBVIOUS
  <2>1. \A n \in same' \ (call'.queue \cup {c}) : Gives(n)' \subseteq call'.found
    BY <1>1, <1>4 DEF CutAt
  <2>2. c \in same' => ~(Gives(c)' \subseteq call'.found)
    BY <1>1, <1>4 DEF CutAt
  <2>3. (\A e \in call'.found : e[1] <= c) /\ (\A n \in call'.queue : c < n)
    BY <1>1 DEF CutAt
  <2> QED  BY <2>1, <2>2, <2>3, Zenon DEF CutAt
<1>6. SearchInv'
  <2> SUFFICES ASSUME At("search") PROVE SearchInv'
    BY <1>1 DEF SearchInv, At
  <2>1. /\ call.queue \subseteq Notes
        /\ call.found \subseteq Notes \X Nat /\ IsFiniteSet(call.found)
        /\ \A m \in same \cap call.queue : vault[m].kind \in Seen
        /\ \A e \in call.found : /\ e[1] \in same => e \in Gives(e[1])
                                 /\ \A m \in call.queue : e[1] < m
        /\ IF call.cut
           THEN Cardinality(call.found) = Most /\ \E c \in Notes : CutAt(c)
           ELSE /\ Cardinality(call.found) <= Most
                /\ \A n \in same \ call.queue : Gives(n) \subseteq call.found
    BY Zenon DEF Told, AnswerInv, SearchInv
  <2>2. \A e \in call'.found : /\ e[1] \in same' => e \in Gives(e[1])'
                               /\ \A m \in call'.queue : e[1] < m
    BY <1>1, <1>4, <2>1
  <2>3. ~call.cut => \A n \in same' \ call'.queue : Gives(n)' \subseteq call'.found
    BY <1>1, <1>4, <2>1
  <2> QED  BY <1>1, <1>5, <2>1, <2>2, <2>3, Zenon DEF SearchInv
<1>7. NothingHidden'
  <2> SUFFICES ASSUME At("idle") PROVE NothingHidden'
    BY <1>1 DEF NothingHidden, At
  <2>0. NothingHidden  BY DEF Told
  <2>1. \A n \in same' : \A m \in same' :
           m < n /\ Gives(n)' \cap call'.found # {} /\ call.answer = "ok" /\ Is(VaultTools)
           => Gives(m)' \subseteq call'.found
    BY <1>1, <1>4, <2>0 DEF NothingHidden
  <2>2. UNION {Gives(n)' : n \in Notes} = UNION {Gives(n) : n \in Notes}
    BY <1>4
  <2>3. ~call.cut /\ call.answer = "ok" /\ Is(VaultTools)
        => \A n \in same' : Gives(n)' \subseteq call'.found
    BY <1>1, <1>4, <2>0 DEF NothingHidden
  <2>4. \A n : MayNotRead(n)' <=> MayNotRead(n)
    BY <1>1 DEF MayNotRead, Is
  <2> QED  BY <1>1, <2>0, <2>1, <2>2, <2>3, <2>4 DEF NothingHidden, Is
<1> QED  BY <1>2, <1>3, <1>6, <1>7 DEF Told, AnswerInv

LEMMA StepToldOK == Told /\ Step => Told'
<1> SUFFICES ASSUME Told, Step PROVE Told'  OBVIOUS
<1>1. CASE Gated  BY <1>1, GatedToldOK
<1>2. CASE Failed \/ Executed \/ StatusTold \/ ConflictSought  BY <1>2, PlainToldOK
<1>3. CASE StatusRun \/ Parsed  BY <1>3, ParseToldOK
<1>4. CASE \E n \in Notes : NoteListed(n)  BY <1>4, NoteListedToldOK
<1>5. CASE ListTold  BY <1>5, ListToldOK
<1>6. CASE NoteSearched  BY <1>6, NoteSearchedToldOK
<1>7. CASE SearchTold  BY <1>7, SearchToldOK
<1>8. CASE FilesSearched \/ TextCut \/ UnitsListed  BY <1>8, TextToldOK
<1>9. CASE InfoStep  BY <1>9, InfoStepToldOK
<1>10. CASE InfoTold  BY <1>10, InfoToldOK
<1> QED
  BY <1>1, <1>2, <1>3, <1>4, <1>5, <1>6, <1>7, <1>8, <1>9, <1>10, Zenon DEF Step

\* However many notes there are, whatever each of them matches, whoever changes them
\* meanwhile, and whichever of them the bridge may not read: what was there all along, in
\* directories it may list, is in the answer of notes_list and notes_search, or the answer
\* says that it was cut, at its cap and after what comes first, or it is an error, for
\* somebody changed a note or one may not be read; the same of a text that is cut, and of
\* the steps of get_system_info (notes.py, filesystem.py, git.py, system.py).
THEOREM NothingEverHidden == Spec => []NothingHidden
<1>1. Told /\ [Next]_vars => Told'
  <2> SUFFICES ASSUME Told, [Next]_vars PROVE Told'  OBVIOUS
  <2>1. CASE \E tool \in Tools : \E req \in Requests(tool) : Start(tool, req)
    BY <2>1, StartToldOK
  <2>2. CASE Step  BY <2>2, StepToldOK
  <2>3. CASE \E n \in Notes, note \in NoteStates : OthersChange(n, note)
    BY <2>3, OthersToldOK
  <2>4. CASE UNCHANGED vars  BY <2>4, UnchangedToldOK
  <2> QED  BY <2>1, <2>2, <2>3, <2>4, Zenon DEF Next
<1>2. Told => NothingHidden  BY DEF Told
<1> QED  BY InitToldOK, <1>1, <1>2, PTL DEF Spec

--------------------------------------------------------------------------
(* What git prints, change after change.                                   *)

\* A sequence that is put together of blocks, the first i of them in u[i].
Joins(u, b, n) == u[0] = <<>> /\ \A i \in 1..n : u[i] = u[i - 1] \o b[i]
JoinOf(u, b, n) == u = [i \in 0..n |-> u[i]] /\ Joins(u, b, n)

\* There is one, so PrintedTo is what its definition says.
LEMMA JoinExists ==
    ASSUME NEW n \in Nat, NEW b
    PROVE  \E u : JoinOf(u, b, n)
<1> DEFINE Good == {m \in Nat : \E u : JoinOf(u, b, m)}
<1>1. 0 \in Good
  <2> DEFINE u == [i \in 0..0 |-> <<>>]
  <2>1. u = [i \in 0..0 |-> u[i]] /\ u[0] = <<>>  OBVIOUS
  <2> HIDE DEF u
  <2>2. JoinOf(u, b, 0)  BY <2>1 DEF JoinOf, Joins
  <2> QED  BY <2>2
<1>2. ASSUME NEW m \in Nat, m \in Good PROVE m + 1 \in Good
  <2>1. PICK u : JoinOf(u, b, m)  BY <1>2
  <2>w. PICK w : w = u[m] \o b[m + 1]  OBVIOUS
  <2> DEFINE v == [i \in 0..(m + 1) |-> IF i = m + 1 THEN w ELSE u[i]]
  <2>2. /\ v = [i \in 0..(m + 1) |-> v[i]]
        /\ \A i \in 0..m : v[i] = u[i]
        /\ v[m + 1] = u[m] \o b[m + 1]
    <3>1. v = [i \in 0..(m + 1) |-> v[i]]  OBVIOUS
    <3>2. \A i \in 0..m : v[i] = u[i]  OBVIOUS
    <3>3. v[m + 1] = w  OBVIOUS
    <3> QED  BY <2>w, <3>1, <3>2, <3>3
  <2> HIDE DEF v
  <2>3. v[0] = <<>>
    <3>1. 0 \in 0..m  OBVIOUS
    <3> QED  BY <2>1, <2>2, <3>1 DEF JoinOf, Joins
  <2>4. ASSUME NEW i \in 1..(m + 1) PROVE v[i] = v[i - 1] \o b[i]
    <3>1. CASE i \in 1..m
      <4>1. u[i] = u[i - 1] \o b[i]  BY <2>1, <3>1 DEF JoinOf, Joins
      <4>2. i \in 0..m /\ i - 1 \in 0..m  BY <3>1
      <4>3. v[i] = u[i] /\ v[i - 1] = u[i - 1]  BY <2>2, <4>2
      <4> QED  BY <4>1, <4>3
    <3>2. CASE i = m + 1
      <4>1. i - 1 = m /\ m \in 0..m  BY <3>2
      <4>2. v[i - 1] = u[m]  BY <2>2, <4>1
      <4>3. v[m + 1] = u[m] \o b[m + 1]  BY <2>2
      <4>4. v[i] = u[m] \o b[i]  BY <3>2, <4>3, Zenon
      <4> QED  BY <4>2, <4>4, Zenon
    <3>3. i \in 1..m \/ i = m + 1  OBVIOUS
    <3> QED  BY <3>1, <3>2, <3>3, Zenon
  <2>5. JoinOf(v, b, m + 1)  BY <2>2, <2>3, <2>4 DEF JoinOf, Joins
  <2> QED  BY <2>5
<1>3. Nat \subseteq Good
  <2> HIDE DEF Good
  <2> QED  BY <1>1, <1>2, EveryNumber
<1> QED  BY <1>3

LEMMA Concatenated ==
    ASSUME NEW S, NEW s \in Seq(S), NEW t \in Seq(S)
    PROVE  /\ s \o t \in Seq(S) /\ Len(s \o t) = Len(s) + Len(t)
           /\ Len(s) \in Nat /\ Len(t) \in Nat /\ (t # <<>> => Len(t) > 0)
           /\ \A p \in 1..Len(s) : (s \o t)[p] = s[p]
           /\ \A p \in (Len(s) + 1)..(Len(s) + Len(t)) :
                 p - Len(s) \in DOMAIN t /\ (s \o t)[p] = t[p - Len(s)]
OBVIOUS

\* What is joined already stays where it is, each block adds something, and nothing else
\* does.
JoinedTo(S, u, b, i, w) ==
    /\ w \in Seq(S)
    /\ \A j \in 0..i : /\ Len(u[j]) \in Nat /\ Len(u[j]) <= Len(w)
                       /\ j < i => Len(u[j]) < Len(w)
                       /\ \A p \in 1..Len(u[j]) : w[p] = u[j][p]
    /\ \A p \in 1..Len(w) : \E j \in 1..i : \E q \in DOMAIN b[j] : w[p] = b[j][q]
Joined(S, u, b, i) == JoinedTo(S, u, b, i, u[i])

LEMMA JoinGrows ==
    ASSUME NEW S, NEW n \in Nat, NEW b, NEW u, Joins(u, b, n),
           \A i \in 1..n : b[i] \in Seq(S) /\ b[i] # <<>>
    PROVE  \A i \in 0..n : Joined(S, u, b, i)
<1> DEFINE Good == {i \in Nat : i <= n => Joined(S, u, b, i)}
<1>1. 0 \in Good
  <2>1. u[0] = <<>>  BY DEF Joins
  <2>2. u[0] \in Seq(S) /\ Len(u[0]) = 0  BY <2>1
  <2>3. Joined(S, u, b, 0)  BY <2>2 DEF Joined, JoinedTo
  <2> QED  BY <2>3
<1>2. ASSUME NEW i \in Nat, i \in Good PROVE i + 1 \in Good
  <2> SUFFICES ASSUME i + 1 <= n PROVE Joined(S, u, b, i + 1)  OBVIOUS
  <2>0. Joined(S, u, b, i) /\ i + 1 \in 1..n /\ (i + 1) - 1 = i  BY <1>2
  <2>1. u[i + 1] = u[(i + 1) - 1] \o b[i + 1]  BY <2>0 DEF Joins
  <2>2. u[i] \in Seq(S) /\ b[i + 1] \in Seq(S) /\ b[i + 1] # <<>>  BY <2>0 DEF Joined, JoinedTo
  <2>3. PICK s, t, w : s = u[i] /\ t = b[i + 1] /\ w = u[i + 1]  OBVIOUS
  <2>4. /\ w \in Seq(S) /\ Len(w) = Len(s) + Len(t)
        /\ Len(s) \in Nat /\ Len(t) \in Nat /\ Len(t) > 0
        /\ \A p \in 1..Len(s) : w[p] = s[p]
        /\ \A p \in (Len(s) + 1)..(Len(s) + Len(t)) :
              p - Len(s) \in DOMAIN t /\ w[p] = t[p - Len(s)]
    <3>1. w = s \o t /\ s \in Seq(S) /\ t \in Seq(S) /\ t # <<>>  BY <2>0, <2>1, <2>2, <2>3
    <3> QED  BY <3>1, Concatenated
  <2>5. ASSUME NEW j \in 0..(i + 1)
        PROVE  /\ Len(u[j]) \in Nat /\ Len(u[j]) <= Len(w)
               /\ j < i + 1 => Len(u[j]) < Len(w)
               /\ \A p \in 1..Len(u[j]) : w[p] = u[j][p]
    <3>1. CASE j = i + 1
      <4>1. u[j] = w /\ ~(j < i + 1)  BY <2>3, <3>1
      <4>2. Len(w) \in Nat  BY <2>4
      <4> QED  BY <4>1, <4>2
    <3>2. CASE j \in 0..i
      <4>1. Len(u[j]) \in Nat /\ Len(u[j]) <= Len(s) /\ \A p \in 1..Len(u[j]) : s[p] = u[j][p]
        BY <2>0, <2>3, <3>2 DEF Joined, JoinedTo
      <4>2. Len(u[j]) < Len(w)  BY <2>4, <4>1
      <4>3. \A p \in 1..Len(u[j]) : w[p] = u[j][p]
        <5> TAKE p \in 1..Len(u[j])
        <5>1. p \in 1..Len(s)  BY <2>4, <4>1
        <5> QED  BY <2>4, <4>1, <5>1
      <4>4. Len(w) \in Nat  BY <2>4
      <4> QED  BY <4>1, <4>2, <4>3, <4>4
    <3> QED  BY <3>1, <3>2
  <2>6. ASSUME NEW p \in 1..Len(w)
        PROVE  \E j \in 1..(i + 1) : \E q \in DOMAIN b[j] : w[p] = b[j][q]
    <3>1. CASE p \in 1..Len(s)
      <4>1. PICK j \in 1..i : \E q \in DOMAIN b[j] : s[p] = b[j][q]
        BY <2>0, <2>3, <3>1 DEF Joined, JoinedTo
      <4>2. w[p] = s[p] /\ j \in 1..(i + 1)  BY <2>4, <3>1
      <4> QED  BY <4>1, <4>2
    <3>2. CASE p \in (Len(s) + 1)..(Len(s) + Len(t))
      <4>1. i + 1 \in 1..(i + 1)  OBVIOUS
      <4>2. p - Len(s) \in DOMAIN b[i + 1] /\ w[p] = b[i + 1][p - Len(s)]  BY <2>3, <2>4, <3>2
      <4> QED  BY <4>1, <4>2
    <3> QED  BY <2>4, <3>1, <3>2, SMTT(30)
  <2>7. JoinedTo(S, u, b, i + 1, w)  BY <2>4, <2>5, <2>6, Zenon DEF JoinedTo
  <2> QED  BY <2>3, <2>7, Zenon DEF Joined
<1>3. Nat \subseteq Good
  <2> HIDE DEF Good
  <2> QED  BY <1>1, <1>2, EveryNumber
<1> QED
  <2>1. \A i \in 0..n : i \in Nat /\ i <= n  OBVIOUS
  <2> QED  BY <1>3, <2>1

\* The entries of one change after another, each where PrintedTo puts it.
LEMMA PrintedIs ==
    ASSUME NEW r, r \in Reports
    PROVE  /\ Len(r) \in Nat /\ DOMAIN r = 1..Len(r)
           /\ Joins(PrintedTo(r), [i \in 1..Len(r) |-> Block(r[i])], Len(r))
<1> DEFINE n == Len(r)
           b == [i \in 1..n |-> Block(r[i])]
<1>1. n \in Nat /\ DOMAIN r = 1..n
  <2>1. PICK S : r \in Seq(S)  BY ReportsAssumption, Zenon
  <2> QED  BY <2>1
<1>2. PICK f : JoinOf(f, b, n)  BY <1>1, JoinExists
<1>3. f = [i \in 0..n |-> IF i = 0 THEN <<>> ELSE f[i - 1] \o Block(r[i])]
  <2>1. f = [i \in 0..n |-> f[i]]  BY <1>2 DEF JoinOf
  <2>2. ASSUME NEW i \in 0..n
        PROVE  f[i] = IF i = 0 THEN <<>> ELSE f[i - 1] \o Block(r[i])
    <3>1. CASE i = 0  BY <1>2, <3>1 DEF JoinOf, Joins
    <3>2. CASE i # 0
      <4>1. i \in 1..n  BY <1>1, <3>2
      <4>2. f[i] = f[i - 1] \o b[i]  BY <1>2, <4>1 DEF JoinOf, Joins
      <4>3. b[i] = Block(r[i])  BY <4>1
      <4> HIDE DEF b
      <4> QED  BY <3>2, <4>2, <4>3, Zenon
    <3> QED  BY <3>1, <3>2
  <2> HIDE DEF n
  <2> QED  BY <2>1, <2>2, Zenon
<1>4. PrintedTo(r) = [i \in 0..n |-> IF i = 0 THEN <<>> ELSE PrintedTo(r)[i - 1] \o Block(r[i])]
  BY <1>3, Zenon DEF PrintedTo
<1>5. PICK u : u = PrintedTo(r)  OBVIOUS
<1>6. u = [i \in 0..n |-> IF i = 0 THEN <<>> ELSE u[i - 1] \o Block(r[i])]
  BY <1>4, <1>5, Zenon
<1>7. Joins(u, b, n)
  <2>1. u[0] = <<>>
    <3>1. 0 \in 0..n  BY <1>1
    <3> QED  BY <1>6, <3>1
  <2>2. ASSUME NEW i \in 1..n PROVE u[i] = u[i - 1] \o b[i]
    <3>1. i \in 0..n /\ i # 0  BY <1>1
    <3>2. u[i] = u[i - 1] \o Block(r[i])
      <4> HIDE DEF n
      <4> QED  BY <1>6, <3>1, Zenon
    <3>3. b[i] = Block(r[i])  OBVIOUS
    <3> HIDE DEF b
    <3> QED  BY <3>2, <3>3, Zenon
  <2> QED  BY <2>1, <2>2, Zenon DEF Joins
<1> QED  BY <1>1, <1>5, <1>7

LEMMA TailOfTail ==
    ASSUME NEW S, NEW s \in Seq(S), NEW a \in 0..Len(s), NEW m \in 0..(Len(s) - a)
    PROVE  LET t == SubSeq(s, a + 1, Len(s)) IN
           /\ t \in Seq(S) /\ Len(t) = Len(s) - a /\ \A i \in 1..Len(t) : t[i] = s[a + i]
           /\ SubSeq(t, m + 1, Len(t)) = SubSeq(s, a + m + 1, Len(s))
<1> DEFINE t == SubSeq(s, a + 1, Len(s))
<1>0. Len(s) \in Nat /\ a \in Nat /\ m \in Nat /\ a + m <= Len(s)  OBVIOUS
<1>1. t \in Seq(S) /\ Len(t) = Len(s) - a /\ \A i \in 1..Len(t) : t[i] = s[a + i]
  <2>1. \A i \in (a + 1)..Len(s) : s[i] \in S  BY <1>0
  <2>2. t = [i \in 1..(Len(s) - a) |-> s[a + i]]  BY <1>0
  <2> HIDE DEF t
  <2>3. t \in [1..(Len(s) - a) -> S]  BY <1>0, <2>1, <2>2
  <2>4. t \in Seq(S) /\ Len(t) = Len(s) - a  BY <1>0, <2>3
  <2> QED  BY <2>2, <2>4
<1> DEFINE v == SubSeq(t, m + 1, Len(t))
           w == SubSeq(s, a + m + 1, Len(s))
<1>2. v = [i \in 1..(Len(s) - a - m) |-> t[m + i]]
  <2> HIDE DEF t
  <2> QED  BY <1>0, <1>1
<1>3. w = [i \in 1..(Len(s) - a - m) |-> s[a + m + i]]  BY <1>0
<1>4. \A i \in 1..(Len(s) - a - m) : t[m + i] = s[a + m + i]
  <2> HIDE DEF t
  <2>1. \A i \in 1..(Len(s) - a - m) : m + i \in 1..Len(t) /\ a + (m + i) = a + m + i
    BY <1>0, <1>1
  <2> QED  BY <1>1, <2>1
<1> HIDE DEF t, v, w
<1>5. v = w  BY <1>2, <1>3, <1>4
<1> QED  BY <1>1, <1>5 DEF t, v, w

\* One change: its entry, and for a rename or a copy the old name.
LEMMA BlockIs ==
    ASSUME NEW c
    PROVE  /\ Len(Block(c)) = IF Moved(c.x, c.y) THEN 2 ELSE 1
           /\ DOMAIN Block(c) = 1..Len(Block(c)) /\ Block(c) # <<>>
           /\ Block(c)[1] = Line(c)
           /\ Moved(c.x, c.y) => Block(c)[2] = Bare[c.orig]
<1>1. CASE Moved(c.x, c.y)
  <2>1. Block(c) = <<Line(c), Bare[c.orig]>>  BY <1>1 DEF Block
  <2> QED  BY <1>1, <2>1
<1>2. CASE ~Moved(c.x, c.y)
  <2>1. Block(c) = <<Line(c)>>  BY <1>2 DEF Block
  <2> QED  BY <1>2, <2>1
<1> QED  BY <1>1, <1>2

\* What is left to read, after any number of changes, begins with the entries of the next.
LEMMA PrintedParts ==
    ASSUME NEW r, r \in Reports
    PROVE  /\ Unread(r, 0) = Printed(r) /\ Unread(r, Len(r)) = <<>>
           /\ \A k \in 0..(Len(r) - 1) :
                LET c == r[k + 1] IN
                /\ Unread(r, k) # <<>> /\ Unread(r, k)[1] = Line(c)
                /\ Len(Unread(r, k)) \in Nat /\ Unread(r, k)[1] = Head(Unread(r, k))
                /\ Moved(c.x, c.y) => Len(Unread(r, k)) > 1 /\ Unread(r, k)[2] = Bare[c.orig]
                /\ Unread(r, k + 1) = SubSeq(Unread(r, k), IF Moved(c.x, c.y) THEN 3 ELSE 2, Len(Unread(r, k)))
           /\ \A i \in DOMAIN r : \E p \in DOMAIN Printed(r) : Printed(r)[p] = Line(r[i])
           /\ \A p \in DOMAIN Printed(r) : \E i \in DOMAIN r :
                 \/ Printed(r)[p] = Line(r[i])
                 \/ Moved(r[i].x, r[i].y) /\ Printed(r)[p] = Bare[r[i].orig]
<1>1. PICK n, u, b : n = Len(r) /\ u = PrintedTo(r) /\ b = [i \in 1..n |-> Block(r[i])]
  OBVIOUS
<1>2. /\ n \in Nat /\ DOMAIN r = 1..n /\ Joins(u, b, n)
      /\ \A i \in 1..n : b[i] = Block(r[i])
  BY <1>1, PrintedIs
<1>3. PICK S : S = {Line(r[i]) : i \in 1..n} \cup {Bare[r[i].orig] : i \in 1..n}  OBVIOUS
<1>4. \A i \in 1..n : b[i] \in Seq(S) /\ b[i] # <<>>
  <2> TAKE i \in 1..n
  <2>1. Line(r[i]) \in S /\ Bare[r[i].orig] \in S  BY <1>3
  <2>2. CASE Moved(r[i].x, r[i].y)
    <3>1. b[i] = <<Line(r[i]), Bare[r[i].orig]>>  BY <1>2, <2>2 DEF Block
    <3> QED  BY <2>1, <3>1
  <2>3. CASE ~Moved(r[i].x, r[i].y)
    <3>1. b[i] = <<Line(r[i])>>  BY <1>2, <2>3 DEF Block
    <3> QED  BY <2>1, <3>1
  <2> QED  BY <2>2, <2>3
<1>5. \A i \in 0..n : Joined(S, u, b, i)  BY <1>2, <1>4, JoinGrows
<1>6. PICK all : all = Printed(r)  OBVIOUS
<1>7. all = u[n] /\ n \in 0..n  BY <1>1, <1>2, <1>6 DEF Printed
<1>8. /\ all \in Seq(S) /\ Len(all) \in Nat
      /\ \A k \in 0..n : /\ Len(u[k]) \in Nat /\ Len(u[k]) <= Len(all)
                         /\ k < n => Len(u[k]) < Len(all)
                         /\ \A p \in 1..Len(u[k]) : all[p] = u[k][p]
  BY <1>5, <1>7 DEF Joined, JoinedTo
<1>9. \A k \in 0..n : Unread(r, k) = SubSeq(all, Len(u[k]) + 1, Len(all))
  BY <1>1, <1>6, Zenon DEF Unread
<1>10. ASSUME NEW k \in 0..(n - 1)
       PROVE  /\ Len(u[k + 1]) = Len(u[k]) + Len(Block(r[k + 1]))
              /\ \A q \in 1..Len(Block(r[k + 1])) : all[Len(u[k]) + q] = Block(r[k + 1])[q]
  <2>0. k + 1 \in 1..n /\ (k + 1) - 1 = k /\ k \in 0..n /\ k + 1 \in 0..n  BY <1>2
  <2>1. u[k + 1] = u[(k + 1) - 1] \o b[k + 1]  BY <1>2, <2>0 DEF Joins
  <2>2. PICK s, t, w : s = u[k] /\ t = Block(r[k + 1]) /\ w = u[k + 1]  OBVIOUS
  <2>3. s \in Seq(S) /\ t \in Seq(S) /\ w = s \o t
    BY <1>2, <1>4, <1>5, <2>0, <2>1, <2>2 DEF Joined, JoinedTo
  <2>4. /\ Len(w) = Len(s) + Len(t) /\ Len(s) \in Nat /\ Len(t) \in Nat
        /\ \A p \in (Len(s) + 1)..(Len(s) + Len(t)) :
              p - Len(s) \in DOMAIN t /\ w[p] = t[p - Len(s)]
    BY <2>3, Concatenated
  <2>5. ASSUME NEW q \in 1..Len(t) PROVE all[Len(s) + q] = t[q]
    <3>1. Len(s) + q \in (Len(s) + 1)..(Len(s) + Len(t)) /\ (Len(s) + q) - Len(s) = q
          /\ Len(s) + q \in 1..Len(w)
      BY <2>4
    <3>2. w[Len(s) + q] = t[q]  BY <2>4, <3>1
    <3>3. all[Len(s) + q] = w[Len(s) + q]  BY <1>8, <2>0, <2>2, <3>1
    <3> QED  BY <3>2, <3>3
  <2> QED  BY <2>2, <2>4, <2>5
<1>11. Unread(r, 0) = Printed(r)
  <2>1. 0 \in 0..n /\ Len(u[0]) = 0  BY <1>2 DEF Joins
  <2>2. SubSeq(all, 1, Len(all)) = all  BY <1>8
  <2>3. Len(u[0]) + 1 = 1  BY <2>1
  <2>4. Unread(r, 0) = SubSeq(all, Len(u[0]) + 1, Len(all))  BY <1>9, <2>1
  <2> QED  BY <1>6, <2>2, <2>3, <2>4, Zenon
<1>12. Unread(r, n) = <<>>
  <2>1. SubSeq(all, Len(all) + 1, Len(all)) = <<>>  BY <1>8
  <2> QED  BY <1>7, <1>9, <2>1
<1>13. ASSUME NEW k \in 0..(n - 1)
       PROVE  LET c == r[k + 1] IN
              /\ Unread(r, k) # <<>> /\ Unread(r, k)[1] = Line(c)
              /\ Len(Unread(r, k)) \in Nat /\ Unread(r, k)[1] = Head(Unread(r, k))
              /\ Moved(c.x, c.y) => Len(Unread(r, k)) > 1 /\ Unread(r, k)[2] = Bare[c.orig]
              /\ Unread(r, k + 1) = SubSeq(Unread(r, k), IF Moved(c.x, c.y) THEN 3 ELSE 2, Len(Unread(r, k)))
  <2>0. k \in 0..n /\ k + 1 \in 0..n /\ k < n  BY <1>2
  <2>1. PICK c, d, a, m : c = r[k + 1] /\ d = Block(c) /\ a = Len(u[k]) /\ m = Len(d)  OBVIOUS
  <2>2. m = (IF Moved(c.x, c.y) THEN 2 ELSE 1) /\ d[1] = Line(c)
        /\ (Moved(c.x, c.y) => d[2] = Bare[c.orig])
    BY <2>1, BlockIs
  <2>3. /\ Len(u[k + 1]) = a + m /\ a + m <= Len(all) /\ a \in Nat
        /\ \A q \in 1..m : all[a + q] = d[q]
    BY <1>8, <1>10, <2>0, <2>1
  <2>4. PICK t : t = SubSeq(all, a + 1, Len(all))  OBVIOUS
  <2>5. m \in Nat /\ m > 0 /\ a \in 0..Len(all) /\ m \in 0..(Len(all) - a)
    BY <1>8, <2>2, <2>3
  <2>6. /\ t \in Seq(S) /\ Len(t) = Len(all) - a /\ \A i \in 1..Len(t) : t[i] = all[a + i]
        /\ SubSeq(t, m + 1, Len(t)) = SubSeq(all, a + m + 1, Len(all))
    BY <1>8, <2>4, <2>5, TailOfTail
  <2>7. Unread(r, k) = t /\ Unread(r, k + 1) = SubSeq(all, a + m + 1, Len(all))
    BY <1>9, <2>0, <2>1, <2>3, <2>4
  <2>8. Len(t) \in Nat /\ Len(t) >= m /\ \A q \in 1..m : t[q] = d[q]
    <3>1. Len(t) \in Nat /\ Len(t) >= m  BY <1>8, <2>5, <2>6
    <3>2. \A q \in 1..m : q \in 1..Len(t)  BY <2>5, <3>1
    <3> QED  BY <2>3, <2>6, <3>1, <3>2, Zenon
  <2>9. t # <<>> /\ t[1] = Head(t)  BY <2>5, <2>6, <2>8
  <2>10. m + 1 = IF Moved(c.x, c.y) THEN 3 ELSE 2  BY <2>2
  <2>11. t[1] = Line(c) /\ (Moved(c.x, c.y) => Len(t) > 1 /\ t[2] = Bare[c.orig])
    BY <2>2, <2>8
  <2>12. Unread(r, k + 1) = SubSeq(t, IF Moved(c.x, c.y) THEN 3 ELSE 2, Len(t))
    BY <2>6, <2>7, <2>10, Zenon
  <2> QED  BY <2>1, <2>7, <2>8, <2>9, <2>11, <2>12, Zenon
<1>14. ASSUME NEW i \in 1..n PROVE \E p \in DOMAIN all : all[p] = Line(r[i])
  <2>1. PICK k : k = i - 1  OBVIOUS
  <2>2. k \in 0..(n - 1) /\ k + 1 = i /\ k \in 0..n /\ k < n  BY <1>2, <2>1
  <2>3. PICK c, d : c = r[i] /\ d = Block(r[k + 1])  OBVIOUS
  <2>4. d = Block(c)  BY <2>2, <2>3, Zenon
  <2>5. Len(d) \in {1, 2} /\ d[1] = Line(c)  BY <2>4, BlockIs
  <2>6. \A q \in 1..Len(d) : all[Len(u[k]) + q] = d[q]  BY <1>10, <2>2, <2>3, Zenon
  <2>7. 1 \in 1..Len(d)  BY <2>5
  <2>8. all[Len(u[k]) + 1] = Line(c)  BY <2>5, <2>6, <2>7, Zenon
  <2>9. Len(u[k]) + 1 \in 1..Len(all)  BY <1>8, <2>2
  <2>10. DOMAIN all = 1..Len(all)  BY <1>8
  <2> QED  BY <2>3, <2>8, <2>9, <2>10, Zenon
<1>15. ASSUME NEW p \in DOMAIN all
       PROVE  \E i \in 1..n : \/ all[p] = Line(r[i])
                              \/ Moved(r[i].x, r[i].y) /\ all[p] = Bare[r[i].orig]
  <2>1. p \in 1..Len(u[n])  BY <1>7, <1>8
  <2>2. PICK j \in 1..n : \E q \in DOMAIN b[j] : u[n][p] = b[j][q]
    BY <1>5, <1>7, <2>1 DEF Joined, JoinedTo
  <2>3. PICK c, d, e : c = r[j] /\ d = Block(c) /\ e = all[p]  OBVIOUS
  <2>4. PICK q \in DOMAIN d : e = d[q]
    <3>1. b[j] = d /\ u[n] = all  BY <1>2, <1>7, <2>3, Zenon
    <3> QED  BY <2>2, <2>3, <3>1, Zenon
  <2>5. CASE Moved(c.x, c.y)
    <3>1. DOMAIN d = 1..2 /\ d[1] = Line(c) /\ d[2] = Bare[c.orig]  BY <2>3, <2>5, BlockIs
    <3>2. q = 1 \/ q = 2  BY <3>1
    <3>3. e = Line(c) \/ e = Bare[c.orig]  BY <2>4, <3>1, <3>2, Zenon
    <3>4. Moved(r[j].x, r[j].y) /\ r[j].orig = c.orig  BY <2>3, <2>5, Zenon
    <3> QED  BY <2>3, <3>3, <3>4
  <2>6. CASE ~Moved(c.x, c.y)
    <3>1. DOMAIN d = 1..1 /\ d[1] = Line(c)  BY <2>3, <2>6, BlockIs
    <3>2. q = 1  BY <3>1
    <3>3. e = Line(c)  BY <2>4, <3>1, <3>2, Zenon
    <3> QED  BY <2>3, <3>3
  <2> QED  BY <2>5, <2>6, Zenon
<1>16. n = Len(r) /\ DOMAIN r = 1..n /\ all = Printed(r)  BY <1>1, <1>2, <1>6, Zenon
<1>17. Unread(r, 0) = Printed(r) /\ Unread(r, Len(r)) = <<>>  BY <1>11, <1>12, <1>16, Zenon
<1>18. /\ \A i \in DOMAIN r : \E p \in DOMAIN all : all[p] = Line(r[i])
       /\ \A p \in DOMAIN all : \E i \in DOMAIN r :
             \/ all[p] = Line(r[i])
             \/ Moved(r[i].x, r[i].y) /\ all[p] = Bare[r[i].orig]
  BY <1>14, <1>15, <1>16, Zenon
<1>19. \A k \in 0..(Len(r) - 1) : k \in 0..(n - 1)  BY <1>16, Zenon
<1> QED  BY <1>13, <1>16, <1>17, <1>18, <1>19, Zenon

--------------------------------------------------------------------------
(* git_status and the check of notes_write.                                *)

Stated == ParseInv /\ StatusIsTrue

\* A step that reads no output of git, and tells nothing of one.
LEMMA ElseStated ==
    ASSUME call'.pc # "parse",
           call'.pc # "idle" \/ call'.answer \in {"", "error"} \/ ~Is(StatusTools)'
    PROVE  Stated'
BY DEF Stated, ParseInv, StatusIsTrue, At

\* One more change, in what a set of them comes to.
LEMMA OneMore ==
    ASSUME NEW F, NEW c
    PROVE  /\ UntrackedOf(F \cup {c}) = UntrackedOf(F) \cup (IF c.x = "?" THEN {c.path} ELSE {})
           /\ StagedOf(F \cup {c}) =
                 StagedOf(F) \cup (IF c.x \in {" ", "?"} THEN {}
                                   ELSE {[code |-> c.x, path |-> c.path, orig |-> c.orig]})
           /\ UnstagedOf(F \cup {c}) =
                 UnstagedOf(F) \cup (IF c.y \in {" ", "?"} THEN {} ELSE {[code |-> c.y, path |-> c.path]})
<1>1. UntrackedOf(F \cup {c}) = UntrackedOf(F) \cup (IF c.x = "?" THEN {c.path} ELSE {})
  BY DEF UntrackedOf
<1>2. StagedOf(F \cup {c}) =
         StagedOf(F) \cup (IF c.x \in {" ", "?"} THEN {}
                           ELSE {[code |-> c.x, path |-> c.path, orig |-> c.orig]})
  BY DEF StagedOf
<1>3. UnstagedOf(F \cup {c}) =
         UnstagedOf(F) \cup (IF c.y \in {" ", "?"} THEN {} ELSE {[code |-> c.y, path |-> c.path]})
  BY DEF UnstagedOf
<1> QED  BY <1>1, <1>2, <1>3

LEMMA StatusRunStated == Told /\ StatusRun => Stated'
<1> SUFFICES ASSUME Told, StatusRun PROVE Stated'  OBVIOUS
<1>f. AllFields \subseteq DOMAIN call  BY DEF Told, VaultOK
<1>1. PICK report \in Reports, h \in Heads :
         /\ call' = [call EXCEPT !.pc = "parse", !.entries = Printed(report),
                         !.status = [head |-> ParsedHead(h), staged |-> {}, unstaged |-> {}, untracked |-> {}]]
         /\ said' = [report |-> report, head |-> h]
  BY Zenon DEF StatusRun, Goes
<1>2. /\ call'.pc = "parse" /\ call'.tool = call.tool /\ call'.entries = Printed(report)
      /\ call'.status = [head |-> ParsedHead(h), staged |-> {}, unstaged |-> {}, untracked |-> {}]
      /\ said'.report = report /\ said'.head = h
  BY <1>1, <1>f DEF AllFields
<1>3. Is(StatusTools)'  BY <1>2 DEF StatusRun, Is
<1>4. Len(report) \in Nat /\ Printed(report) = Unread(report, 0)
  BY PrintedIs, PrintedParts
<1>5. PICK found : found = {report[i] : i \in 1..0}  OBVIOUS
<1>6. StagedOf(found) = {} /\ UnstagedOf(found) = {} /\ UntrackedOf(found) = {}
  <2>1. found = {}  BY <1>5
  <2> QED  BY <2>1 DEF StagedOf, UnstagedOf, UntrackedOf
<1>7. 0 \in 0..Len(report)  BY <1>4
<1>8. ParseInv'
  BY <1>2, <1>3, <1>4, <1>5, <1>6, <1>7, Zenon DEF ParseInv
<1>9. StatusIsTrue'  BY <1>2 DEF StatusIsTrue, At
<1> QED  BY <1>8, <1>9 DEF Stated

LEMMA ParsedStated == Told /\ Stated /\ Parsed => Stated'
<1> SUFFICES ASSUME Told, Stated, Parsed PROVE Stated'  OBVIOUS
<1>f. AllFields \subseteq DOMAIN call  BY DEF Told, VaultOK
<1>1. /\ At("parse") /\ Is({"git_status"}) /\ call.entries # <<>>
      /\ Parsing(Moved(Head(call.entries).x, Head(call.entries).y))
  BY DEF Parsed
<1>2. PICK r : r = said.report  OBVIOUS
<1>3. /\ r \in Reports
      /\ \E k \in 0..Len(r) :
            LET found == {r[i] : i \in 1..k} IN
            /\ call.entries = Unread(r, k)
            /\ call.status = [head |-> ParsedHead(said.head), staged |-> StagedOf(found),
                              unstaged |-> UnstagedOf(found), untracked |-> UntrackedOf(found)]
  BY <1>1, <1>2, Zenon DEF Stated, ParseInv
<1>4. PICK k \in 0..Len(r) :
            LET found == {r[i] : i \in 1..k} IN
            /\ call.entries = Unread(r, k)
            /\ call.status = [head |-> ParsedHead(said.head), staged |-> StagedOf(found),
                              unstaged |-> UnstagedOf(found), untracked |-> UntrackedOf(found)]
  BY <1>3
<1>5. /\ Len(r) \in Nat /\ DOMAIN r = 1..Len(r) /\ k \in 0..(Len(r) - 1)
      /\ k + 1 \in 1..Len(r) /\ k + 1 \in 0..Len(r)
  <2>1. Len(r) \in Nat /\ DOMAIN r = 1..Len(r)  BY <1>3, PrintedIs
  <2>2. k # Len(r)  BY <1>1, <1>3, <1>4, PrintedParts
  <2>3. PICK n : n = Len(r)  OBVIOUS
  <2>4. n \in Nat /\ k \in 0..n /\ k # n  BY <2>1, <2>2, <2>3
  <2>5. k \in 0..(n - 1) /\ k + 1 \in 1..n /\ k + 1 \in 0..n  BY <2>4
  <2> QED  BY <2>1, <2>3, <2>5
<1>6. PICK c, F, G : /\ c = r[k + 1] /\ F = {r[i] : i \in 1..k} /\ G = {r[i] : i \in 1..(k + 1)}
  OBVIOUS
<1>7. G = F \cup {c}
  <2>1. \A i \in 1..(k + 1) : i \in 1..k \/ i = k + 1  BY <1>5
  <2>2. \A i \in 1..k : i \in 1..(k + 1)  BY <1>5
  <2> QED  BY <1>5, <1>6, <2>1, <2>2
<1>8. PICK s, es, m : s = call.status /\ es = call.entries /\ m = Moved(c.x, c.y)
  OBVIOUS
<1>9. /\ es # <<>> /\ Head(es) = Line(c) /\ Len(es) \in Nat
      /\ m => Len(es) > 1 /\ es[2] = Bare[c.orig]
      /\ Unread(r, k + 1) = SubSeq(es, IF m THEN 3 ELSE 2, Len(es))
  BY <1>3, <1>4, <1>5, <1>6, <1>8, PrintedParts, SMTT(30)
<1>10. /\ c.x = "?" <=> c.y = "?"
       /\ m => Bare[c.orig].whole = c.orig
       /\ ~m => c.orig = ""
  BY <1>3, <1>5, <1>6, <1>8, ReportsAssumption, Zenon
<1>11. Line(c).x = c.x /\ Line(c).y = c.y /\ Line(c).rest = c.path /\ Line(c).short = FALSE
  BY DEF Line
<1>12. PICK told : told = [s EXCEPT
            !.untracked = IF c.x = "?" /\ c.y = "?" THEN s.untracked \cup {c.path} ELSE s.untracked,
            !.staged = IF c.x \in {" ", "?"} THEN s.staged
                       ELSE s.staged \cup {[code |-> c.x, path |-> c.path, orig |-> c.orig]},
            !.unstaged = IF c.y \in {" ", "?"} THEN s.unstaged
                         ELSE s.unstaged \cup {[code |-> c.y, path |-> c.path]}]
  OBVIOUS
<1>13. /\ call' = [call EXCEPT !.status = told,
                               !.entries = SubSeq(es, IF m THEN 3 ELSE 2, Len(es))]
       /\ said' = said
  <2>1. PICK e, moved, orig :
           /\ e = Head(call.entries)
           /\ moved = (~e.short /\ Moved(Head(call.entries).x, Head(call.entries).y) /\ Len(call.entries) > 1)
           /\ orig = IF moved THEN call.entries[2].whole ELSE ""
    OBVIOUS
  <2>2. /\ call' = [call EXCEPT
             !.status = IF e.short THEN call.status ELSE [call.status EXCEPT
                !.untracked = IF e.x = "?" /\ e.y = "?" THEN call.status.untracked \cup {e.rest} ELSE call.status.untracked,
                !.staged = IF e.x \in {" ", "?"} THEN call.status.staged
                           ELSE call.status.staged \cup {[code |-> e.x, path |-> e.rest, orig |-> orig]},
                !.unstaged = IF e.y \in {" ", "?"} THEN call.status.unstaged
                             ELSE call.status.unstaged \cup {[code |-> e.y, path |-> e.rest]}],
             !.entries = SubSeq(call.entries, IF moved THEN 3 ELSE 2, Len(call.entries))]
        /\ said' = said
    BY <1>1, <2>1, Zenon DEF Parsing, Goes
  <2>3. e = Line(c) /\ e.x = c.x /\ e.y = c.y /\ e.rest = c.path /\ e.short = FALSE
    BY <1>8, <1>9, <1>11, <2>1
  <2>4. moved <=> m
    BY <1>8, <1>9, <2>1, <2>3, Zenon
  <2>5. orig = c.orig
    BY <1>8, <1>9, <1>10, <2>1, <2>4, Zenon
  <2>6. told = [call.status EXCEPT
                !.untracked = IF e.x = "?" /\ e.y = "?" THEN call.status.untracked \cup {e.rest} ELSE call.status.untracked,
                !.staged = IF e.x \in {" ", "?"} THEN call.status.staged
                           ELSE call.status.staged \cup {[code |-> e.x, path |-> e.rest, orig |-> orig]},
                !.unstaged = IF e.y \in {" ", "?"} THEN call.status.unstaged
                             ELSE call.status.unstaged \cup {[code |-> e.y, path |-> e.rest]}]
    BY <1>8, <1>12, <2>3, <2>5, Zenon
  <2>7. (IF moved THEN 3 ELSE 2) = IF m THEN 3 ELSE 2  BY <2>4, Zenon
  <2> QED  BY <1>8, <2>2, <2>3, <2>6, <2>7, Zenon
<1>14. s = [head |-> ParsedHead(said.head), staged |-> StagedOf(F),
            unstaged |-> UnstagedOf(F), untracked |-> UntrackedOf(F)]
  BY <1>4, <1>6, <1>8, Zenon
<1>15. told = [head |-> ParsedHead(said.head), staged |-> StagedOf(G),
               unstaged |-> UnstagedOf(G), untracked |-> UntrackedOf(G)]
  <2>2. /\ UntrackedOf(G) = UntrackedOf(F) \cup (IF c.x = "?" THEN {c.path} ELSE {})
        /\ StagedOf(G) =
              StagedOf(F) \cup (IF c.x \in {" ", "?"} THEN {}
                                ELSE {[code |-> c.x, path |-> c.path, orig |-> c.orig]})
        /\ UnstagedOf(G) =
              UnstagedOf(F) \cup (IF c.y \in {" ", "?"} THEN {} ELSE {[code |-> c.y, path |-> c.path]})
    BY <1>7, OneMore, Zenon
  <2>3. (IF c.x = "?" /\ c.y = "?" THEN s.untracked \cup {c.path} ELSE s.untracked) = UntrackedOf(G)
    <3>1. s.untracked = UntrackedOf(F)  BY <1>14
    <3> QED  BY <1>10, <2>2, <3>1
  <2>4. (IF c.x \in {" ", "?"} THEN s.staged
         ELSE s.staged \cup {[code |-> c.x, path |-> c.path, orig |-> c.orig]}) = StagedOf(G)
    <3>1. s.staged = StagedOf(F)  BY <1>14
    <3>2. CASE c.x \in {" ", "?"}
      <4>1. StagedOf(F) \cup {} = StagedOf(F)  OBVIOUS
      <4> QED  BY <2>2, <3>1, <3>2, <4>1, Zenon
    <3>3. CASE c.x \notin {" ", "?"}  BY <2>2, <3>1, <3>3, Zenon
    <3> QED  BY <3>2, <3>3
  <2>5. (IF c.y \in {" ", "?"} THEN s.unstaged
         ELSE s.unstaged \cup {[code |-> c.y, path |-> c.path]}) = UnstagedOf(G)
    <3>1. s.unstaged = UnstagedOf(F)  BY <1>14
    <3>2. CASE c.y \in {" ", "?"}
      <4>1. UnstagedOf(F) \cup {} = UnstagedOf(F)  OBVIOUS
      <4> QED  BY <2>2, <3>1, <3>2, <4>1, Zenon
    <3>3. CASE c.y \notin {" ", "?"}  BY <2>2, <3>1, <3>3, Zenon
    <3> QED  BY <3>2, <3>3
  <2>6. told = [s EXCEPT !.untracked = UntrackedOf(G), !.staged = StagedOf(G), !.unstaged = UnstagedOf(G)]
    BY <1>12, <2>3, <2>4, <2>5, Zenon
  <2> QED  BY <1>14, <2>6
<1>16. /\ call'.pc = "parse" /\ call'.tool = "git_status"
       /\ call'.entries = Unread(r, k + 1) /\ call'.status = told
  <2>1. call.tool = "git_status" /\ call.pc = "parse"  BY <1>1 DEF Is, At
  <2> QED  BY <1>9, <1>13, <1>f, <2>1 DEF AllFields
<1>17. ParseInv'
  <2>1. Is(StatusTools)' /\ ~Is({"notes_write"})'  BY <1>16 DEF Is, StatusTools
  <2>2. call'.status = [head |-> ParsedHead(said'.head), staged |-> StagedOf(G),
                        unstaged |-> UnstagedOf(G), untracked |-> UntrackedOf(G)]
    BY <1>13, <1>15, <1>16
  <2>3. PICK j \in 0..Len(r) : j = k + 1  BY <1>5
  <2>4. said'.report = r  BY <1>2, <1>13
  <2>5. /\ call'.entries = Unread(r, j)
        /\ call'.status = [head |-> ParsedHead(said'.head), staged |-> StagedOf({r[i] : i \in 1..j}),
                           unstaged |-> UnstagedOf({r[i] : i \in 1..j}),
                           untracked |-> UntrackedOf({r[i] : i \in 1..j})]
    BY <1>6, <1>16, <2>2, <2>3, Zenon
  <2> QED  BY <1>3, <2>1, <2>4, <2>5, Zenon DEF ParseInv
<1>18. StatusIsTrue'  BY <1>16 DEF StatusIsTrue, At
<1> QED  BY <1>17, <1>18 DEF Stated

\* Where HEAD is: only of a branch without commits whose upstream is gone is more said.
LEMMA HeadIsTrue ==
    ASSUME NEW h
    PROVE  /\ ParsedHead(h).detached <=> h.kind = "detached"
           /\ h.kind = "branch" \/ (h.kind = "new" /\ h.upstream = "") => ParsedHead(h).branch = h.branch
<1>1. ParsedHead(h).detached = (h.kind = "detached")  BY DEF ParsedHead
<1>2. ASSUME h.kind = "branch" \/ (h.kind = "new" /\ h.upstream = "")
      PROVE  ParsedHead(h).branch = h.branch
  <2>1. h.kind # "detached" /\ ~(h.kind = "new" /\ h.upstream # "")  BY <1>2
  <2> QED  BY <2>1 DEF ParsedHead
<1> QED  BY <1>1, <1>2, Zenon

LEMMA StatusToldStated == Told /\ Stated /\ StatusTold => Stated'
<1> SUFFICES ASSUME Told, Stated, StatusTold PROVE Stated'  OBVIOUS
<1>f. AllFields \subseteq DOMAIN call  BY DEF Told, VaultOK
<1>1. /\ At("parse") /\ Is({"git_status"}) /\ call.entries = <<>> /\ Answer("ok", call, said)
  BY DEF StatusTold
<1>2. PICK r : r = said.report  OBVIOUS
<1>3. /\ r \in Reports
      /\ \E k \in 0..Len(r) :
            LET found == {r[i] : i \in 1..k} IN
            /\ call.entries = Unread(r, k)
            /\ call.status = [head |-> ParsedHead(said.head), staged |-> StagedOf(found),
                              unstaged |-> UnstagedOf(found), untracked |-> UntrackedOf(found)]
  BY <1>1, <1>2, Zenon DEF Stated, ParseInv
<1>4. PICK k \in 0..Len(r) :
            LET found == {r[i] : i \in 1..k} IN
            /\ call.entries = Unread(r, k)
            /\ call.status = [head |-> ParsedHead(said.head), staged |-> StagedOf(found),
                              unstaged |-> UnstagedOf(found), untracked |-> UntrackedOf(found)]
  BY <1>3
<1>5. k = Len(r) /\ DOMAIN r = 1..Len(r)
  <2>1. Len(r) \in Nat /\ DOMAIN r = 1..Len(r)  BY <1>3, PrintedIs
  <2>2. PICK n : n = Len(r)  OBVIOUS
  <2>3. ASSUME k # n PROVE FALSE
    <3>0. n \in Nat /\ k \in 0..n
      <4>1. PICK m : m = k  OBVIOUS
      <4>2. m \in 0..Len(r)  BY <1>4, <4>1, Zenon
      <4> QED  BY <2>1, <2>2, <4>1, <4>2
    <3>1. k \in 0..(n - 1)  BY <2>3, <3>0
    <3> QED  BY <1>1, <1>3, <1>4, <2>2, <3>1, PrintedParts
  <2> QED  BY <2>1, <2>2, <2>3
<1>6. PICK F : F = {r[i] : i \in DOMAIN r}  OBVIOUS
<1>7. call.status = [head |-> ParsedHead(said.head), staged |-> StagedOf(F),
                     unstaged |-> UnstagedOf(F), untracked |-> UntrackedOf(F)]
  BY <1>4, <1>5, <1>6, Zenon
<1>8. /\ call'.pc = "idle" /\ call'.answer = "ok" /\ call'.tool = "git_status"
      /\ call'.status = call.status /\ said' = said
  <2>1. call.tool = "git_status"  BY <1>1 DEF Is
  <2> QED  BY <1>1, <1>f, <2>1 DEF Answer, Goes, AllFields
<1>9. /\ call'.status.untracked = UntrackedOf(F) /\ call'.status.staged = StagedOf(F)
      /\ call'.status.unstaged = UnstagedOf(F) /\ call'.status.head = ParsedHead(said'.head)
  BY <1>7, <1>8
<1>10. F = {said'.report[i] : i \in DOMAIN said'.report}  BY <1>2, <1>6, <1>8
<1>11. StatusIsTrue'
  <2>1. ~Is({"notes_write"})'  BY <1>8 DEF Is
  <2> QED  BY <1>9, <1>10, <2>1, HeadIsTrue, Zenon DEF StatusIsTrue
<1>12. ParseInv'  BY <1>8 DEF ParseInv, At
<1> QED  BY <1>11, <1>12 DEF Stated

LEMMA ConflictSoughtStated == Told /\ Stated /\ ConflictSought => Stated'
<1> SUFFICES ASSUME Told, Stated, ConflictSought PROVE Stated'  OBVIOUS
<1>f. AllFields \subseteq DOMAIN call  BY DEF Told, VaultOK
<1> DEFINE Sought == \E i \in DOMAIN call.entries : <<call.entries[i].x, call.entries[i].y>> \in Conflicts
<1>1. /\ At("parse") /\ Is({"notes_write"})
      /\ Answer(IF Sought THEN "denied" ELSE "ok", call, said)
  BY Zenon DEF ConflictSought
<1>2. PICK r : r = said.report  OBVIOUS
<1>3. r \in Reports /\ call.entries = Printed(r)
  BY <1>1, <1>2, Zenon DEF Stated, ParseInv
<1> DEFINE found == {r[i] : i \in DOMAIN r}
           conflicts == {c \in found : <<c.x, c.y>> \in Conflicts}
           lookalikes == {c \in found : Moved(c.x, c.y) /\ <<Bare[c.orig].x, Bare[c.orig].y>> \in Conflicts}
<1>4. ASSUME conflicts # {} PROVE Sought
  <2>1. PICK i \in DOMAIN r : <<r[i].x, r[i].y>> \in Conflicts  BY <1>4
  <2>2. PICK p \in DOMAIN Printed(r) : Printed(r)[p] = Line(r[i])  BY <1>3, <2>1, PrintedParts
  <2>3. Line(r[i]).x = r[i].x /\ Line(r[i]).y = r[i].y  BY DEF Line
  <2> QED  BY <1>3, <2>1, <2>2, <2>3
<1>5. ASSUME Sought PROVE conflicts \cup lookalikes # {}
  <2>1. PICK p \in DOMAIN Printed(r) : <<Printed(r)[p].x, Printed(r)[p].y>> \in Conflicts
    BY <1>3, <1>5
  <2>2. PICK i \in DOMAIN r : \/ Printed(r)[p] = Line(r[i])
                              \/ Moved(r[i].x, r[i].y) /\ Printed(r)[p] = Bare[r[i].orig]
    BY <1>3, <2>1, PrintedParts
  <2>3. Line(r[i]).x = r[i].x /\ Line(r[i]).y = r[i].y  BY DEF Line
  <2>4. r[i] \in conflicts \cup lookalikes  BY <2>1, <2>2, <2>3
  <2> QED  BY <2>4
<1> HIDE DEF Sought
<1>6. /\ call'.pc = "idle" /\ call'.answer = (IF Sought THEN "denied" ELSE "ok")
      /\ call'.tool = "notes_write" /\ said' = said
  <2>1. call.tool = "notes_write"  BY <1>1 DEF Is
  <2> QED  BY <1>1, <1>f, <2>1 DEF Answer, Goes, AllFields
<1>7. said'.report = r  BY <1>2, <1>6
<1>8. /\ conflicts # {} => call'.answer = "denied"
      /\ call'.answer = "denied" => conflicts \cup lookalikes # {}
  BY <1>4, <1>5, <1>6
<1>9. StatusIsTrue'
  <2>1. ~Is({"git_status"})'  BY <1>6 DEF Is
  <2> QED  BY <1>7, <1>8, <2>1, Zenon DEF StatusIsTrue
<1>10. ParseInv'  BY <1>6 DEF ParseInv, At
<1> QED  BY <1>9, <1>10 DEF Stated

\* The gates let git_status and notes_write pass.
LEMMA GatedStated == Told /\ Gated => Stated'
<1> SUFFICES ASSUME Told, Gated PROVE Stated'  OBVIOUS
<1>f. AllFields \subseteq DOMAIN call  BY DEF Told, VaultOK
<1> DEFINE open == CASE Is({"run_tests"}) -> PassesDenyList(call.req)
                     [] Is({"run_command"}) -> \E w \in Whitelists : PassesCommand(call.req, w)
                     [] Is({"read_journalctl"}) -> call.req \in UnitList
                     [] OTHER -> TRUE
<1>1. IF open THEN Goes([call EXCEPT !.pc = "run"], said) ELSE Answer("denied", call, said)
  BY DEF Gated
<1>2. Is(StatusTools) => open
  BY DEF Is, StatusTools
<1> HIDE DEF open
<1>3. CASE open
  <2>1. call'.pc = "run"  BY <1>1, <1>3, <1>f DEF Goes, AllFields
  <2> QED  BY <2>1, ElseStated
<1>4. CASE ~open
  <2>1. call'.pc = "idle" /\ call'.tool = call.tool  BY <1>1, <1>4, <1>f DEF Answer, Goes, AllFields
  <2>2. ~Is(StatusTools)'  BY <1>2, <1>4, <2>1 DEF Is
  <2> QED  BY <2>1, <2>2, ElseStated
<1> QED  BY <1>3, <1>4

\* An answer of another tool, and an error of any.
LEMMA AnswerStated ==
    ASSUME Told, NEW a, NEW c, NEW s, Answer(a, c, s),
           AllFields \subseteq DOMAIN c, c.tool = call.tool,
           a = "error" \/ ~Is(StatusTools)
    PROVE  Stated'
<1>1. call'.pc = "idle" /\ call'.answer = a /\ call'.tool = call.tool
  BY DEF Answer, Goes, AllFields
<1> QED  BY <1>1, ElseStated DEF Is

LEMMA StepStated == Told /\ Stated /\ Step => Stated'
<1> SUFFICES ASSUME Told, Stated, Step PROVE Stated'  OBVIOUS
<1>f. AllFields \subseteq DOMAIN call  BY DEF Told, VaultOK
<1>v. Is(VaultTools) \/ Is(ExecTools) \/ Is(TextTools) \/ Is({"get_system_info"}) => ~Is(StatusTools)
  BY DEF Is, VaultTools, ExecTools, TextTools, StatusTools
<1>p. PhaseInv  BY DEF Told, AnswerInv
<1>1. CASE Gated  BY <1>1, GatedStated
<1>2. CASE Failed \/ Executed
  <2>1. PICK c, a : /\ call' = [c EXCEPT !.pc = "idle", !.answer = a]
                    /\ c = call \/ c = [call EXCEPT !.ran = TRUE]
                    /\ a = "error" \/ Is(ExecTools)
    BY <1>2, Zenon DEF Failed, Executed, Answer, Goes
  <2>2. call'.pc = "idle" /\ call'.answer = a /\ call'.tool = call.tool
    BY <1>f, <2>1 DEF AllFields
  <2>3. ~Is(ExecTools) \/ ~Is(StatusTools)'  BY <1>v, <2>2 DEF Is
  <2> QED  BY <2>1, <2>2, <2>3, ElseStated
<1>3. CASE StatusRun  BY <1>3, StatusRunStated
<1>4. CASE Parsed  BY <1>4, ParsedStated
<1>5. CASE StatusTold  BY <1>5, StatusToldStated
<1>6. CASE ConflictSought  BY <1>6, ConflictSoughtStated
<1>7. CASE \E n \in Notes : NoteListed(n)
  <2>1. (\E l, q : call' = [call EXCEPT !.left = l, !.queue = q]) \/ Answer("error", call, said)
    BY <1>7, Zenon DEF NoteListed, Goes
  <2>2. CASE Answer("error", call, said)  BY <1>f, <2>2, AnswerStated
  <2>3. CASE \E l, q : call' = [call EXCEPT !.left = l, !.queue = q]
    <3>1. call'.pc = "list"  BY <1>7, <1>f, <2>3 DEF NoteListed, At, AllFields
    <3> QED  BY <3>1, ElseStated
  <2> QED  BY <2>1, <2>2, <2>3
<1>8. CASE ListTold
  <2>1. ~Is(StatusTools)  BY <1>8, <1>p, <1>v DEF ListTold, PhaseInv
  <2>2. \/ call' = [call EXCEPT !.pc = "search"]
        \/ \E f, c : call' = [call EXCEPT !.found = f, !.cut = c, !.pc = "idle", !.answer = "ok"]
    BY <1>8, Zenon DEF ListTold, Answer, Goes
  <2>3. call'.pc \in {"search", "idle"} /\ call'.tool = call.tool
    BY <1>f, <2>2 DEF AllFields
  <2> QED  BY <2>1, <2>3, ElseStated DEF Is
<1>9. CASE NoteSearched
  <2>1. \/ \E q, f, c : call' = [call EXCEPT !.queue = q, !.found = f, !.cut = c]
        \/ Answer("error", call, said)
    BY <1>9, Zenon DEF NoteSearched, Searching, Goes
  <2>2. CASE Answer("error", call, said)  BY <1>f, <2>2, AnswerStated
  <2>3. CASE \E q, f, c : call' = [call EXCEPT !.queue = q, !.found = f, !.cut = c]
    <3>1. call'.pc = "search"  BY <1>9, <1>f, <2>3 DEF NoteSearched, At, AllFields
    <3> QED  BY <3>1, ElseStated
  <2> QED  BY <2>1, <2>2, <2>3
<1>10. CASE SearchTold \/ InfoTold
  <2>1. ~Is(StatusTools)
    BY <1>10, <1>p, <1>v DEF SearchTold, InfoTold, PhaseInv, Is, VaultTools
  <2>2. Answer("ok", call, said)  BY <1>10 DEF SearchTold, InfoTold
  <2> QED  BY <1>f, <2>1, <2>2, AnswerStated
<1>11. CASE FilesSearched \/ TextCut \/ UnitsListed
  <2>1. ~Is(StatusTools)
    BY <1>11, <1>v DEF FilesSearched, TextCut, UnitsListed, Is, TextTools
  <2>2. \/ \E f, c : call' = [call EXCEPT !.found = f, !.cut = c, !.pc = "idle", !.answer = "ok"]
        \/ \E f : call' = [call EXCEPT !.found = f, !.pc = "idle", !.answer = "ok"]
    BY <1>11, Zenon DEF FilesSearched, TextCut, UnitsListed, Answer, Goes
  <2>3. call'.pc = "idle" /\ call'.tool = call.tool  BY <1>f, <2>2 DEF AllFields
  <2> QED  BY <2>1, <2>3, ElseStated DEF Is
<1>12. CASE InfoStep
  <2>1. (\E i : call' = [call EXCEPT !.info = i]) \/ Answer("error", call, said)
    BY <1>12, Zenon DEF InfoStep, Goes
  <2>2. CASE Answer("error", call, said)  BY <1>f, <2>2, AnswerStated
  <2>3. CASE \E i : call' = [call EXCEPT !.info = i]
    <3>1. call'.pc = "run"  BY <1>12, <1>f, <2>3 DEF InfoStep, At, AllFields
    <3> QED  BY <3>1, ElseStated
  <2> QED  BY <2>1, <2>2, <2>3
<1> QED
  BY <1>1, <1>2, <1>3, <1>4, <1>5, <1>6, <1>7, <1>8, <1>9, <1>10, <1>11, <1>12, Zenon DEF Step

\* What somebody else does to the notes leaves a call, and what git has said, as they are.
LEMMA SameStated == Stated /\ UNCHANGED <<call, said>> => Stated'
<1> SUFFICES ASSUME Stated, call' = call, said' = said PROVE Stated'  OBVIOUS
<1>1. PICK c, s : c = call /\ s = said  OBVIOUS
<1>2. c = call' /\ s = said'  BY <1>1
<1>3. ParseInv'
  <2>1. ParseInv  BY DEF Stated
  <2> QED  BY <1>1, <1>2, <2>1, Zenon DEF ParseInv, At, Is, Unread
<1>4. StatusIsTrue'
  <2>1. StatusIsTrue  BY DEF Stated
  <2>2. PICK r : r = said.report  OBVIOUS
  <2>3. r = said'.report  BY <2>2
  <2>4. PICK F : F = {r[i] : i \in DOMAIN r}  OBVIOUS
  <2>5. F = {said.report[i] : i \in DOMAIN said.report}  BY <2>2, <2>4, Zenon
  <2>6. F = {said'.report[i] : i \in DOMAIN said'.report}  BY <2>3, <2>4, Zenon
  <2> QED  BY <1>1, <1>2, <2>1, <2>5, <2>6, Zenon DEF StatusIsTrue, At, Is
<1> QED  BY <1>3, <1>4 DEF Stated

\* Whatever git prints, of however many changes, renames and copies among them, and
\* whatever the names are: git_status says of each what it is, and takes no old name for a
\* change; notes_write is refused on every tree with conflicts (_parse_porcelain_v1,
\* _parse_branch_header, _ensure_tree_not_conflicted).
THEOREM StatusAlwaysTrue == Spec => []StatusIsTrue
<1> DEFINE Inv == Told /\ Stated
<1>1. Init => Inv
  <2> SUFFICES ASSUME Init PROVE Stated  BY InitToldOK
  <2>1. call.pc = "idle" /\ call.answer = ""  BY DEF Init
  <2> QED  BY <2>1 DEF Stated, ParseInv, StatusIsTrue, At
<1>2. Inv /\ [Next]_vars => Inv'
  <2> SUFFICES ASSUME Told, Stated, [Next]_vars PROVE Inv'  OBVIOUS
  <2>1. CASE \E tool \in Tools : \E req \in Requests(tool) : Start(tool, req)
    <3>1. PICK tool \in Tools : \E req \in Requests(tool) : Start(tool, req)  BY <2>1
    <3>2. PICK req \in Requests(tool) : Start(tool, req)  BY <3>1
    <3>3. call'.pc \in {"list", "gate"}  BY <3>2 DEF Start, Told, VaultOK, AllFields
    <3> QED  BY <3>2, <3>3, StartToldOK, ElseStated
  <2>2. CASE Step  BY <2>2, StepToldOK, StepStated
  <2>3. CASE \E n \in Notes, note \in NoteStates : OthersChange(n, note)
    <3>1. UNCHANGED <<call, said>>  BY <2>3, Zenon DEF OthersChange
    <3>2. Stated'  BY <3>1, SameStated
    <3> QED  BY <2>3, <3>2, OthersToldOK
  <2>4. CASE UNCHANGED vars
    <3>1. UNCHANGED <<call, said>>  BY <2>4 DEF vars
    <3>2. Stated'  BY <3>1, SameStated
    <3> QED  BY <2>4, <3>2, UnchangedToldOK
  <2> QED  BY <2>1, <2>2, <2>3, <2>4, Zenon DEF Next
<1>3. Inv => StatusIsTrue  BY DEF Stated
<1> QED  BY <1>1, <1>2, <1>3, PTL DEF Spec
====
