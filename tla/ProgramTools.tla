---------------------------- MODULE ProgramTools ----------------------------
(***************************************************************************)
(* The tools that run a program or walk the vault and say what they found: *)
(* run_command and its siblings as far as they decide what to run,         *)
(* git_status, notes_sync_status and the check of notes_write that reads   *)
(* the same output, notes_list, notes_search, search_files, git_diff and   *)
(* the system tools.  One step is one turn of a loop of the code; what a   *)
(* program prints is chosen when it runs, and is all that the tool knows.  *)
(***************************************************************************)
EXTENDS CommandPolicy, FiniteSets

CONSTANTS
    Commands,    \* what clients send and config.yaml has: [words, balanced]
    Whitelists,  \* command_whitelist of the projects: sets of patterns
    Notes,       \* the notes of the vault, numbers in the order of their names
    Hits,        \* how many lines of a note match a query
    Reports,     \* sequences of changes, as git status finds them
    Bare,        \* names of files, as a parser reads one in the place of an entry
    Heads,       \* where HEAD is
    Units,       \* systemd units
    UnitList,    \* system.systemd_unit_whitelist
    Most,        \* the cap of a list: MAX_LIST_ENTRIES, MAX_SEARCH_LINES, max_matches, ...
    MaxChanges   \* bound: changes of the vault by others

ASSUME CommandsAssumption == \A c \in Commands : c.words \in Seq(STRING)
ASSUME NotesAssumption ==
    /\ Notes \subseteq Nat /\ IsFiniteSet(Notes) /\ Hits \subseteq Nat /\ Most \in Nat

VARIABLES
    vault,   \* what each note is
    same,    \* auxiliary: the notes that nobody changed since the call began
    changes, \* changes of the vault so far, for the bound
    call,    \* the tool call in progress
    said     \* auxiliary: what the program meant

vars == <<vault, same, changes, call, said>>

ExecTools == {"run_command", "run_tests"}
StatusTools == {"git_status", "notes_write"}
VaultTools == {"notes_list", "notes_search"}
TextTools == {"search_files", "git_diff", "read_journalctl", "list_systemd_services"}
Tools == ExecTools \cup StatusTools \cup VaultTools \cup TextTools \cup {"get_system_info"}

Is(tools) == call.tool \in tools
At(pc) == call.pc = pc

Goes(c, s) == call' = c /\ said' = s /\ UNCHANGED <<vault, same, changes>>
Answer(a, c, s) == Goes([c EXCEPT !.pc = "idle", !.answer = a], s)

--------------------------------------------------------------------------
(* A call, and the gates before its program.                               *)

\* A note may be a file or a link, or a file that the bridge may not read ("barred"), in a
\* directory it may list but not enter ("locked"), or in one it may not list ("unlisted").
NoteStates ==
    [kind : {"gone", "link", "barred", "locked", "unlisted"}, hits : {0}] \cup [kind : {"file"}, hits : Hits]

\* What one request asks for.
Requests(tool) ==
    CASE tool \in ExecTools -> Commands
      [] tool = "read_journalctl" -> Units
      [] tool = "list_systemd_services" -> SUBSET Units
      [] OTHER -> {"all"}

\* A tool that looks at the vault finds it as it is by then.
Start(tool, req) ==
    /\ At("idle") /\ call.answer = ""
    /\ same' = Notes
    /\ call' = [call EXCEPT !.pc = IF tool \in VaultTools THEN "list" ELSE "gate",
                            !.tool = tool, !.req = req,
                            !.left = IF tool \in VaultTools THEN Notes ELSE {}]
    /\ IF tool \in VaultTools THEN vault' \in [Notes -> NoteStates] ELSE UNCHANGED vault
    /\ UNCHANGED <<changes, said>>

\* run_tests, run_lint and run_build look at the deny list only.
Gated ==
    LET open == CASE Is({"run_tests"}) -> PassesDenyList(call.req)
                  [] Is({"run_command"}) -> \E w \in Whitelists : PassesCommand(call.req, w)
                  [] Is({"read_journalctl"}) -> call.req \in UnitList
                  [] OTHER -> TRUE
    IN  /\ At("gate")
        /\ IF open THEN Goes([call EXCEPT !.pc = "run"], said) ELSE Answer("denied", call, said)

\* The program is not there, does not answer in time, prints what is no text
\* (subprocess decodes it, strictly), or ends with a code that the tool does not take:
\* rg with 2, when any file could not be read, whatever it found in the others.
Failures == {"absent", "timeout", "undecodable"} \cup
            (IF Is(ExecTools \cup {"read_journalctl", "list_systemd_services"}) THEN {} ELSE {"exit"})
Failed ==
    /\ At("run") /\ ~Is({"get_system_info"})
    /\ \E how \in Failures :
          IF Is(ExecTools) /\ how # "absent"
          THEN Answer(IF how = "timeout" THEN "ok" ELSE "error", [call EXCEPT !.ran = TRUE], said)
          ELSE Answer("error", call, said)

\* An exit code is part of the answer of these, whatever it is.
Executed == At("run") /\ Is(ExecTools) /\ Answer("ok", [call EXCEPT !.ran = TRUE], said)

--------------------------------------------------------------------------
(* git status --porcelain=v1 --branch -z                                   *)

Moved(x, y) == x \in {"R", "C"} \/ y \in {"R", "C"}

\* Only what is untracked has a "?", and it has two; a rename or a copy has an old name.
ASSUME ReportsAssumption ==
    \A r \in Reports :
        /\ r \in Seq([x : STRING, y : STRING, path : STRING, orig : STRING])
        /\ \A i \in DOMAIN r :
              /\ r[i].x = "?" <=> r[i].y = "?"
              /\ IF Moved(r[i].x, r[i].y)
                 THEN r[i].orig \in DOMAIN Bare /\ Bare[r[i].orig].whole = r[i].orig
                 ELSE r[i].orig = ""

\* One entry of a change, and for a rename or a copy the name it had, bare.
Line(c) == [x |-> c.x, y |-> c.y, rest |-> c.path, short |-> FALSE, whole |-> ""]
Block(c) == IF Moved(c.x, c.y) THEN <<Line(c), Bare[c.orig]>> ELSE <<Line(c)>>
PrintedTo(report) ==
    LET upto[i \in 0..Len(report)] == IF i = 0 THEN <<>> ELSE upto[i - 1] \o Block(report[i])
    IN  upto
Printed(report) == PrintedTo(report)[Len(report)]

\* _parse_branch_header(): a branch without commits is taken as all that is left
\* of the line, also when an upstream that is gone follows.
ParsedHead(h) ==
    [ detached |-> h.kind = "detached",
      branch |-> CASE h.kind = "detached" -> ""
                   [] h.kind = "new" /\ h.upstream # "" -> "branch...upstream [gone]"
                   [] OTHER -> h.branch,
      upstream |-> IF h.kind = "branch" THEN h.upstream ELSE "",
      ahead |-> IF h.kind = "branch" THEN h.ahead ELSE 0 ]

StatusRun ==
    /\ At("run") /\ Is(StatusTools)
    /\ \E report \in Reports, h \in Heads :
          LET got == [head |-> ParsedHead(h), staged |-> {}, unstaged |-> {}, untracked |-> {}] IN
          Goes([call EXCEPT !.pc = "parse", !.entries = Printed(report), !.status = got],
               [report |-> report, head |-> h])

\* One turn of _parse_porcelain_v1(); an entry of fewer than three characters is skipped,
\* and one that names a second file takes the next with it.
Parsing(named) ==
    LET e == Head(call.entries)
        moved == ~e.short /\ named /\ Len(call.entries) > 1
        orig == IF moved THEN call.entries[2].whole ELSE ""
        told == [call.status EXCEPT
            !.untracked = IF e.x = "?" /\ e.y = "?" THEN @ \cup {e.rest} ELSE @,
            !.staged = IF e.x \in {" ", "?"} THEN @
                       ELSE @ \cup {[code |-> e.x, path |-> e.rest, orig |-> orig]},
            !.unstaged = IF e.y \in {" ", "?"} THEN @ ELSE @ \cup {[code |-> e.y, path |-> e.rest]}]
    IN  Goes([call EXCEPT !.status = IF e.short THEN @ ELSE told,
                          !.entries = SubSeq(@, IF moved THEN 3 ELSE 2, Len(@))], said)

\* Mutant: the old name is looked for after renames in the index only.
ParsedIndexOnly ==
    /\ At("parse") /\ Is({"git_status"}) /\ call.entries # <<>>
    /\ Parsing(Head(call.entries).x \in {"R", "C"})

Parsed ==
    /\ At("parse") /\ Is({"git_status"}) /\ call.entries # <<>>
    /\ Parsing(Moved(Head(call.entries).x, Head(call.entries).y))
StatusTold == At("parse") /\ Is({"git_status"}) /\ call.entries = <<>> /\ Answer("ok", call, said)

Conflicts == {<<"U", "U">>, <<"A", "A">>, <<"D", "D">>, <<"A", "U">>, <<"U", "A">>, <<"D", "U">>, <<"U", "D">>}

\* _ensure_tree_not_conflicted(): every entry, old names too, by its first two characters.
ConflictSought ==
    /\ At("parse") /\ Is({"notes_write"})
    /\ IF \E i \in DOMAIN call.entries : <<call.entries[i].x, call.entries[i].y>> \in Conflicts
       THEN Answer("denied", call, said)
       ELSE Answer("ok", call, said)

--------------------------------------------------------------------------
(* notes_list and notes_search, beside whoever else works in the vault.    *)

Least(s) == CHOOSE n \in s : \A m \in s : n <= m

\* rglob comes to the notes in any order, and is_file() looks at each one then; rglob skips
\* a directory that it may not list, and is_file() raises in one that it may not enter.
Seen == {"file", "link", "barred"}
NoteListed(n) ==
    /\ At("list") /\ n \in call.left
    /\ IF vault[n].kind = "locked"
       THEN Answer("error", call, said)
       ELSE Goes([call EXCEPT !.left = @ \ {n},
                              !.queue = IF vault[n].kind \in Seen THEN @ \cup {n} ELSE @], said)

\* The first Most of the sorted names.
ListTold ==
    LET first == {n \in call.queue : Cardinality({m \in call.queue : m < n}) < Most} IN
    /\ At("list") /\ call.left = {}
    /\ IF Is({"notes_list"})
       THEN Answer("ok", [call EXCEPT !.found = first, !.cut = Cardinality(call.queue) > Most], said)
       ELSE Goes([call EXCEPT !.pc = "search"], said)

Room == Most - Cardinality(call.found)
HitsIn(n) == IF vault[n].kind = "file" THEN vault[n].hits ELSE 0

\* The next note, and the ones that are searched after it.
Searching(n, after) ==
    IF vault[n].kind \notin {"file", "link"}
    THEN Answer("error", call, said)
    ELSE Goes([call EXCEPT
            !.queue = after,
            !.found = @ \cup {<<n, i>> : i \in 1..(IF HitsIn(n) > Room THEN Room ELSE HitsIn(n))},
            !.cut = HitsIn(n) > Room], said)

\* Mutant: the search stops at the cap without a word when a note ends there.
CutUnsaid ==
    LET n == Least(call.queue) IN
    /\ At("search") /\ call.queue # {} /\ ~call.cut
    /\ Searching(n, IF HitsIn(n) < Room THEN call.queue \ {n} ELSE {})

\* The notes in the order of their names; a link is not read, and a note that is gone
\* by now, or cannot be read, ends the search with an error.
NoteSearched ==
    LET n == Least(call.queue) IN
    /\ At("search") /\ call.queue # {} /\ ~call.cut
    /\ Searching(n, call.queue \ {n})
SearchTold == At("search") /\ (call.queue = {} \/ call.cut) /\ Answer("ok", call, said)

\* The PC, the cron job, the owner, while a tool looks.
OthersChange(n, note) ==
    /\ Is(VaultTools) /\ ~At("idle")
    /\ changes < MaxChanges /\ vault[n] # note
    /\ vault' = [vault EXCEPT ![n] = note]
    /\ changes' = changes + 1 /\ same' = same \ {n}
    /\ UNCHANGED <<call, said>>

--------------------------------------------------------------------------
(* search_files, and the tools whose answer is a text.                     *)

\* The loop stops at max_matches, be there more or not.
FilesSearched ==
    /\ At("run") /\ Is({"search_files"})
    /\ \E n \in 0..(Most + 1) :
          Answer("ok", [call EXCEPT !.found = 1..(IF n < Most THEN n ELSE Most), !.cut = n >= Most], 1..n)

\* _truncate(), _truncate_bytes().
TextCut ==
    /\ At("run") /\ Is({"git_diff", "read_journalctl"})
    /\ \E n \in 0..(Most + 1) :
          Answer("ok", [call EXCEPT !.found = 1..(IF n < Most THEN n ELSE Most), !.cut = n > Most], 1..n)

\* The units whose name has the filter in it; the request is that set.
UnitsListed ==
    /\ At("run") /\ Is({"list_systemd_services"})
    /\ \E there \in SUBSET Units : Answer("ok", [call EXCEPT !.found = there \cap call.req], there)

--------------------------------------------------------------------------
(* get_system_info: five steps, each of which may fail for itself.         *)

InfoSteps == <<"uname", "uptime", "loadavg", "meminfo", "df">>

\* A program that is absent, fails or times out, a file that is not there or not as
\* expected, costs the field; a program that cannot be executed, or prints what is no
\* text, is raised.
InfoStep ==
    LET k == Len(call.info) + 1
        told(ok) == [call EXCEPT !.info = Append(@, ok)]
    IN  /\ At("run") /\ Is({"get_system_info"}) /\ k <= Len(InfoSteps)
        /\ \/ Goes(told(TRUE), said \cup {k})
           \/ Goes(told(FALSE), said)
           \/ InfoSteps[k] \in {"uname", "df"} /\ Answer("error", call, said)

InfoTold ==
    /\ At("run") /\ Is({"get_system_info"}) /\ Len(call.info) = Len(InfoSteps)
    /\ Answer("ok", call, said)

--------------------------------------------------------------------------

\* The tools keep nothing from one call to the next, so one call is all of them.
Init ==
    /\ vault = [n \in Notes |-> [kind |-> "gone", hits |-> 0]] /\ same = Notes /\ changes = 0
    /\ call = [ pc |-> "idle", tool |-> "git_diff", req |-> "all", answer |-> "", ran |-> FALSE,
                entries |-> <<>>, status |-> {}, left |-> {}, queue |-> {}, found |-> {},
                cut |-> FALSE, info |-> <<>> ]
    /\ said = {}

Step ==
    \/ Gated \/ Failed \/ Executed
    \/ StatusRun \/ Parsed \/ StatusTold \/ ConflictSought
    \/ (\E n \in Notes : NoteListed(n)) \/ ListTold \/ NoteSearched \/ SearchTold
    \/ FilesSearched \/ TextCut \/ UnitsListed \/ InfoStep \/ InfoTold

Next ==
    \/ /\ At("idle") /\ call.answer = ""  \* the guard of Start, once for all requests
       /\ \E tool \in Tools : \E req \in Requests(tool) : Start(tool, req)
    \/ Step
    \/ \E n \in Notes, note \in NoteStates : OthersChange(n, note)

Spec == Init /\ [][Next]_vars

--------------------------------------------------------------------------

\* Words after a command that the deny list refuses never make it one that is run, by
\* run_command or from config.yaml, wherever flags and paths stand ("rm -rf / --verbose",
\* SECURITY.md) - but for "init 0", which the pattern takes to be all there is.
DeniedStaysDenied ==
    call.ran => \A k \in 1..Len(call.req.words) :
        LET start == SubSeq(call.req.words, 1, k) IN Listed(start) => InitRunlevel(start)

\* What the changes of a set come to.
UntrackedOf(found) == {c.path : c \in {d \in found : d.x = "?"}}
StagedOf(found) == {[code |-> c.x, path |-> c.path, orig |-> c.orig] :
                        c \in {d \in found : d.x \notin {" ", "?"}}}
UnstagedOf(found) == {[code |-> c.y, path |-> c.path] : c \in {d \in found : d.y \notin {" ", "?"}}}

\* git_status says of each change what git found: what is staged and what is not, under
\* which name, and a name that a file had is never taken for a change; and where HEAD
\* is, but on a branch without commits whose upstream is gone.  notes_write is refused
\* on every tree with conflicts - and also for an old name that begins like one.
StatusIsTrue ==
    At("idle") /\ call.answer # "" /\ Is(StatusTools) /\ call.answer # "error" =>
        LET found == {said.report[i] : i \in DOMAIN said.report}
            h == said.head
            conflicts == {c \in found : <<c.x, c.y>> \in Conflicts}
            lookalikes == {c \in found : Moved(c.x, c.y) /\ <<Bare[c.orig].x, Bare[c.orig].y>> \in Conflicts}
        IN  /\ Is({"git_status"}) =>
                  /\ call.status.untracked = UntrackedOf(found)
                  /\ call.status.staged = StagedOf(found)
                  /\ call.status.unstaged = UnstagedOf(found)
                  /\ call.status.head.detached <=> h.kind = "detached"
                  /\ h.kind = "branch" \/ (h.kind = "new" /\ h.upstream = "") => call.status.head.branch = h.branch
            /\ Is({"notes_write"}) =>
                  /\ conflicts # {} => call.answer = "denied"
                  /\ call.answer = "denied" => conflicts \cup lookalikes # {}

\* What a note that nobody touches gives to the answer of notes_list or notes_search.
Gives(n) == IF Is({"notes_list"})
            THEN {m \in {n} : vault[n].kind \in Seen}
            ELSE {<<n, i>> : i \in 1..HitsIn(n)}

\* What was there all along, in directories the bridge may list, is in the answer, unless
\* the answer says that it was cut, and then what comes first is there; a step of
\* get_system_info that fails costs its own field only; and a search of the vault fails only
\* when others change it, or at a note the bridge may not read, a list only at a note
\* it may not look at.
MayNotRead(n) == vault[n].kind = "locked" \/ (Is({"notes_search"}) /\ vault[n].kind = "barred")
NothingHidden ==
    At("idle") =>
        /\ call.answer = "error" /\ Is(VaultTools) => same # Notes \/ \E n \in Notes : MayNotRead(n)
        /\ call.answer = "ok" /\ Is(VaultTools) =>
              /\ ~call.cut => \A n \in same : Gives(n) \subseteq call.found
              /\ call.cut => Cardinality(call.found) = Most
              /\ \A n \in same : \A m \in same :
                    m < n /\ Gives(n) \cap call.found # {} => Gives(m) \subseteq call.found
              /\ same = Notes => LET all == UNION {Gives(n) : n \in Notes} IN
                                 call.found \subseteq all /\ (call.cut => call.found # all)
        /\ call.answer = "ok" /\ Is({"search_files", "git_diff", "read_journalctl"}) =>
              call.found \subseteq said /\ (call.found # said => call.cut)
        /\ call.answer = "ok" /\ Is({"list_systemd_services"}) => call.found = said \cap call.req
        /\ call.answer = "ok" /\ Is({"get_system_info"}) =>
              \A k \in DOMAIN InfoSteps : call.info[k] <=> k \in said

--------------------------------------------------------------------------
(* The inductive invariant behind NothingHidden.                           *)

\* Only a tool of the vault lists notes, and only notes_search goes on to search them.
PhaseInv ==
    /\ call.pc \in {"idle", "gate", "run", "parse", "list", "search"}
    /\ ~At("idle") => call.answer = ""
    /\ At("list") => Is(VaultTools)
    /\ At("search") => Is({"notes_search"})
    /\ call.pc \in {"gate", "run", "parse"} => ~Is(VaultTools)

\* A call begins with nothing found.
FreshInv ==
    call.answer = "" /\ call.pc \in {"idle", "gate"} =>
        call.found = {} /\ ~call.cut /\ call.queue = {} /\ call.info = <<>> /\ said = {}

\* Of the notes that were looked at, and that nobody touched, those that can be seen wait.
ListInv ==
    At("list") =>
        /\ call.left \subseteq Notes /\ call.queue \subseteq Notes \ call.left
        /\ call.found = {} /\ ~call.cut
        /\ \A n \in same \ call.left : n \in call.queue <=> vault[n].kind \in Seen

\* The note that a search was cut at: what comes before it was searched, of it not all is
\* in the answer, and what comes after it was not looked at.
CutAt(c) ==
    /\ \A e \in call.found : e[1] <= c
    /\ \A n \in call.queue : c < n
    /\ \A n \in same \ (call.queue \cup {c}) : Gives(n) \subseteq call.found
    /\ c \in same => ~(Gives(c) \subseteq call.found)

\* Notes are searched in their order, each one to its end unless the search is cut at it.
SearchInv ==
    At("search") =>
        /\ call.queue \subseteq Notes
        /\ call.found \subseteq Notes \X Nat /\ IsFiniteSet(call.found)
        /\ \A n \in same \cap call.queue : vault[n].kind \in Seen
        /\ \A e \in call.found : /\ e[1] \in same => e \in Gives(e[1])
                                 /\ \A n \in call.queue : e[1] < n
        /\ IF call.cut
           THEN Cardinality(call.found) = Most /\ \E c \in Notes : CutAt(c)
           ELSE /\ Cardinality(call.found) <= Most
                /\ \A n \in same \ call.queue : Gives(n) \subseteq call.found

\* Each step of get_system_info that is over has told what it found.
InfoInv ==
    At("run") /\ Is({"get_system_info"}) =>
        /\ call.info \in Seq(BOOLEAN) /\ Len(call.info) <= Len(InfoSteps)
        /\ \A k \in DOMAIN InfoSteps : k \in said <=> k \in DOMAIN call.info /\ call.info[k]

AnswerInv == PhaseInv /\ FreshInv /\ ListInv /\ SearchInv /\ InfoInv

(* The inductive invariant behind StatusIsTrue.                            *)

\* What is left to read after the first k changes of a report.
Unread(r, k) == SubSeq(Printed(r), Len(PrintedTo(r)[k]) + 1, Len(Printed(r)))

\* notes_write reads all that git printed; git_status has read what was printed of the
\* first k changes, and says what they come to.
ParseInv ==
    At("parse") =>
        LET r == said.report IN
        /\ Is(StatusTools) /\ r \in Reports
        /\ Is({"notes_write"}) => call.entries = Printed(r)
        /\ Is({"git_status"}) =>
              \E k \in 0..Len(r) :
                 LET found == {r[i] : i \in 1..k} IN
                 /\ call.entries = Unread(r, k)
                 /\ call.status = [head |-> ParsedHead(said.head), staged |-> StagedOf(found),
                                   unstaged |-> UnstagedOf(found), untracked |-> UntrackedOf(found)]

=============================================================================
