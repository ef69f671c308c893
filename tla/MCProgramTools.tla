--------------------------- MODULE MCProgramTools ---------------------------
(* ProgramTools on small instances: commands of at most four words of a     *)
(* small vocabulary, one or two changes in a repository of three names, of  *)
(* which one is too short for an entry and one begins like a conflict, and  *)
(* a vault of three notes with a cap of two.                                *)
EXTENDS ProgramTools

MCBroad == {"/", "/etc", "/etc/"}
MCSystem == {"/etc/", "/etc/x", "/dev/sda", "/dev/null"}
MCDevices == {"/dev/sda", "/dev/null"}
MCOfSystem == {"of=/", "of=/etc/x"}
MCBigR == {"-R", "--recursive"}
MCSmallR == {"-rf"}

Firsts == {"rm", "chown", "dd", "mv", "kill", "mkfs", "curl", "echo", "shutdown", "init", "systemctl"}
Others == {"-rf", "-R", "--no-preserve-root", "/", "/etc/", "/dev/sda", "/dev/null",
           "of=/etc/x", "1", "0", "|", "sh", ">", "reboot", "x"}
Three == {"-rf", "/", "/etc/", "|", "sh", "x"}
MCCommands ==
    {[words |-> <<f>> \o w, balanced |-> TRUE] :
        f \in Firsts, w \in {<<>>} \cup {<<v>> : v \in Others} \cup (Others \X Others)}
    \cup {[words |-> <<f>> \o w, balanced |-> TRUE] : f \in {"rm", "curl"}, w \in Three \X Three \X Three}
    \cup {[words |-> <<>>, balanced |-> TRUE], [words |-> <<"echo", "x">>, balanced |-> FALSE]}

\* A pattern for echo, one for everything, and one that does not compile.
MCWhitelists == {{}, {{}, {c.words : c \in {d \in MCCommands : d.words # <<>> /\ d.words[1] = "echo"}}},
                 {{c.words : c \in MCCommands}}}

Names == {"a", "AA.md", "n.md"}
MCBare == [n \in Names |->
    CASE n = "a"     -> [x |-> "a", y |-> "", rest |-> "", short |-> TRUE, whole |-> n]
      [] n = "AA.md" -> [x |-> "A", y |-> "A", rest |-> "md", short |-> FALSE, whole |-> n]
      [] n = "n.md"  -> [x |-> "n", y |-> ".", rest |-> "d", short |-> FALSE, whole |-> n]]
Plain == {<<"M", " ">>, <<" ", "M">>, <<"M", "M">>, <<"A", "A">>, <<"U", "U">>}
Moves == {<<"R", " ">>, <<"R", "M">>, <<" ", "R">>, <<"C", " ">>}
Change(code, path, orig) == [x |-> code[1], y |-> code[2], path |-> path, orig |-> orig]
Tracked == {Change(code, p, "") : code \in Plain, p \in Names}
               \cup {Change(code, p[1], p[2]) : code \in Moves, p \in {q \in Names \X Names : q[1] # q[2]}}
Untracked == {Change(<<"?", "?">>, p, "") : p \in Names}
MCReports ==
    {<<>>} \cup {<<c>> : c \in Tracked \cup Untracked}
    \cup {r \in (Tracked \X (Tracked \cup Untracked)) : r[1].path # r[2].path}
MCHeads == {[kind |-> "detached", branch |-> "", upstream |-> "", ahead |-> 0],
            [kind |-> "branch", branch |-> "main", upstream |-> "origin/main", ahead |-> 1],
            [kind |-> "new", branch |-> "main", upstream |-> "", ahead |-> 0],
            [kind |-> "new", branch |-> "main", upstream |-> "origin/main", ahead |-> 0]}

MCNotes == 1..3
MCHits == 0..2
MCUnits == {"devbox-bridge.service", "ssh.service"}
MCUnitList == {"devbox-bridge.service"}
=============================================================================
