--------------------------- MODULE CommandPolicy ---------------------------
(***************************************************************************)
(* The deny list and the whitelists of src/src/devbox_bridge/security/     *)
(* commands.py.  A command is the sequence of its words: shlex and the     *)
(* regular expressions see the same ones, as quotes are left out but for   *)
(* whether they are balanced, and words are parted by spaces.  The         *)
(* spelling of a word matters only for what the string tests make of it.   *)
(***************************************************************************)
EXTENDS Naturals, Sequences

CONSTANTS
    Broad,      \* words for which _arg_is_danger_path is true: "/", "/etc", "/etc/"
    System,     \* words that begin with one of _DANGER_PATH_PREFIXES
    Devices,    \* words that begin with "/dev/"
    OfSystem,   \* "of=" and a word of System, or "of=/"
    BigR,       \* "--recursive", and dashed words with an "R" in them
    SmallR      \* dashed words with an "r" in them

\* Some argument is one of these words.
Some(argv, words) == \E i \in 2..Len(argv) : argv[i] \in words
Program(argv) == IF argv = <<>> THEN "" ELSE argv[1]

DangerousRm(argv) ==
    /\ Program(argv) = "rm"
    /\ \/ Some(argv, {"--no-preserve-root"})
       \/ Some(argv, SmallR \cup BigR) /\ Some(argv, Broad)

DangerousChownChmod(argv) ==
    Program(argv) \in {"chown", "chmod"} /\ Some(argv, BigR) /\ Some(argv, Broad)

DangerousDd(argv) == Program(argv) = "dd" /\ Some(argv, OfSystem)

\* Arguments that begin with "-" are skipped; none of these does.
DangerousMv(argv) ==
    Program(argv) = "mv" /\ Some(argv, Broad \cup {"/dev/null"})

DangerousKill(argv) == Program(argv) = "kill" /\ Some(argv, {"1"})

DangerousMkfs(argv) == Program(argv) \in {"mkfs", "mkfs.ext4"} /\ Some(argv, Devices)

\* Mutant: rm looks for the path after the flag only.
InOrder(argv) ==
    \/ /\ Program(argv) = "rm"
       /\ \E i, j \in 2..Len(argv) : i < j /\ j = Len(argv) /\ argv[i] \in SmallR \cup BigR /\ argv[j] \in Broad
    \/ DangerousChownChmod(argv) \/ DangerousDd(argv) \/ DangerousMv(argv)
    \/ DangerousKill(argv) \/ DangerousMkfs(argv)

DenyTokenize(argv) ==
    \/ DangerousRm(argv) \/ DangerousChownChmod(argv) \/ DangerousDd(argv) \/ DangerousMv(argv)
    \/ DangerousKill(argv) \/ DangerousMkfs(argv)

Downloaders == {"curl", "wget", "fetch"}
Interpreters == {"sh", "bash", "zsh", "ksh", "dash", "python", "python3", "perl", "ruby", "node"}
PowerCommands == {"shutdown", "reboot", "poweroff", "halt"}
PowerUnits == {"poweroff", "reboot", "halt", "emergency", "rescue"}

\* The one pattern that is anchored at the end.
InitRunlevel(text) == Len(text) = 2 /\ text[1] = "init" /\ text[2] \in {"0", "6"}

DenyRegex(text) ==
    \/ \E i \in 1..Len(text) : text[i] = ":(){:|:&};:"
    \/ \E i, j \in 1..Len(text) : /\ i < j /\ j < Len(text) /\ text[i] \in Downloaders
                                  /\ text[j] = "|" /\ text[j + 1] \in Interpreters
    \/ \E i \in 1..Len(text) : i < Len(text) /\ text[i] = ">" /\ text[i + 1] \in System
    \/ Program(text) \in PowerCommands
    \/ InitRunlevel(text)
    \/ Program(text) = "systemctl" /\ Len(text) >= 2 /\ text[2] \in PowerUnits

Listed(words) == DenyTokenize(words) \/ DenyRegex(words)

\* check_deny_list(): quotes that are not balanced cannot be split.
PassesDenyList(c) == c.words # <<>> /\ c.balanced /\ ~Listed(c.words)

\* check_command(): the deny list, then fullmatch with a pattern of the project;
\* a pattern is the set of commands it matches (none, when it does not compile).
PassesCommand(c, whitelist) ==
    PassesDenyList(c) /\ \E pattern \in whitelist : c.words \in pattern
=============================================================================
