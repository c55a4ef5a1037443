------------------------------- MODULE DirScan -------------------------------
(***************************************************************************)
(* px.lsdir and px.lsfile of lib/extlua.c: both read a directory to its    *)
(* end and keep some of its names.  A name is looked up in the current     *)
(* directory, whichever directory is read; if stat fails, it leaves its    *)
(* result as the name before left it, and at first uninitialised.          *)
(***************************************************************************)
EXTENDS Integers, Sequences, SequencesExt

CONSTANTS
  Names,   \* the names of files
  Hidden   \* those that begin with a dot

(* A directory's mode has the bit 0x4000; so has a device's or a socket's. *)
Modes == {"directory", "device", "other"}
Bit4000 == {"directory", "device"}

VARIABLES
  here,     \* the current directory: the modes of its names
  there,    \* the names in the directory that is read
  left,     \* names that readdir has not given yet
  reading,  \* what is running: "lsdir", "lsfile" or "none"
  v_st,     \* the mode in the buffer of stat
  answered, \* the names for which stat succeeded
  list,     \* the names kept so far
  lists     \* what each function has returned, and the names that stat knew

scanvars == <<here, there, left, reading, v_st, answered, list, lists>>

NotYet == [names |-> <<"none">>, answered |-> {}]

(* A directory that cannot be opened gives nil, and changes nothing.       *)
opendir(which) ==
  /\ reading = "none" /\ lists[which] = NotYet
  /\ reading' = which /\ left' = there /\ v_st' \in Modes
  /\ answered' = {} /\ list' = <<>>
  /\ UNCHANGED <<here, there, lists>>

(* A name that is in the current directory may be gone by now, or be a     *)
(* link to nothing.                                                        *)
stat(name) ==
  \/ name \in DOMAIN here /\ v_st' = here[name] /\ answered' = answered \union {name}
  \/ UNCHANGED <<v_st, answered>>

(* Mutation of Keeps: what is looked at is the buffer before stat fills it. *)
KeepsLate(mode) == (reading = "lsdir") = (v_st \in Bit4000)
Keeps(mode) == (reading = "lsdir") = (mode \in Bit4000)

(* readdir gives the names in any order. *)
readdir ==
  /\ reading # "none"
  /\ \E name \in left :
       /\ left' = left \ {name}
       /\ IF name \in Hidden THEN UNCHANGED <<v_st, answered, list>>
          ELSE stat(name) /\ list' = IF Keeps(v_st') THEN Append(list, name) ELSE list
  /\ UNCHANGED <<here, there, reading, lists>>

EndOfDirectory ==
  /\ reading # "none" /\ left = {}
  /\ lists' = [lists EXCEPT ![reading] = [names |-> list, answered |-> answered]]
  /\ reading' = "none" /\ list' = <<>> /\ answered' = {}
  /\ UNCHANGED <<here, there, left, v_st>>

ScanStart ==
  /\ here \in UNION {[names -> Modes] : names \in SUBSET Names}
  /\ there \in {DOMAIN here, Names}
  /\ left = {} /\ reading = "none" /\ v_st \in Modes /\ answered = {} /\ list = <<>>
  /\ lists = [which \in {"lsdir", "lsfile"} |-> NotYet]

ScanNext == (\E which \in {"lsdir", "lsfile"} : opendir(which)) \/ readdir \/ EndOfDirectory

(* Whatever the order of the names, those that stat knows of are split:    *)
(* lsdir lists each one whose mode has the bit of a directory, and lsfile  *)
(* each other one, once and under no other's mode.  A name that stat does  *)
(* not know of may be in both lists or in none, but in neither twice; no   *)
(* hidden name is in one (extlua.c:471-491).                               *)
ListsSplit ==
  \A which \in DOMAIN lists : lists[which] # NotYet =>
    LET names == ToSet(lists[which].names)
    IN /\ IsInjective(lists[which].names)
       /\ names \subseteq there \ Hidden
       /\ \A name \in lists[which].answered :
            name \in names <=> (which = "lsdir") = (here[name] \in Bit4000)
=============================================================================
