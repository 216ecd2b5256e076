------------------------------ MODULE clp_menu ------------------------------
(***************************************************************************)
(* The menu list of src/utils/src/clp.c: clp_init and clp_menuAddEntry     *)
(* (built with CLP_SORT_ALPHA FALSE, the default of clp.h).  Menu entries  *)
(* are caller-owned static structures, here the numbers 1 .. N (1 is      *)
(* gs_clp_helpCmd, 0 is NULL); the list is gs_clp.p_first and the p_next   *)
(* fields.  A structure keeps its fields, p_next included, across a new    *)
(* clp_init: lums_menuInit adds the same statics again.                    *)
(***************************************************************************)
EXTENDS Naturals, Sequences, FiniteSets, SequencesExt

CONSTANTS
  N,            \* number of entry structures
  Cmds,         \* command strings callers use
  HELP_CMD,     \* "help"
  FlatMenus     \* TRUE: callers nest only one level, as lums_menuInit does

Objs == 1 .. N
HELP == 1                    \* &gs_clp_helpCmd
UserObjs == Objs \ {HELP}

VARIABLES
  p_first,      \* gs_clp.p_first
  p_next,       \* p_entry->p_next of every structure
  p_parent,     \* p_entry->p_parent
  p_cmd,        \* p_entry->p_cmd, "" while never set
  cb,           \* p_entry->pfn_menuCallBack # NULL
  cbCtx,        \* p_entry->pfn_menuCallBackCtx # NULL
  \* history: entries added with result 0 since clp_init, and the kind each
  \* was last given through the API: "menu", "cb" or "ctx"
  registered, declared

vars == <<p_first, p_next, p_parent, p_cmd, cb, cbCtx, registered, declared>>

\* Following p_next from o for at most n more entries; a list that does not
\* end within N entries comes out N + 1 long.
RECURSIVE ListFrom(_, _)
ListFrom(o, n) ==
  IF o = 0 THEN <<>>
  ELSE IF n = 0 THEN <<o>>
  ELSE <<o>> \o ListFrom(p_next[o], n - 1)

List == ListFrom(p_first, N)

Listed == Range(List)

\* Zero-initialized statics.
Init ==
  /\ p_first = 0
  /\ p_next = [o \in Objs |-> 0]
  /\ p_parent = [o \in Objs |-> 0]
  /\ p_cmd = [o \in Objs |-> ""]
  /\ cb = [o \in Objs |-> FALSE]
  /\ cbCtx = [o \in Objs |-> FALSE]
  /\ registered = {}
  /\ declared = [o \in Objs |-> "menu"]

-----------------------------------------------------------------------------

\* The for-loop over the list looking for the same parent and command.
Duplicate(par, cmd) == \E e \in Listed : p_parent[e] = par /\ p_cmd[e] = cmd

\* Mutant: the walk ignores the parent test and runs to the end of the list.
ChildSlot_toEnd(prev, par) == List[Len(List)]

\* The for(p_prev = p_parent; ; ...) walk: the last entry of the run of
\* children of par that follows prev.
RECURSIVE ChildSlot(_, _)
ChildSlot(prev, par) ==
  IF p_next[prev] # 0 /\ p_parent[p_next[prev]] = par
  THEN ChildSlot(p_next[prev], par)
  ELSE prev

\* The fields written once the entry is in the list; pfn_menuCallBackCtx
\* is not among them.
SetFields(o, par, cmd, hasCb) ==
  /\ p_parent' = [p_parent EXCEPT ![o] = par]
  /\ p_cmd' = [p_cmd EXCEPT ![o] = cmd]
  /\ cb' = [cb EXCEPT ![o] = hasCb]
  /\ registered' = registered \cup {o}
  /\ declared' = [declared EXCEPT ![o] = IF hasCb THEN "cb" ELSE "menu"]
  /\ UNCHANGED cbCtx

\* Mutant: the root append does not clear the new entry's p_next.
AppendRoot_keepNext(o) ==
  IF p_first = 0 THEN p_first' = o /\ p_next' = [p_next EXCEPT ![o] = o]
  ELSE p_first' = p_first /\ p_next' = [p_next EXCEPT ![List[Len(List)]] = o]

\* A root entry goes to the end of the list, p_next set to NULL.
AppendRoot(o) ==
  /\ p_first' = IF p_first = 0 THEN o ELSE p_first
  /\ p_next' = IF p_first = 0 THEN [p_next EXCEPT ![o] = 0]
               ELSE [p_next EXCEPT ![List[Len(List)]] = o, ![o] = 0]

\* clp_menuAddEntry(p_entry = o, p_parent = par, p_cmd = cmd, callback).  A
\* call that returns -1 (the command exists in this context, or the parent
\* is not in the list) changes nothing: a stuttering step.
clp_menuAddEntry(o, par, cmd, hasCb) ==
  /\ ~Duplicate(par, cmd)
  /\ \/ /\ par = 0
        /\ AppendRoot(o)
        /\ SetFields(o, par, cmd, hasCb)
     \/ /\ par # 0
        /\ par \in Listed                            \* clp_menuEntryCheckInList
        /\ LET prev == ChildSlot(par, par)
           IN p_next' = [p_next EXCEPT ![o] = p_next[prev], ![prev] = o]
        /\ SetFields(o, par, cmd, hasCb)
        /\ UNCHANGED p_first

\* clp_init: an empty list, then the help entry added at root level.
clp_init ==
  /\ p_first' = HELP
  /\ p_next' = [p_next EXCEPT ![HELP] = 0]
  /\ p_parent' = [p_parent EXCEPT ![HELP] = 0]
  /\ p_cmd' = [p_cmd EXCEPT ![HELP] = HELP_CMD]
  /\ cb' = [cb EXCEPT ![HELP] = TRUE]
  /\ registered' = {HELP}
  /\ declared' = [declared EXCEPT ![HELP] = "cb"]
  /\ UNCHANGED cbCtx

\* clp_menuSetCtxBasedCB(p_entry = o, callback): only for an entry in the
\* list; otherwise it changes nothing.  It returns 0 either way (i_return
\* is never set to -1), although clp.h:238-239 promises -1 for an entry
\* that is not in the list; no caller reads the result.
clp_menuSetCtxBasedCB(o, hasCb) ==
  /\ o \in Listed
  /\ cb' = [cb EXCEPT ![o] = FALSE]
  /\ cbCtx' = [cbCtx EXCEPT ![o] = hasCb]
  /\ declared' = [declared EXCEPT ![o] = IF hasCb THEN "ctx" ELSE "menu"]
  /\ UNCHANGED <<p_first, p_next, p_parent, p_cmd, registered>>

\* Parents a caller passes: NULL, any structure, or with FlatMenus only
\* structures that are not a child in the current list.
Parents == IF FlatMenus THEN {0} \cup {p \in Objs : p \notin Listed \/ p_parent[p] = 0}
           ELSE {0} \cup Objs

Next ==
  \/ clp_init
  \/ \E o \in UserObjs \ Listed, par \in Parents, cmd \in Cmds, hasCb \in BOOLEAN :
       clp_menuAddEntry(o, par, cmd, hasCb)
  \/ \E o \in UserObjs, hasCb \in BOOLEAN : clp_menuSetCtxBasedCB(o, hasCb)

Spec == Init /\ [][Next]_vars

-----------------------------------------------------------------------------
(* Properties.                                                             *)

(* The list walked by clp_findEntry and clp_menuPrintHelp ends, holds      *)
(* exactly the entries whose clp_menuAddEntry returned 0 since the last    *)
(* clp_init (none left over from an earlier menu through a stale p_next),  *)
(* and no two of them have the same parent and command, as clp.h demands. *)
ListMatchesRegistry ==
  /\ Len(List) <= N
  /\ Listed = registered
  /\ \A e, f \in Listed : e # f => <<p_parent[e], p_cmd[e]>> # <<p_parent[f], p_cmd[f]>>

\* The entries above e, following p_parent at most n times.
RECURSIVE AncestorsOf(_, _)
AncestorsOf(e, n) ==
  IF p_parent[e] = 0 \/ n = 0 THEN {}
  ELSE {p_parent[e]} \cup AncestorsOf(p_parent[e], n - 1)

(* clp_menuPrintHelp prints the list in order, children indented under    *)
(* the entry before them: the list is a pre-order of the menu tree, every *)
(* entry directly followed by all of the entries below it.                 *)
ChildrenFollowParent ==
  \A i \in 1 .. Len(List) :
    LET below == {j \in 1 .. Len(List) : List[i] \in AncestorsOf(List[j], N)}
    IN below = i + 1 .. i + Cardinality(below)

(* What clp_parse does with an entry (call pfn_menuCallBack, call         *)
(* pfn_menuCallBackCtx, or enter it as a menu, clp.c:347-359) is what the *)
(* last of clp_menuAddEntry and clp_menuSetCtxBasedCB made of it; clp.h:  *)
(* an entry added with a NULL call-back is a hierarchical entry.           *)
EntryKindAsDeclared ==
  \A e \in Listed :
    declared[e] = CASE cb[e] -> "cb" [] cbCtx[e] -> "ctx" [] OTHER -> "menu"

=============================================================================
