----------------------------- MODULE MCSdkTools -----------------------------
(***************************************************************************)
(* Lists, files and the sign-in of the SDK, which share no state: each     *)
(* behaviour is one of one part, chosen at its start, and the others keep  *)
(* to their initial states.                                                *)
(***************************************************************************)
EXTENDS SdkPages, SdkFiles, SdkSignIn, TLC

CONSTANTS
  Walk1, Walk2, Writer1, Writer2, Name1, Name2,
  Caller1, Caller2, Process1, Process2, Team1, Team2

VARIABLE part

NamedMC == {<<Name1>>, <<Name2>>, <<Name1, Name2>>}

WriterMenuMC ==
  [x \in Writers |->
    IF x = Writer1 THEN {"write", "mkdir", "rm", "mv", "link", "mode"} ELSE {"append", "download"}]

TeamPagesMC == <<Team1, Team2>>

ToolsSymmetry == Permutations(Walks) \cup Permutations(Callers) \cup Permutations(Processes)

\* Where the sign-in begins matters to the sign-in alone.
Init ==
  /\ PagesInit /\ FilesInit /\ SignInInit
  /\ part \in {"pages", "files", "sign-in"}
  /\ part # "sign-in" => /\ authFile = "none" /\ linked /\ projects = {} /\ barred = {}
                         /\ \A x, y \in Callers : processOf[x] = processOf[y]

Next ==
  /\ UNCHANGED part
  /\ \/ part = "pages" /\ PagesNext /\ UNCHANGED <<filesVars, signInVars>>
     \/ part = "files" /\ FilesNext /\ UNCHANGED <<pagesVars, signInVars>>
     \/ part = "sign-in" /\ SignInNext /\ UNCHANGED <<pagesVars, filesVars>>

Spec == Init /\ [][Next]_<<pagesVars, filesVars, signInVars, part>>
=============================================================================
