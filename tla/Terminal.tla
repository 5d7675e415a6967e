------------------------------ MODULE Terminal ------------------------------
(***************************************************************************)
(* What a person does at the terminal: picks or names items beside a       *)
(* backlog that changes (Startup), looks through the list of the items     *)
(* under way (Listing), or reads the log and the page of an item (Pages).  *)
(* None reads what another keeps: a behaviour has one of the three, the    *)
(* last two in a day without events.                                       *)
(***************************************************************************)
EXTENDS Startup, Listing, Pages

Quiet == \A kind \in Kinds : budget[kind] = 0

TerminalInit ==
  /\ Init
  /\ \/ Quiet /\ ListInit /\ PageClosed
     \/ Quiet /\ ListClosed /\ PageInit
     \/ ~Quiet /\ ListClosed /\ PageClosed

TerminalNext ==
  \/ Next /\ UNCHANGED <<listVars, pageVars>>
  \/ height # 0 /\ ListNext /\ UNCHANGED <<allVars, pageVars>>
  \/ rows # 0 /\ PageNext /\ UNCHANGED <<allVars, listVars>>

TerminalSpec == TerminalInit /\ [][TerminalNext]_<<allVars, listVars, pageVars>>
=============================================================================
