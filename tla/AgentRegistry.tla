--------------------------- MODULE AgentRegistry ----------------------------
(***************************************************************************)
(* What the arena's contracts see of the agent registry: isRegistered.  An *)
(* agent leaves it and comes back as it likes.                             *)
(***************************************************************************)
CONSTANT Agents

VARIABLE registered   \* the agents isRegistered answers true for

RegistryInit == registered = Agents

ChangeRegistration(a) == registered' = (registered \ {a}) \cup ({a} \ registered)
=============================================================================
