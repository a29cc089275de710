---------------------------- MODULE ConfigClaims ----------------------------
(***************************************************************************)
(* What README.md shows of the configuration file and load_config() does   *)
(* not do.                                                                 *)
(***************************************************************************)
EXTENDS ConfigLoad

\* The value of README.md:87, transport_mode=hybrid with a remark behind it.
ShownTexts  == {"hybrid"}
ShownLength == [text \in ShownTexts |-> 6]
ShownNumber == [text \in ShownTexts |-> 0]

\* Once a line that gives transport_mode one of the four names has been read,
\* with the remark README.md writes behind it or without, that is the mode
\* (load_config(), rdp_forwarder.c:253-262).
ModeAsShown ==
  LET n == Len(chunks) IN
    n > 0 /\ Gives(chunks[n], "transport_mode") /\ chunks[n].text \in ModeNames
      => config.transport_mode = chunks[n].text
=============================================================================
