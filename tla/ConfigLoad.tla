----------------------------- MODULE ConfigLoad -----------------------------
(***************************************************************************)
(* How rdp_forwarder.c comes by its configuration: the defaults, the       *)
(* command line, then the file, a piece at a time.                         *)
(*                                                                         *)
(* One key stands for each way a value is taken: target_ip for the texts,  *)
(* max_clients for the whole numbers, and the two that are checked.  A     *)
(* text is a token, with its length, the numbers that atoi() and atof()    *)
(* read at its start (the latter in tenths, or no number, as of "nan") and *)
(* whether a remark follows it on the line: the file has no such thing, it *)
(* is a part of the value.                                                 *)
(***************************************************************************)
EXTENDS Integers, Sequences

CONSTANTS
  Texts,        \* what may stand after an equals sign
  Length,       \* of each of them, in characters
  WholeOf,      \* what atoi() makes of it, 0 if it begins with no number
  ShareOf,      \* what atof() makes of it, in tenths, or NaN
  NaN,          \* the float that is no number
  AddressRoom,  \* sizeof(config.target_ip) - 1
  MaxChunks     \* pieces of the file: bounds the model

ASSUME ConfigAssumption ==
  /\ Length \in [Texts -> Nat]
  /\ WholeOf \in [Texts -> Int]
  /\ ShareOf \in [Texts -> Int \cup {NaN}]
  /\ NaN \notin Int
  /\ "none" \notin Texts
  /\ AddressRoom \in Nat
  /\ MaxChunks \in Nat

VARIABLES
  stage,     \* "start", "loading", "loaded", "exit" or "undefined"
  config,
  argument,  \* history: the address of the command line, "none" without
  chunks     \* history: the pieces read

configVars == <<stage, config, argument, chunks>>

\* What one fgets() gives, trimmed: a line, or a part of a line of over
\* MAX_CONFIG_LINE - 1 characters, the rest of which is read like a line.
Chunk == [form : {"comment", "no_equals", "unknown_key"}] \cup
         [form : {"assignment"}, key : {"target_ip", "max_clients", "transport_mode",
                                        "udp_preference"},
          text : Texts, remark : BOOLEAN]

ModeNames == {"udp", "tcp", "hybrid", "auto"}

Defaults == [target_ip      |-> [text |-> "default", whole |-> TRUE, remark |-> FALSE],
             max_clients    |-> 10,
             transport_mode |-> "tcp",
             udp_preference |-> 0]

ConfigInit ==
  /\ stage = "start"
  /\ config = Defaults
  /\ argument = "none"
  /\ chunks = <<>>

\* What strncpy() keeps of a value: the text or only its beginning, and of the
\* remark what the text leaves room for.
Kept(text, remark) ==
  [text |-> text, whole |-> Length[text] <= AddressRoom,
   remark |-> remark /\ Length[text] < AddressRoom]

\* One argument is an address; with "-c" it is the file that is named.
CommandLine ==
  /\ stage = "start"
  /\ \/ UNCHANGED <<config, argument>>
     \/ \E text \in Texts :
          /\ Length[text] <= AddressRoom
          /\ config' = [config EXCEPT !.target_ip = Kept(text, FALSE)]
          /\ argument' = text
  /\ stage' = "loading"
  /\ UNCHANGED chunks

\* strcpy() of a longer one runs over what lies behind target_ip: undefined
\* behaviour, after which nothing is said of the configuration.
CommandLineOverruns ==
  /\ stage = "start"
  /\ \E text \in Texts : Length[text] > AddressRoom
  /\ stage' = "undefined"
  /\ UNCHANGED <<config, argument, chunks>>

\* No comparison with a NaN holds.
Less(x, y) == NaN \notin {x, y} /\ x < y

ClampedAbove(preference) == IF Less(10, preference) THEN 10 ELSE preference   \* fault
Clamped(preference) == IF Less(preference, 0) THEN 0
                       ELSE IF Less(10, preference) THEN 10 ELSE preference

\* What the mode becomes; a value that is no name of one leaves it.
ModeOrTcp(mode, text, remark) ==   \* fault: falls back to the default
  IF text \in ModeNames /\ ~remark THEN text ELSE "tcp"
ModeNamed(mode, text, remark) ==
  IF text \in ModeNames /\ ~remark THEN text ELSE mode

Assigned(c, line) ==
  CASE line.key = "target_ip" ->
         [c EXCEPT !.target_ip = Kept(line.text, line.remark)]
    [] line.key = "max_clients" ->
         [c EXCEPT !.max_clients = WholeOf[line.text]]
    [] line.key = "transport_mode" ->
         [c EXCEPT !.transport_mode = ModeNamed(@, line.text, line.remark)]
    [] line.key = "udp_preference" ->
         [c EXCEPT !.udp_preference = Clamped(ShareOf[line.text])]

ReadChunk ==
  /\ stage = "loading"
  /\ Len(chunks) < MaxChunks
  /\ \E chunk \in Chunk :
       /\ config' = IF chunk.form = "assignment" THEN Assigned(config, chunk) ELSE config
       /\ chunks' = Append(chunks, chunk)
  /\ UNCHANGED <<stage, argument>>

\* The end of the file, or a file that cannot be opened.  malloc() refuses the
\* size a negative number of clients makes.
LoadEnds ==
  /\ stage = "loading"
  /\ stage' = IF config.max_clients < 0 THEN "exit" ELSE "loaded"
  /\ UNCHANGED <<config, argument, chunks>>

ConfigNext == CommandLine \/ CommandLineOverruns \/ ReadChunk \/ LoadEnds

ConfigSpec == ConfigInit /\ [][ConfigNext]_configVars

-----------------------------------------------------------------------------
(* Properties *)

(* Types of the configuration.  The mode is always one of the four, and the    *)
(* preference for UDP is between 0 and 1, or the NaN that both comparisons of  *)
(* load_config() let through.                                                  *)
ConfigTypeOK ==
  /\ stage \in {"start", "loading", "loaded", "exit", "undefined"}
  /\ config.target_ip \in [text : Texts \cup {"default"}, whole : BOOLEAN,
                            remark : BOOLEAN]
  /\ config.max_clients \in Int
  /\ config.transport_mode \in ModeNames
  /\ config.udp_preference \in (0 .. 10) \cup {NaN}
  /\ chunks \in Seq(Chunk)

Gives(chunk, key) == chunk.form = "assignment" /\ chunk.key = key

\* The last of the pieces read that satisfy a test, 0 for none.
LastOf(P) == CHOOSE i \in P \cup {0} : \A j \in P : j <= i
LastFor(key) == LastOf({i \in 1 .. Len(chunks) : Gives(chunks[i], key)})

(* Each value is what the code takes from the last line that gives it one,     *)
(* over the command line and the default, whatever lines stand between: a line *)
(* in error, a comment, an unknown key or an unknown mode changes nothing that *)
(* was set before it.  An address is what fits of the text and its remark, and *)
(* a mode with a remark behind it is an unknown one (claim_config).            *)
LastLineWins ==
  LET ip    == LastFor("target_ip")
      count == LastFor("max_clients")
      share == LastFor("udp_preference")
      mode  == LastOf({i \in 1 .. Len(chunks) :
                         /\ Gives(chunks[i], "transport_mode")
                         /\ chunks[i].text \in ModeNames /\ ~chunks[i].remark})
  IN /\ config.target_ip =
          IF ip > 0 THEN Kept(chunks[ip].text, chunks[ip].remark)
          ELSE IF argument # "none" THEN Kept(argument, FALSE)
          ELSE Defaults.target_ip
     /\ config.max_clients =
          IF count > 0 THEN WholeOf[chunks[count].text] ELSE Defaults.max_clients
     /\ config.udp_preference =
          IF share > 0 THEN Clamped(ShareOf[chunks[share].text])
          ELSE Defaults.udp_preference
     /\ config.transport_mode =
          IF mode > 0 THEN chunks[mode].text ELSE Defaults.transport_mode
=============================================================================
