---------------------------- MODULE TokenStream ----------------------------
(***************************************************************************)
(* What the parser is promised by its token buffer (parse-common.c): the   *)
(* tokens the lexer delivers, each once and in the order of the source,    *)
(* except for the one the parser itself hands back.  The abstract state    *)
(* knows nothing of a stack, of a look-ahead or of a merge.                *)
(***************************************************************************)
EXTENDS Integers, Sequences

CONSTANTS
  Kinds,      \* the kinds of token (token_type)
  NoToken     \* the null token

VARIABLES
  source,     \* the tokens the lexer has produced so far
  at,         \* how many of them the parser has taken
  held        \* the token the parser took last, until it frees it or hands it back

vars == <<source, at, held>>

Init ==
  /\ source = <<>>
  /\ at = 0
  /\ held = NoToken

(* The lexer may be asked for tokens before the parser takes them.          *)
Produced ==
  /\ source' \in Seq(Kinds)
  /\ Len(source) <= Len(source')
  /\ source = SubSeq(source', 1, Len(source))

Produce == Produced /\ UNCHANGED <<at, held>>

(* The parser takes the next token, and no other.                           *)
Take ==
  /\ Produced
  /\ at < Len(source')
  /\ at' = at + 1
  /\ held' \in {source'[at + 1], NoToken}

(* At the end of the source there is nothing left to take.                  *)
TakeNothing ==
  /\ at = Len(source)
  /\ held' = NoToken
  /\ UNCHANGED <<source, at>>

(* The token taken last is handed back, and is the next one again.           *)
GiveBack ==
  /\ at > 0 /\ held = source[at]
  /\ at' = at - 1
  /\ held' = NoToken
  /\ UNCHANGED source

Next == Produce \/ Take \/ TakeNothing \/ GiveBack

Spec == Init /\ [][Next]_vars

=============================================================================
