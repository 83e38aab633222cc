---------------------------- MODULE TokenBuffer ----------------------------
(***************************************************************************)
(* The parser's view of its input (parse-common.c) and the look-ahead that *)
(* is laid over it (parse-detect-ambiguous.c).                             *)
(*                                                                         *)
(* A parse_state holds the tokens that were scanned but not taken as a     *)
(* stack: the next token is the last of buffer.  A look-ahead first walks  *)
(* down that stack, then scans on into an array of its own, in which the   *)
(* last token may have been looked at without being matched (unused).      *)
(* When the detection is over, merge_lookahead slides the array, reversed, *)
(* under the stack.                                                        *)
(*                                                                         *)
(* The parser is any sequence of the operations of parse-common.c and of   *)
(* detections; the detections ask what the functions of Detect ask.        *)
(***************************************************************************)
EXTENDS Integers, Sequences, SequencesExt, Detect

CONSTANTS
  Kinds,          \* the kinds of token the lexer delivers
  NoToken,        \* the null token, returned at the end of the source
  FirstCapacity,  \* the capacity an array starts with (16)
  MaxTokens       \* bound on the length of the source

ASSUME NoTokenIsNoKind == NoToken \notin Kinds
(* From a capacity of one, resize would never get on: 1 + 1 \div 2 = 1.      *)
ASSUME FirstCapacityGrows == FirstCapacity \in Nat /\ FirstCapacity >= 2
ASSUME MaxTokensIsNatural == MaxTokens \in Nat

VARIABLES
  scanned,    \* the tokens scan has returned, oldest first (history)
  ended,      \* scan has returned null
  buffer,     \* parse_state.buffer up to count
  cap,        \* parse_state.cap
  held,       \* the token the parser took last and has neither freed nor pushed
  frames,     \* the activations of the detection, the running one last
  returned,   \* <<>>, or the structure the last activation returned
  upstream,   \* lookahead_state.upstream_index
  unused,     \* lookahead_state.unused
  tokens,     \* lookahead_state.tokens up to count
  lookCap,    \* lookahead_state.cap
  matched,    \* the kinds the detection has matched, in order (history)
  outcome     \* "running", "exit" (a message and exit(1)) or "crash" (a null pointer read)

parserVars == <<buffer, cap, held>>
detectVars == <<frames, returned>>
lookVars == <<upstream, unused, tokens, lookCap, matched>>
vars == <<scanned, ended, parserVars, detectVars, lookVars, outcome>>

-----------------------------------------------------------------------------
(* resize: the capacity goes through 16, 24, 32, 48, 64, ...                *)

IsPowerOfTwo(n) == \E k \in 0..n : n = 2^k
Larger(n) == IF IsPowerOfTwo(n) THEN n + n \div 2 ELSE 4 * (n \div 3)

ResizeToUsed(used, total) ==
  LET enough[n \in Nat] == IF used <= n THEN n ELSE enough[Larger(n)]
  IN IF total = 0 THEN FirstCapacity ELSE enough[total]

Resize(used, total) ==
  LET enough[n \in Nat] == IF used < n THEN n ELSE enough[Larger(n)]
  IN IF total = 0 THEN FirstCapacity ELSE enough[total]

-----------------------------------------------------------------------------
(* scan returns any token until it returns null, and then only null.        *)
Scan(t) ==
  /\ t \in Kinds => ~ended /\ Len(scanned) < MaxTokens
  /\ scanned' = IF t \in Kinds THEN Append(scanned, t) ELSE scanned
  /\ ended' = (ended \/ t = NoToken)

(* The token parse_peek or parse_shift comes to: the top of the stack, or    *)
(* one that is scanned for the purpose.                                      *)
Upcoming(t) ==
  IF buffer # <<>>
    THEN t = Last(buffer) /\ UNCHANGED <<scanned, ended>>
    ELSE t \in Kinds \cup {NoToken} /\ Scan(t)

Parsing == outcome = "running" /\ frames = <<>> /\ returned = <<>>

(* parse_peek leaves a token it had to scan on the stack.                    *)
Peeked(t) ==
  IF buffer = <<>> /\ t # NoToken
    THEN buffer' = <<t>> /\ cap' = Resize(0, cap)
    ELSE UNCHANGED <<buffer, cap>>

Peek ==
  /\ Parsing
  /\ \E t \in Kinds \cup {NoToken} : Upcoming(t) /\ Peeked(t)
  /\ UNCHANGED <<held, detectVars, lookVars, outcome>>

Popped == buffer' = IF buffer = <<>> THEN <<>> ELSE Front(buffer)

(* parse_shift.                                                              *)
Shift ==
  /\ Parsing
  /\ \E t \in Kinds \cup {NoToken} : Upcoming(t) /\ held' = t
  /\ Popped
  /\ UNCHANGED <<cap, detectVars, lookVars, outcome>>

(* accept returns the next token if it is of the kind asked for, and consume *)
(* frees it at once.                                                         *)
Accept(kind, consume) ==
  /\ Parsing
  /\ \E t \in Kinds \cup {NoToken} :
       /\ Upcoming(t)
       /\ IF t # NoToken /\ Matches(t, kind)
            THEN /\ Popped
                 /\ cap' = IF buffer = <<>> THEN Resize(0, cap) ELSE cap
                 /\ held' = IF consume THEN NoToken ELSE t
            ELSE Peeked(t) /\ UNCHANGED held
  /\ UNCHANGED <<detectVars, lookVars, outcome>>

(* expect takes the next token and stops the program when it is another one. *)
Expect(kind) ==
  /\ Parsing
  /\ \E t \in Kinds \cup {NoToken} :
       /\ Upcoming(t)
       /\ held' = t
       /\ outcome' = IF t # NoToken /\ Matches(t, kind) THEN "running" ELSE "exit"
  /\ Popped
  /\ UNCHANGED <<cap, detectVars, lookVars>>

PushAnything ==
  /\ Parsing
  /\ buffer' = Append(buffer, held)
  /\ cap' = Resize(Len(buffer), cap)
  /\ held' = NoToken
  /\ UNCHANGED <<scanned, ended, detectVars, lookVars, outcome>>

(* parse_push: parse_statement hands back the token it has switched on.      *)
Push ==
  /\ Parsing
  /\ held # NoToken
  /\ buffer' = Append(buffer, held)
  /\ cap' = Resize(Len(buffer), cap)
  /\ held' = NoToken
  /\ UNCHANGED <<scanned, ended, detectVars, lookVars, outcome>>

-----------------------------------------------------------------------------
(* detect_ambiguous_statement, _expression and _new: init_lookahead, the     *)
(* detection itself, merge_lookahead.                                        *)

Detect(fn) ==
  /\ Parsing
  /\ frames' = <<EnterDetect(fn)>>
  /\ upstream' = Len(buffer)
  /\ UNCHANGED <<scanned, ended, parserVars, returned, unused, tokens, lookCap, matched, outcome>>

Asking == outcome = "running" /\ frames # <<>> /\ returned = <<>>
Question == Asks(Last(frames))

(* The detection goes on with the answer to its question.                    *)
GoOn(hit) ==
  LET effect == Answered(Last(frames), hit)
  IN /\ frames' = FramesAfter(frames, effect)
     /\ returned' = ValueAfter(effect)
     /\ matched' = IF hit THEN Append(matched, Question) ELSE matched

(* lookahead, in the parser's own stack,                                     *)
LookUpstream ==
  /\ Asking
  /\ upstream > 0
  /\ LET hit == Matches(buffer[upstream], Question)
     IN GoOn(hit) /\ upstream' = IF hit THEN upstream - 1 ELSE upstream
  /\ UNCHANGED <<scanned, ended, parserVars, unused, tokens, lookCap, outcome>>

LookUnusedAgain ==
  /\ Asking
  /\ upstream = 0 /\ unused
  /\ GoOn(Matches(Last(tokens), Question))
  /\ UNCHANGED <<scanned, ended, parserVars, upstream, unused, tokens, lookCap, outcome>>

(* at the token an earlier question has scanned in vain,                     *)
LookUnused ==
  /\ Asking
  /\ upstream = 0 /\ unused
  /\ LET hit == Matches(Last(tokens), Question)
     IN GoOn(hit) /\ unused' = ~hit
  /\ UNCHANGED <<scanned, ended, parserVars, upstream, tokens, lookCap, outcome>>

(* and at a token scanned now.                                               *)
LookFurther ==
  /\ Asking
  /\ upstream = 0 /\ ~unused
  /\ \E t \in Kinds :
       /\ Scan(t)
       /\ tokens' = Append(tokens, t)
       /\ LET hit == Matches(t, Question)
          IN GoOn(hit) /\ unused' = ~hit
  /\ lookCap' = Resize(Len(tokens), lookCap)
  /\ UNCHANGED <<parserVars, upstream, outcome>>

(* Null is stored like a token, and its type is read.                        *)
LookPastTheEnd ==
  /\ Asking
  /\ upstream = 0 /\ ~unused
  /\ Scan(NoToken)
  /\ outcome' = "crash"
  /\ UNCHANGED <<parserVars, detectVars, lookVars>>

(* An activation goes on with what the one it called has returned.           *)
Return ==
  /\ outcome = "running" /\ frames # <<>> /\ returned # <<>>
  /\ LET effect == OperandIs(Last(frames), returned[1])
     IN frames' = FramesAfter(frames, effect) /\ returned' = ValueAfter(effect)
  /\ UNCHANGED <<scanned, ended, parserVars, lookVars, outcome>>

MergeInScanOrder ==
  /\ outcome = "running" /\ frames = <<>> /\ returned # <<>>
  /\ buffer' = tokens \o buffer
  /\ cap' = IF tokens = <<>> THEN cap ELSE Resize(Len(tokens) + Len(buffer), cap)
  /\ returned' = <<>>
  /\ upstream' = 0 /\ unused' = FALSE
  /\ tokens' = <<>> /\ lookCap' = 0 /\ matched' = <<>>
  /\ UNCHANGED <<scanned, ended, held, frames, outcome>>

(* merge_lookahead; the lookahead_state is gone afterwards.                  *)
Merge ==
  /\ outcome = "running" /\ frames = <<>> /\ returned # <<>>
  /\ buffer' = Reverse(tokens) \o buffer
  /\ cap' = IF tokens = <<>> THEN cap ELSE Resize(Len(tokens) + Len(buffer), cap)
  /\ returned' = <<>>
  /\ upstream' = 0 /\ unused' = FALSE
  /\ tokens' = <<>> /\ lookCap' = 0 /\ matched' = <<>>
  /\ UNCHANGED <<scanned, ended, held, frames, outcome>>

-----------------------------------------------------------------------------
(* parse gives the buffer its first capacity.                                *)
Init ==
  /\ scanned = <<>> /\ ended = FALSE
  /\ buffer = <<>> /\ cap = FirstCapacity /\ held = NoToken
  /\ frames = <<>> /\ returned = <<>>
  /\ upstream = 0 /\ unused = FALSE /\ tokens = <<>> /\ lookCap = 0 /\ matched = <<>>
  /\ outcome = "running"

Look == LookUpstream \/ LookUnused \/ LookFurther \/ LookPastTheEnd

Next ==
  \/ Peek
  \/ Shift
  \/ \E kind \in Kinds, consume \in BOOLEAN : Accept(kind, consume)
  \/ \E kind \in Kinds : Expect(kind)
  \/ Push
  \/ \E fn \in EntryPoints : Detect(fn)
  \/ Look
  \/ Return
  \/ Merge

(* A detection is a call: the program runs nothing else until it returns.    *)
Fairness == WF_vars(Look) /\ WF_vars(Return) /\ WF_vars(Merge)

Spec == Init /\ [][Next]_vars /\ Fairness

-----------------------------------------------------------------------------
TypeOK ==
  /\ scanned \in Seq(Kinds) /\ ended \in BOOLEAN
  /\ buffer \in Seq(Kinds) /\ cap \in Nat
  /\ held \in Kinds \cup {NoToken}
  /\ upstream \in 0..Len(buffer)
  /\ unused \in BOOLEAN /\ (unused => tokens # <<>>)
  /\ tokens \in Seq(Kinds) /\ lookCap \in Nat
  /\ outcome \in {"running", "exit", "crash"}

(* Scanned and not taken: the stack from its top, then what only the         *)
(* look-ahead has seen.                                                      *)
Ahead == Reverse(buffer) \o tokens
Taken == Len(scanned) - Len(Ahead)

Stream == INSTANCE TokenStream WITH source <- scanned, at <- Taken

(* The buffer implements the token stream: whatever the look-ahead has read  *)
(* past the parser's own push-back, and however the two are merged, the      *)
(* parser takes every token once and in the order of the source.             *)
TakesInOrder == Stream!Spec

(* A detection matches the tokens ahead of the parser one after another,     *)
(* whichever of the three places of lookahead each comes from: no question   *)
(* is put to a token twice matched, and none is skipped.                     *)
LooksInOrder ==
  /\ Len(matched) <= Len(Ahead)
  /\ \A i \in 1..Len(matched) : Matches(Ahead[i], matched[i])

(* Nothing is written past the end of an array, however a merge or a push    *)
(* fills it.                                                                 *)
WithinCapacity ==
  /\ Len(buffer) <= cap
  /\ Len(tokens) <= lookCap

(* Every detection comes to an end: its result is merged, or the source has  *)
(* ended under it.  Each loop of the four functions matches a token on every *)
(* turn, and each call is made for an operand that starts after a parenthesis*)
(* or a comma.                                                               *)
DetectionEnds == frames # <<>> ~> (Parsing \/ outcome = "crash")

=============================================================================
