------------------------------ MODULE RequestScope ------------------------------
(***************************************************************************)
(* Connector tokens and the scope of a request (perimeter/server/auth.py), *)
(* and the redaction of log lines (server/logging.py).  A task of the      *)
(* server enters a scope and leaves it, by return or by exception; scopes  *)
(* nest.  A task that is started inside a scope (a thread of the pool, a   *)
(* task of the MCP session) gets a copy of the context and may outlive the *)
(* scope.  A header that is malformed is refused before there is a scope.  *)
(*                                                                         *)
(* A secret, a message and the word [REDACTED] are sequences of characters, *)
(* because redact replaces text: a secret may be part of the word, or come *)
(* about beside one.  The line of this module is what redact has before    *)
(* _scrub_patterns, whose patterns are left out.                           *)
(***************************************************************************)
EXTENDS Integers, Sequences, SequencesExt, FiniteSets

CONSTANTS Tasks, Connectors, NoSecret,
          Alphabet,    \* the characters
          REDACTED,    \* the word that replaces a secret
          Secrets,     \* what a token header may hold
          Messages,    \* what is logged
          MaxScopes,   \* bound: scopes entered in a behaviour
          MaxLines     \* bound: log records in a behaviour

ASSUME RequestScopeAssumption ==
  /\ REDACTED \in Seq(Alphabet) /\ REDACTED # <<>>
  /\ \A s \in Secrets : s \in Seq(Alphabet) /\ s # <<>>
  /\ \A m \in Messages : m \in Seq(Alphabet)
  /\ NoSecret \notin Secrets /\ MaxScopes \in Nat /\ MaxLines \in Nat

VARIABLES
  scopes,  \* in the order they were entered, see Scope
  context, \* the ContextVar, per task: a number of scopes; 0 is its default
  doing,   \* per task: nothing, or the call it is in
  lines,   \* counter of log records
  inside,  \* history: the scopes that a task is in, the innermost last
  misuse,  \* history: a secret was revealed, or withheld, against the scopes
  written  \* history: [message, line, origin, secrets] for each line that
           \* a log handler was given, see Redacting

scopeVars == <<scopes, context, doing, lines, inside, misuse, written>>

(* RequestCredentials with its ConnectorTokens: the connectors listed in   *)
(* tokens, the secret of each token (NoSecret when wiped), and the         *)
(* task in the with statement, with what its exit puts back.               *)
Scope(t, headers) ==
  [listed |-> {c \in Connectors : headers[c] # NoSecret}, secret |-> headers,
   task |-> t, outer |-> context[t], given |-> headers, ended |-> FALSE]

Nothing == [what |-> "nothing"]

ScopeInit ==
  /\ scopes = <<>>
  /\ context = [t \in Tasks |-> 0] /\ doing = [t \in Tasks |-> Nothing]
  /\ lines = 0
  /\ inside = [t \in Tasks |-> <<>>] /\ misuse = FALSE /\ written = {}

Free(t) == doing[t] = Nothing
Innermost(t) == IF inside[t] = <<>> THEN 0 ELSE Last(inside[t])

(* t is in the with statement of s, rather than started inside it.         *)
Within(t, s) == scopes[s].task = t /\ ~scopes[s].ended

-----------------------------------------------------------------------------
request_scope(t, headers) ==
  /\ Free(t) /\ Len(scopes) < MaxScopes
  /\ scopes' = Append(scopes, Scope(t, headers))
  /\ context' = [context EXCEPT ![t] = Len(scopes')]
  /\ inside' = [inside EXCEPT ![t] = Append(@, Len(scopes'))]
  /\ UNCHANGED <<doing, lines, misuse, written>>

StartTask(t, u) ==
  /\ Free(t) /\ Free(u) /\ context[t] # 0 /\ inside[u] = <<>>
  /\ context' = [context EXCEPT ![u] = context[t]]
  /\ inside' = [inside EXCEPT ![u] = <<context[t]>>]
  /\ UNCHANGED <<scopes, doing, lines, misuse, written>>

EndTask(t) ==
  /\ Free(t) /\ Len(inside[t]) = 1 /\ ~Within(t, Head(inside[t]))
  /\ context' = [context EXCEPT ![t] = 0]
  /\ inside' = [inside EXCEPT ![t] = <<>>]
  /\ UNCHANGED <<scopes, doing, lines, misuse, written>>

(* The exit, whatever the task was doing with a token: first the context.  *)
Exits(t) == doing[t].what \in {"nothing", "token"}

Leave(t) ==
  /\ Exits(t) /\ Innermost(t) # 0 /\ Within(t, Innermost(t))
  /\ context' = [context EXCEPT ![t] = scopes[Innermost(t)].outer]
  /\ inside' = [inside EXCEPT ![t] = Front(@)]
  /\ doing' = [doing EXCEPT ![t] = [what |-> "wipe", scope |-> Innermost(t)]]
  /\ UNCHANGED <<scopes, lines, misuse, written>>

Wiping(t) == doing[t].what = "wipe"

(* RequestCredentials.wipe: token by token, then the dictionary.           *)
WipeToken(t) ==
  /\ Wiping(t)
  /\ \E c \in scopes[doing[t].scope].listed :
       /\ scopes[doing[t].scope].secret[c] # NoSecret
       /\ scopes' = [scopes EXCEPT ![doing[t].scope].secret[c] = NoSecret]
  /\ UNCHANGED <<context, doing, lines, inside, misuse, written>>

(* Mutant of WipeTokens: the dictionary is emptied, the tokens are not     *)
(* wiped.                                                                  *)
WipeTokens_DictOnly(t) ==
  /\ Wiping(t)
  /\ scopes' = [scopes EXCEPT ![doing[t].scope].listed = {}, ![doing[t].scope].ended = TRUE]
  /\ doing' = [doing EXCEPT ![t] = Nothing]
  /\ UNCHANGED <<context, lines, inside, misuse, written>>

WipeTokens(t) ==
  /\ Wiping(t)
  /\ \A c \in Connectors : scopes[doing[t].scope].secret[c] = NoSecret
  /\ scopes' = [scopes EXCEPT ![doing[t].scope].listed = {}, ![doing[t].scope].ended = TRUE]
  /\ doing' = [doing EXCEPT ![t] = Nothing]
  /\ UNCHANGED <<context, lines, inside, misuse, written>>

-----------------------------------------------------------------------------
(* token_for, and then reveal: the Drive connector before each request.    *)
Visible(t) == IF context[t] = 0 THEN {} ELSE scopes[context[t]].listed
Open(s) == s # 0 /\ ~scopes[s].ended

Withheld(t, c) == Open(Innermost(t)) /\ scopes[Innermost(t)].given[c] # NoSecret
Usable(s, c) == scopes[s].secret[c] # NoSecret

token_for(t, c) ==
  /\ Free(t)
  /\ IF c \in Visible(t)
     THEN /\ doing' = [doing EXCEPT ![t] =
                [what |-> "token", scope |-> context[t], connector |-> c]]
          /\ misuse' = misuse
     ELSE /\ doing' = doing
          /\ misuse' = (misuse \/ Withheld(t, c))
  /\ UNCHANGED <<scopes, context, lines, inside, written>>

(* It raises when the token has been wiped. *)
reveal(t) ==
  /\ doing[t].what = "token"
  /\ LET s == doing[t].scope IN
     misuse' = (misuse \/ (Usable(s, doing[t].connector) /\ (scopes[s].ended \/ s # Innermost(t))))
  /\ doing' = [doing EXCEPT ![t] = Nothing]
  /\ UNCHANGED <<scopes, context, lines, inside, written>>

-----------------------------------------------------------------------------
(* redact: the tokens in scope are listed, and one after the other, the    *)
(* longest first, is revealed and replaced.  When one has been wiped       *)
(* meanwhile the log call raises, and there is no line.                    *)
Occurrences(text, secret) ==
  {i \in DOMAIN text : /\ i + Len(secret) - 1 \in DOMAIN text
                       /\ \A k \in DOMAIN secret : text[i + k - 1] = secret[k]}

Covers(i, secret) == i..(i + Len(secret) - 1)

(* Mutant of Longest: in the other order. *)
Longest_Last(r, s) == Len(r) < Len(s)
Longest(r, s) == Len(r) > Len(s)

(* A log call in redact: the tokens listed, what is left of them for the   *)
(* loop, and the text so far.  While a secret is being replaced, the first *)
(* "at" characters of the text have been gone through.  History: where in  *)
(* the message a character of the text comes from, 0 for one of the word.  *)
Redacting(s, message, tokens) ==
  [what |-> "log", scope |-> s, message |-> message, tokens |-> tokens, left |-> tokens,
   text |-> message, origin |-> [k \in DOMAIN message |-> k], secret |-> NoSecret, at |-> 0]

Nowhere == [j \in DOMAIN REDACTED |-> 0]

Logging(t) == doing[t].what = "log"
Replacing(t) == Logging(t) /\ doing[t].secret # NoSecret

(* The secrets that connectors of a scope were given. *)
GivenTo(s, connectors) == {scopes[s].given[c] : c \in connectors}

log(t, message) ==
  /\ Free(t) /\ lines < MaxLines
  /\ lines' = lines + 1
  /\ doing' = [doing EXCEPT ![t] =
       Redacting(context[t], message, Visible(t))]
  /\ UNCHANGED <<scopes, context, inside, misuse, written>>

(* The connector whose token the loop has come to. *)
Turn(t, c) ==
  /\ Logging(t) /\ ~Replacing(t) /\ c \in doing[t].left
  /\ \A d \in doing[t].left :
       ~Longest(scopes[doing[t].scope].given[d], scopes[doing[t].scope].given[c])

redact(t, c) ==
  /\ Turn(t, c) /\ Usable(doing[t].scope, c)
  /\ LET d == doing[t] IN
     doing' = [doing EXCEPT ![t] =
       [d EXCEPT !.left = d.left \ {c}, !.secret = scopes[d.scope].secret[c], !.at = 0]]
  /\ UNCHANGED <<scopes, context, lines, inside, misuse, written>>

(* Mutant of Ahead: only the first occurrence is replaced. *)
Ahead_First(d) == {k \in Occurrences(d.text, d.secret) : d.at = 0}

Ahead(d) == {k \in Occurrences(d.text, d.secret) : k > d.at}

(* str.replace: from the left, on behind the word it has put in.           *)
replace(t) ==
  /\ Replacing(t)
  /\ LET d == doing[t] IN
       \/ \E k \in Ahead(d) :
            /\ \A j \in Ahead(d) : k <= j
            /\ doing' = [doing EXCEPT ![t] =
                 [d EXCEPT !.text = ReplaceSubSeqAt(k, REDACTED, d.secret, d.text),
                           !.origin = ReplaceSubSeqAt(k, Nowhere, d.secret, d.origin),
                           !.at = k + Len(REDACTED) - 1]]
       \/ Ahead(d) = {} /\ doing' = [doing EXCEPT ![t] = [d EXCEPT !.secret = NoSecret]]
  /\ UNCHANGED <<scopes, context, lines, inside, misuse, written>>

LogRaises(t, c) ==
  /\ Turn(t, c) /\ ~Usable(doing[t].scope, c)
  /\ doing' = [doing EXCEPT ![t] = Nothing]
  /\ UNCHANGED <<scopes, context, lines, inside, misuse, written>>

RedactionFilter(t) ==
  /\ Logging(t) /\ ~Replacing(t) /\ doing[t].left = {}
  /\ written' = written \cup
       {[message |-> doing[t].message, line |-> doing[t].text, origin |-> doing[t].origin,
         secrets |-> GivenTo(doing[t].scope, doing[t].tokens)]}
  /\ doing' = [doing EXCEPT ![t] = Nothing]
  /\ UNCHANGED <<scopes, context, lines, inside, misuse>>

ScopeNext ==
  \/ \E t \in Tasks, headers \in [Connectors -> Secrets \cup {NoSecret}] : request_scope(t, headers)
  \/ \E t, u \in Tasks : StartTask(t, u)
  \/ \E t \in Tasks : EndTask(t) \/ Leave(t) \/ WipeToken(t) \/ WipeTokens(t)
  \/ \E t \in Tasks : reveal(t) \/ replace(t) \/ RedactionFilter(t)
  \/ \E t \in Tasks, c \in Connectors : token_for(t, c) \/ redact(t, c) \/ LogRaises(t, c)
  \/ \E t \in Tasks, message \in Messages : log(t, message)

ScopeSpec == ScopeInit /\ [][ScopeNext]_scopeVars

-----------------------------------------------------------------------------
(* INV-3: a token can be used by the tasks of its own scope until the      *)
(* scope has ended, and no longer, whoever still holds it or the context;  *)
(* and an inner scope gives the outer one back.                            *)
TokensStayInScope == ~misuse

(* The word gives nothing of a clear secret: the secret has neither of its *)
(* brackets and is not found between them.  Of a secret that is not clear  *)
(* (RED, or x] beside a quote of another secret) the code promises nothing: *)
(* its own word may spell it.                                              *)
Clear(s) ==
  /\ Occurrences(REDACTED, s) = {}
  /\ \A k \in DOMAIN s : s[k] \notin {Head(REDACTED), Last(REDACTED)}

(* Whatever is logged and whatever else is in scope, no clear secret in    *)
(* scope is found in the line: replacing one secret never makes up another *)
(* (logging.py:40-46).                                                     *)
NoTokenInLogs ==
  \A w \in written : \A s \in w.secrets : Clear(s) => Occurrences(w.line, s) = {}

(* A secret that is quoted leaves no rest in the line, not of a longer one *)
(* that it is part of and not of itself, unless what is quoted runs over   *)
(* into another secret of the scope, or one of them is not clear.          *)
Overlap(i, s, j, r) == Covers(i, s) \cap Covers(j, r) # {}

Whole(message, secrets, i, s) ==
  \A r \in secrets : \A j \in Occurrences(message, r) :
    Overlap(i, s, j, r) => Covers(j, r) \subseteq Covers(i, s)

NoRestInLogs ==
  \A w \in written : (\A s \in w.secrets : Clear(s)) =>
    \A s \in w.secrets : \A i \in Occurrences(w.message, s) :
      Whole(w.message, w.secrets, i, s) =>
        \A k \in DOMAIN w.origin : w.origin[k] \notin Covers(i, s)
=============================================================================
