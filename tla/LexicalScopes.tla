---------------------------- MODULE LexicalScopes ----------------------------
(***************************************************************************)
(* What name resolution promises: a name means its innermost definition in *)
(* the scopes that are open, and only a name with no such definition of    *)
(* the kind that is asked for may remain without an answer.                *)
(***************************************************************************)
EXTENDS Naturals, Sequences

CONSTANTS
    Names,
    Definitions,    \* records with a sort, "type" or "term", and a name
    Failures,       \* answers that are no definitions
    Absent          \* a name that a scope does not define

VARIABLES
    env,        \* the open scopes, outermost first: names to definitions, or Absent
    answer,     \* what the last lookup found
    stopped     \* the compiler has crashed

vars == <<env, answer, stopped>>

MeaningOf(n) ==
    {env[i][n] : i \in {k \in DOMAIN env : /\ env[k][n] # Absent
                                           /\ \A j \in DOMAIN env : j > k => env[j][n] = Absent}}

Resolve(sort, n) ==
    LET found == {d \in MeaningOf(n) : d.sort = sort}
    IN  \/ found # {} /\ answer' \in found /\ ~stopped'
        \/ found = {} /\ answer' \in Failures

\* The first definition of a name in a scope stays.
Add(d) == env' = [env EXCEPT ![Len(env)][d.name] = IF @ = Absent THEN d ELSE @]

Enter == /\ ~stopped
         /\ env' = Append(env, [n \in Names |-> Absent])
         /\ UNCHANGED <<answer, stopped>>

Leave == /\ ~stopped /\ Len(env) > 1
         /\ env' = SubSeq(env, 1, Len(env) - 1)
         /\ UNCHANGED <<answer, stopped>>

Find(sort, n) == /\ ~stopped
                 /\ Resolve(sort, n)
                 /\ env' = env

\* A definition names its type first, and is not in scope there.
Define(t, d) == /\ ~stopped
                /\ Resolve("type", t)
                /\ IF stopped' THEN env' = env ELSE Add(d)

Init == /\ \E f \in [Names -> {d \in Definitions : d.sort = "type"} \cup {Absent}] :
              /\ \A n \in Names : f[n] # Absent => f[n].name = n
              /\ env = <<f>>
        /\ answer \in Failures
        /\ stopped = FALSE

Next == \/ Enter \/ Leave
        \/ \E n \in Names, sort \in {"type", "term"} : Find(sort, n)
        \/ \E t \in Names, d \in Definitions : d.sort = "term" /\ Define(t, d)

Spec == Init /\ [][Next]_vars

=============================================================================
