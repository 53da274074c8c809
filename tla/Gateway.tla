------------------------------- MODULE Gateway -------------------------------
(***************************************************************************)
(* What the HTTP front ends promise their callers, without packets, uuids, *)
(* timers and tables: a call is answered at most once, and for good; it is *)
(* answered with success only if it took effect at a provider at one       *)
(* moment between the call and the answer, or if it asks for a file that   *)
(* an earlier call had from a provider.  A failure promises nothing.       *)
(* HttpRequests implements it.                                             *)
(***************************************************************************)
CONSTANTS Ids, Fronts, Files, Providers, None

\* Kinds of calls that may succeed.  An update or a contract may take effect,
\* but is never reported to; a deletion or a change of access does nothing.
Reported == {"get", "packet", "upload"}
Kinds == Reported \cup {"update", "contract", "delete", "access"}

VARIABLES
  call,         \* call[i]: [front, kind, file, reply], None before it is made
  effective,    \* the calls that took effect
  holds         \* <<p, f>>: provider p stores file f

Call(a, kind, f, reply) == [front |-> a, kind |-> kind, file |-> f, reply |-> reply]

Init ==
  /\ call = [i \in Ids |-> None]
  /\ effective = {}
  /\ holds = {}

Held(f) == \E p \in Providers : <<p, f>> \in holds

\* A call of front end `a` had file f from a provider.
Fetched(a, f) == \E j \in effective : call[j] = Call(a, "get", f, "success")

Make(i, a, kind, f) ==
  /\ call[i] = None
  /\ call' = [call EXCEPT ![i] = Call(a, kind, f, "open")]
  /\ UNCHANGED <<effective, holds>>

\* A get is answered at once: with a file that was fetched before, with a
\* file a provider holds, or with a failure.
Get(i, a, f, reply) ==
  /\ call[i] = None
  /\ call' = [call EXCEPT ![i] = Call(a, "get", f, reply)]
  /\ \/ /\ reply = "success" => Fetched(a, f)
        /\ UNCHANGED effective
     \/ /\ Held(f)
        /\ effective' = effective \cup {i}
  /\ UNCHANGED holds

\* A call may take effect after it was given up, too.
TakeEffect(i, p) ==
  /\ call[i] # None
  /\ effective' = effective \cup {i}
  /\ LET f == call[i].file
     IN  \/ /\ call[i].kind \in {"get", "packet", "contract"}
            /\ <<p, f>> \in holds
            /\ UNCHANGED holds
         \/ call[i].kind = "upload" /\ holds' = holds \cup {<<p, f>>}
         \/ call[i].kind = "update" /\ <<p, f>> \in holds /\ holds' = holds \ {<<p, f>>}
  /\ UNCHANGED call

Answer(i, reply) ==
  /\ call[i] # None /\ call[i].reply = "open"
  /\ reply = "success" =>
       /\ call[i].kind \in Reported
       /\ \/ i \in effective
          \/ call[i].kind = "get" /\ Fetched(call[i].front, call[i].file)
  /\ call' = [call EXCEPT ![i].reply = reply]
  /\ UNCHANGED <<effective, holds>>

\* Peers store and delete files without the front ends.
Put(p, f) == holds' = holds \cup {<<p, f>>} /\ UNCHANGED <<call, effective>>

Drop(p, f) == holds' = holds \ {<<p, f>>} /\ UNCHANGED <<call, effective>>

Next ==
  \/ \E i \in Ids :
       \/ \E a \in Fronts, f \in Files :
            \/ \E kind \in Kinds : Make(i, a, kind, f)
            \/ \E reply \in {"success", "failure"} : Get(i, a, f, reply)
       \/ \E p \in Providers : TakeEffect(i, p)
       \/ \E reply \in {"success", "failure"} : Answer(i, reply)
  \/ \E p \in Providers, f \in Files : Put(p, f) \/ Drop(p, f)

Spec == Init /\ [][Next]_<<call, effective, holds>>
=============================================================================
