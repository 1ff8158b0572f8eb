------------------------------ MODULE DriverOrder -----------------------------
(***************************************************************************)
(* What the order of a driver's steps must be like, without running it,    *)
(* for its callbacks to find what they use and for everything to be given  *)
(* back, once.  All this is about a line of Table and the set F of the     *)
(* steps that fail; LifeProofs shows that it is enough.                    *)
(***************************************************************************)
EXTENDS DriverLife

\* What a driver acquires, its steps and its operations.
Names(d) == {d.probe[i].r : i \in DOMAIN d.probe}

Steps(d) ==
  [r : Names(d), undo : Seq(Names(d)),
   failure : {"error", "success", "ignored", "fatal", "never", "set off"}]

Ops(d) ==
  [op : {"give", "cancel", "cancel_sync", "use"}, of : Names(d)]
    \cup {MayAbort}

\* No two steps acquire the same.
NamedOnce(d) ==
  \A i, j \in DOMAIN d.probe :
    /\ d.probe[i].r = d.probe[j].r
    /\ d.probe[i].failure # "set off" /\ d.probe[j].failure # "set off"
    => i = j

\* Callbacks need what a probe acquires and set off callbacks, and a probe sets
\* off only such as they do.
SetOffKnown(d) ==
  /\ "code" \notin DOMAIN d.uses
  /\ DOMAIN d.starts = DOMAIN d.uses
  /\ \A c \in DOMAIN d.uses :
       d.uses[c] \subseteq Names(d) /\ d.starts[c] \subseteq DOMAIN d.uses
  /\ \A i \in DOMAIN d.probe :
       d.probe[i].failure = "set off" =>
         \E c \in DOMAIN d.uses : d.probe[i].r \in d.starts[c]

Formed(d) ==
  /\ d.probe \in Seq(Steps(d))
  /\ d.probe # <<>>
  /\ d.remove \in Seq(Ops(d))
  /\ NamedOnce(d)
  /\ SetOffKnown(d)

\* The lines of Table are.
ASSUME TableFormed == \A n \in DOMAIN Table : Formed(Table[n])

-----------------------------------------------------------------------------
(* The probe.                                                                *)

\* The failures that end a probe, and the steps that a probe with these failures
\* comes to (the last of them is the one after the probe).
Ends(d, F) ==
  {i \in DOMAIN d.probe :
     d.probe[i].failure \in {"error", "success"} /\ d.probe[i].r \in F}

Reached(d, F) ==
  {i \in 1 .. Len(d.probe) + 1 : \A j \in Ends(d, F) : i <= j}

\* What is there when step i begins.
There(d, i, F) ==
  LET Made == {j \in 1 .. i - 1 : d.probe[j].failure # "set off"}
  IN  {"code"} \cup ({d.probe[j].r : j \in Made} \ F)

Undoing(d, i) == [k \in DOMAIN d.probe[i].undo |-> Give(d.probe[i].undo[k])]

NoAbort(d, F) ==
  "remove" \in F => \A k \in DOMAIN d.remove : d.remove[k].op # "abort"

-----------------------------------------------------------------------------
(* Giving back.                                                              *)

\* Each operation finds what it is about, if H is there at first.
Finds(s, H) ==
  \A k \in DOMAIN s :
    s[k].op \in {"give", "cancel", "cancel_sync"} =>
      s[k].of \in H /\ \A l \in 1 .. k - 1 : s[l] # Give(s[k].of)

Given(s) == {s[k].of : k \in {k \in DOMAIN s : s[k].op = "give"}}

\* And what it leaves, the driver core gives back.
Even(d, s, H) ==
  Finds(s, H) /\ H \ Given(s) \subseteq d.managed \cup {"code"}

\* An error path gives back what was acquired before it, a removal what was
\* acquired by the probe, or by what there was of it.
Paired(d, F) ==
  /\ NoAbort(d, F)
  /\ \A i \in Reached(d, F) :
       IF i \notin Ends(d, F)
       THEN i = Len(d.probe) + 1 => Even(d, d.remove, There(d, i, F))
       ELSE IF d.probe[i].failure = "error"
       THEN Even(d, Undoing(d, i), There(d, i, F))
       ELSE /\ Finds(Undoing(d, i), There(d, i, F))
            /\ Even(d, d.remove, There(d, i, F) \ Given(Undoing(d, i)))

-----------------------------------------------------------------------------
(* The callbacks.                                                            *)

\* What is only called once something has set it off; the rest is called from
\* the moment it is acquired to the moment it is given back.
Later(d) == UNION {d.starts[c] : c \in DOMAIN d.uses}

Needs(d, c) == d.uses[c] \cup {"code"}

\* The callbacks that may come when step i begins: what has been acquired or set
\* off before, and whatever that sets off, directly or not.
Sources(d, i) ==
  {c \in DOMAIN d.uses : \E j \in 1 .. i - 1 :
     d.probe[j].r = c /\ (d.probe[j].failure = "set off" \/ c \notin Later(d))}

Closed(d, K) == \A c \in K : d.starts[c] \subseteq K

Hot(d, i) ==
  {c \in DOMAIN d.uses : \A K \in SUBSET DOMAIN d.uses :
     Sources(d, i) \subseteq K /\ Closed(d, K) => c \in K}

\* They find what they need, and step i itself goes on only if it has got its.
Served(d, i, F) ==
  /\ i \in DOMAIN d.probe => d.probe[i].failure # "fatal"
  /\ \A c \in Hot(d, i) : Needs(d, c) \subseteq There(d, i, F)

\* The operation that ends a callback, provided that nothing sets it off again.
Quiet(d, c) == IF c \in Later(d) THEN CancelSync(c) ELSE Give(c)

\* The callbacks that the operations need not end, since the driver core does, or
\* the file that keeps the module in memory.
Outlives(n, d, c) ==
  \/ c \in d.managed \ Later(d)
  \/ c = "file" /\ c \in Later(d) /\ n \notin Modules

\* The driver core gives back c before r.
After(d, c, r) ==
  \A i, j \in DOMAIN d.probe : d.probe[i].r = c /\ d.probe[j].r = r => j < i

\* What ends c comes after all of K that sets it off, and before what it needs is
\* given back.
Ending(n, d, K, s, end, c) ==
  /\ IF end[c] \in DOMAIN s THEN s[end[c]] = Quiet(d, c)
     ELSE /\ Outlives(n, d, c)
          /\ \A r \in Needs(d, c) \cap d.managed :
               c \in d.managed \ Later(d) /\ After(d, c, r)
  /\ end[c] \in DOMAIN s =>
       \A b \in K \ {c} : c \in d.starts[b] => end[b] < end[c]
  /\ \A k \in DOMAIN s :
       s[k].op = "give" /\ s[k].of \in Needs(d, c) => end[c] < k

\* The operations s end the callbacks of K, each at its moment.
Discipline(n, d, K, s) ==
  \E end \in [K -> 1 .. Len(s) + 1] : \A c \in K : Ending(n, d, K, s, end, c)

\* A removal that uses something itself finds it, if H is there at first.
Used(s, H) ==
  \A k \in DOMAIN s :
    s[k].op = "use" =>
      s[k].of \in H /\ \A l \in 1 .. k - 1 : s[l] # Give(s[k].of)

\* An error path of which the core learns nothing takes nothing away.
Undisturbed(d, K, s) ==
  \A c \in K, k \in DOMAIN s : s[k].op = "give" => s[k].of \notin Needs(d, c)

\* A removal ends what may come then: rmmod of a character device waits until no
\* file is open, and then none is opened.
Gated(n, c) == n \in Modules /\ c = "cdev"
Lasting(n, d, K) == {c \in K : ~ (n \in Modules /\ c = "file" /\ c \in Later(d))}

Removes(n, d, K, H) ==
  LET L == Lasting(n, d, K)
  IN  /\ Used(d.remove, H)
      /\ \A c \in L : Gated(n, c) \/ d.starts[c] \subseteq L
      /\ Discipline(n, d, L, d.remove)

\* Whatever is called, be it by the probe's error paths, the removal or the core,
\* finds what it needs.
Ordered(n, d, F) ==
  /\ NoAbort(d, F)
  /\ \A i \in Reached(d, F) :
       /\ Served(d, i, F)
       /\ IF i \notin Ends(d, F)
          THEN i = Len(d.probe) + 1 =>
                 Removes(n, d, Hot(d, i), There(d, i, F))
          ELSE IF d.probe[i].failure = "error"
          THEN Discipline(n, d, Hot(d, i), Undoing(d, i))
          ELSE /\ Undisturbed(d, Hot(d, i), Undoing(d, i))
               /\ Removes(n, d, Hot(d, i),
                          There(d, i, F) \ Given(Undoing(d, i)))

=============================================================================
