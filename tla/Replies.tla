------------------------------ MODULE Replies -------------------------------
(***************************************************************************)
(* How much of a server's reply is kept, and which redirects are followed   *)
(* (core/src/network.rs).                                                   *)
(***************************************************************************)
EXTENDS Integers, Sequences, SequencesExt

CONSTANT MaxRedirects   \* redirects followed (10 in the code)

Sum(chunks) == FoldLeft(LAMBDA a, b : a + b, 0, chunks)

\* Mutant: a body that fills the limit is refused.
ReadBodyShort(chunks, declared, limit) ==
    IF declared > limit THEN [ok |-> FALSE, kept |-> 0]
    ELSE FoldLeft(LAMBDA so, chunk : IF ~so.ok \/ chunk >= limit - so.kept THEN [so EXCEPT !.ok = FALSE]
                                     ELSE [so EXCEPT !.kept = @ + chunk],
                  [ok |-> TRUE, kept |-> 0], chunks)

\* read_body: a size that is declared is believed only to refuse it; chunks
\* are counted before they are kept.  declared is -1 if it is not.
ReadBody(chunks, declared, limit) ==
    IF declared > limit THEN [ok |-> FALSE, kept |-> 0]
    ELSE FoldLeft(LAMBDA so, chunk : IF ~so.ok \/ chunk > limit - so.kept THEN [so EXCEPT !.ok = FALSE]
                                     ELSE [so EXCEPT !.kept = @ + chunk],
                  [ok |-> TRUE, kept |-> 0], chunks)

\* is_scheme_downgrade.
IsSchemeDowngrade(next, previous) == next # "https" /\ \E i \in DOMAIN previous : previous[i] = "https"

\* Mutant: the first request counts as a redirect.
MayFollowFewer(next, previous) == Len(previous) < MaxRedirects /\ ~IsSchemeDowngrade(next, previous)

\* redirect_policy: previous holds the first request too.
MayFollow(next, previous) == Len(previous) <= MaxRedirects /\ ~IsSchemeDowngrade(next, previous)

\* The requests a client makes of the addresses it is sent to.
Requests(chain) ==
    FoldLeft(LAMBDA so, next : IF so.ok /\ MayFollow(next, so.made) THEN [so EXCEPT !.made = Append(@, next)]
                               ELSE [so EXCEPT !.ok = FALSE],
             [ok |-> TRUE, made |-> <<chain[1]>>], Tail(chain))

-----------------------------------------------------------------------------
(* What both promise, of one reply and of one chain of addresses.           *)

\* Whatever a server declares, and however it cuts its reply up, no more than
\* the limit is kept, and a reply within it is kept whole (read_body).
Bounded(chunks, declared, limit) ==
    LET so == ReadBody(chunks, declared, limit)
        sum == Sum(chunks)
    IN  /\ so.kept <= limit
        /\ so.ok <=> (sum <= limit /\ declared <= limit)
        /\ so.ok => so.kept = sum

Downgraded(chain) ==
    \E i, j \in DOMAIN chain : i < j /\ chain[i] = "https" /\ chain[j] # "https"

\* Nothing is asked for in the clear after an encrypted request, at whatever
\* distance; a chain without that is followed to its end, up to the limit and
\* never beyond (redirect_policy).
Followed(chain) ==
    LET so == Requests(chain) IN
    /\ so.ok <=> (~Downgraded(chain) /\ Len(chain) <= MaxRedirects + 1)
    /\ so.ok => so.made = chain
    /\ ~Downgraded(so.made) /\ Len(so.made) <= MaxRedirects + 1
=============================================================================
