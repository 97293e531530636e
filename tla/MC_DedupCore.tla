---------------------------- MODULE MC_DedupCore ----------------------------
(***************************************************************************)
(* Model-checking instances of DedupCore.  Sizes are in abstract units:   *)
(* a share is 4, a container holds 8 (two shares, so the second container *)
(* is allocated), the delta encoder needs a base of 4 and a source of 2.  *)
(* Share C resembles A (they share super feature 1 and C encodes against  *)
(* A to 2 units); D resembles C (super feature 2, 2 units); B resembles   *)
(* nothing.  A share encodes against itself to 1 unit, as xdelta does on  *)
(* identical input.  The bytes of an unfilled data buffer (Zeros) have    *)
(* super features of their own and resemble nothing else.                *)
(***************************************************************************)
EXTENDS DedupCore

CONSTANTS u1, u2, A, B, C, D, f1, f2

MCUsers == {u1, u2}
MCFPs == {A, B, C, D}
MCSFVals == 1..13
MCSF == (A :> <<1, 2, 3>>) @@ (B :> <<4, 5, 6>>) @@ (C :> <<1, 7, 8>>) @@ (D :> <<9, 7, 10>>)
        @@ (Zeros :> <<11, 12, 13>>)
MCShareSize == [fp \in MCFPs |-> 4]
MCXDeltaSize ==
    [p \in (MCFPs \cup {Zeros}) \X (MCFPs \cup {Zeros}) |->
        IF p[1] = p[2] THEN 1
        ELSE IF {p[1], p[2]} \in {{A, C}, {C, D}} THEN 2
        ELSE 5]

\* An upload of file f by user u in fragments fr, and a peer request
\* (PeerInterUserIndex) of user u for share fp.
Up(u, f, fr) == [user |-> u, file |-> f, frags |-> fr, peer |-> FALSE]
PeerPut(u, fp) == [user |-> u, file |-> None, frags |-> << <<fp>> >>, peer |-> TRUE]

\* Clients one after another, as in the spec's scenarios A-E: user 1
\* uploads /a (A, B), uploads it again (all duplicates), user 2 uploads
\* the same file in two fragments, user 1 uploads /b holding C, similar
\* to A, then D, similar to C, which is already a delta; a peer request
\* of user 2 stores C again.
JobSerial ==
    << Up(u1, f1, << <<A, B>> >>),
       Up(u1, f1, << <<A, B>> >>),
       Up(u2, f1, << <<A>>, <<B>> >>),
       Up(u1, f2, << <<C>>, <<D>> >>),
       PeerPut(u2, C) >>

\* Two concurrent uploads of the same file name by one user with
\* different shares: the sessions share one unfinished recipe buffer.
JobSameFile ==
    << Up(u1, f1, << <<A>>, <<B>> >>),
       Up(u1, f1, << <<C, D>> >>) >>

\* Two users uploading the same new share at the same time.
JobSameShare ==
    << Up(u1, f1, << <<A>> >>),
       Up(u2, f1, << <<A>> >>) >>

\* One user uploads /a, then uploads a new version of /a.
JobReupload ==
    << Up(u1, f1, << <<A>> >>),
       Up(u1, f1, << <<B>> >>) >>

\* User 1 uploads /a in two fragments and closes the connection after the
\* first; then uploads /a again in one fragment.
JobAbandon ==
    << Up(u1, f1, << <<A>>, <<B>> >>),
       Up(u1, f1, << <<C>> >>) >>

\* User 1 uploads /a holding A and may hang up before its DATA; then user
\* 2 uploads /b holding A.
JobHangUp ==
    << Up(u1, f1, << <<A>> >>),
       Up(u2, f2, << <<A>> >>) >>

\* One upload; a download may run at any time.
JobSingle ==
    << Up(u1, f1, << <<A>> >>) >>

=============================================================================
