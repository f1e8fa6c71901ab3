----------------------------- MODULE MCScheduler -----------------------------
(* Constants of the small instances of Scheduler. *)
EXTENDS Scheduler, TLC

CONSTANTS c1, c2, c3, img, twin, other, slug, slug2, wardu, team, ghost

MCCall == {c1, c2, c3}
MCImage == {img, twin, other}
MCSlug == {slug, slug2}

(* Two images, such as a/b and a-b, that a Deployment name does not tell apart. *)
MCSlugOf == img :> slug @@ twin :> slug @@ other :> slug2
MCNamespace == {wardu, team}

Submit(image, ns, autorun) == [image |-> image, ns |-> ns, autorun |-> autorun]

(* Two submissions of one new image at once, one of its twin. *)
OneTeam == c1 :> Submit(img, team, TRUE) @@ c2 :> Submit(img, team, TRUE)
           @@ c3 :> Submit(twin, team, FALSE)

(* One image from two namespaces, and a namespace that does not exist. *)
TwoTeams == c1 :> Submit(img, team, TRUE) @@ c2 :> Submit(img, wardu, TRUE)
            @@ c3 :> Submit(other, ghost, FALSE)
=============================================================================
