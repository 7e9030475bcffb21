-------------------------- MODULE MCWorkloadAgreement --------------------------
(***************************************************************************)
(* Comparison, and WorkloadAgreement under it, with the rates and frame    *)
(* sizes of model.rs, over every small topology, the legal and the illegal *)
(* ones, and the six nightly profiles.                                     *)
(***************************************************************************)
EXTENDS Comparison

MCFragments ==
    [low  |-> [delta |-> 1, key |-> 2],
     high |-> [delta |-> 14, key |-> 20]]

Nightly ==
    {AudioMesh(1, 8, 30), AudioMesh(2, 12, 60), AudioMesh(3, 12, 120), AudioMesh(1, 28, 120),
     VideoGallery(1, 12, 4, 30), VideoGallery(1, 64, 10, 60)}

\* Three seconds are one whole group of pictures and a half.  Smoke runs of 50 to 53 packets are
\* on both sides of a second, and two have one rate.
MCCandidates ==
    {Smoke(r, n) : r \in {0, 1, 3, 99, 100}, n \in {0, 1} \union 50 .. 53}
    \union {AudioMesh(r, p, t) : r \in 0 .. 3, p \in 1 .. 4, t \in {0, 1, 3}}
    \union {VideoGallery(r, p, v, t) : r \in 1 .. 3, p \in 2 .. 5, v \in 0 .. 5, t \in {1, 3}}
    \union {MixedConference(r, p, a, v, t) :
                r \in 1 .. 2, p \in 2 .. 5, a \in 0 .. 5, v \in 0 .. 4, t \in {1, 3}}
    \union {VideoGallery(1, 12, v, 1) : v \in 10 .. 11}
    \union {AudioMesh(64, 2, 1), AudioMesh(1, 101, 1), AudioMesh(65, 2, 1), AudioMesh(1, 2, 3601)}
    \union Nightly

\* One scenario paced by audio packets and one by video frames.
MCCompared == {AudioMesh(1, 2, 1), VideoGallery(1, 3, 1, 1)}
===============================================================================
