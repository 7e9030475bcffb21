---------------------------- MODULE MCMediaSchedule ----------------------------
(***************************************************************************)
(* MediaSchedule with the rates of model.rs and microseconds: one second   *)
(* of audio is 50 turns, three of video are 90 with a second group of      *)
(* pictures.                                                               *)
(***************************************************************************)
EXTENDS MediaSchedule

MCFragments ==
    [low  |-> [delta |-> 1, key |-> 2],
     high |-> [delta |-> 14, key |-> 20]]

\* One of each type, with one and with two publishers that feature each other; in the mixed
\* ones a publisher of both media, beside one of audio alone or of both; a gallery of two rooms.
MCScenarios ==
    {Smoke(2, 51), AudioMesh(1, 2, 1),
     VideoGallery(1, 3, 1, 3), VideoGallery(1, 3, 2, 3), VideoGallery(2, 3, 1, 1),
     MixedConference(1, 3, 2, 1, 1), MixedConference(1, 3, 2, 2, 1), MixedConference(1, 3, 3, 1, 1)}

\* Two rooms with one publisher each.
TwoRooms == {MixedConference(2, 3, 1, 1, 1)}
===============================================================================
