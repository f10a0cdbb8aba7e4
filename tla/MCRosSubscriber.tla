--------------------------- MODULE MCRosSubscriber ---------------------------
(* RosSubscriber on small instances.                                       *)
EXTENDS RosSubscriber, TLC

\* A camera, a topic without a throttle, and the topic of the second entry that
\* matches it.
Image   == {"/image", "/image_raw"}
Odom    == {}
Aligned == {"/image", "/image_raw", "/aligned_depth_to_color/image_raw"}

MCNames      == {Image, Odom}
AlignedNames == {Aligned}

\* What drivers of cameras and other sensors publish with.
MCOffers == {[reliable |-> FALSE, latched |-> FALSE]}

Symmetry == Permutations(Threads)
=============================================================================
