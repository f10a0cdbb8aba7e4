----------------------------- MODULE TopicPolicy -----------------------------
(***************************************************************************)
(* What the name of a topic decides: how often its messages are forwarded  *)
(* to Unity and with which QoS the endpoint subscribes (subscriber.py).    *)
(* The code looks for tokens in the name; a name is modelled by the set of *)
(* the tokens found in it. Times are in ticks of 1/60 s, of which every    *)
(* interval of the table is a whole number.                                *)
(***************************************************************************)
EXTENDS Naturals, Sequences, FiniteSetsExt

\* A key of _THROTTLE_TABLE and the interval its rate stands for.
Throttle(token, hz) == [token |-> token, interval |-> 60 \div hz]

\* In the order of the dict.
ThrottleTable ==
  << Throttle("/joint_states", 30),
     Throttle("/tf", 20),
     Throttle("/servo_node/status", 10),
     Throttle("/servo_node/collision_velocity_scale", 10),
     Throttle("/speed_scaling_state_broadcaster", 10),
     Throttle("/image_raw/compressed", 30),
     Throttle("/image_raw", 30),
     Throttle("/depth/image_rect_raw", 15),
     Throttle("/aligned_depth_to_color/image_raw", 15),
     Throttle("/gyro/sample", 5),
     Throttle("/accel/sample", 5) >>

StreamTokens == {"/image", "/depth", "/compressed", "/camera_info", "/points",
                 "/gyro", "/accel", "/imu"}

-----------------------------------------------------------------------------
\* The entries whose key is in the name.
Entries(name) == {i \in DOMAIN ThrottleTable : ThrottleTable[i].token \in name}

\* The first entry decides; 0 is no throttle.
ThrottleInterval(name) ==
  IF Entries(name) = {} THEN 0 ELSE ThrottleTable[Min(Entries(name))].interval

IsStream(name) == name \cap StreamTokens # {}

(* QoS. Depth and history, which only bound the queues of ROS, are left out. *)

QoS == [reliable : BOOLEAN, latched : BOOLEAN]

\* RosSubscriber.__init__: a stream is best effort whatever Unity asked for.
SubscriberQoS(name, asked) ==
  [asked EXCEPT !.reliable = @ /\ ~IsStream(name)]

\* DDS connects a subscription to a publisher that offers what it requests.
Matches(offered, requested) ==
  /\ requested.reliable => offered.reliable
  /\ requested.latched => offered.latched
=============================================================================
