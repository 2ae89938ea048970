------------------------------ MODULE MCWrapped -----------------------------
EXTENDS Wrapped

Node(layers, ugen) == [layers |-> layers, ugen |-> ugen]
Playing(nodes, sends, delays, most) ==
  [nodes |-> nodes, sends |-> sends, delays |-> delays, most |-> most]

AnyFrame == {0, 1, 3}
AtOnce == {0}
Loud == <<"value", Float(Unit)>>
Soft == <<"value", Float(Unit \div 4)>>
Triggers(names) == {<<p, Trigger>> : p \in names}
Action(a) == <<"done_action", Integer(a)>>
Smooth(frames, rate) == <<"value", Smoothing(frames, rate)>>

Value == Constant(0)
Precise == PreciseTiming({"value"})
Rising == [f \in Frames |-> f]
Segments == <<[duration |-> 2, value |-> Unit], [duration |-> 3, value |-> 0]>>

SomeGraphs == {
  Playing(<<Node(<<Precise>>, Value)>>, <<{Loud, Soft}>>, AnyFrame, 4),
  Playing(<<Node(<<Math("add", 1), Precise, Math("sub", 2)>>, Value)>>, <<{Loud, Soft}>>, {0, 2}, 3),
  Playing(<<Node(<<Math("mul", 1), Precise>>, Value)>>, <<{Loud, <<"wr_mul", Float(2)>>}>>,
          {0, 2}, 3),
  Playing(<<Node(<<Math("mul", 2), ArParams(Rising)>>, Value)>>, <<{Loud}>>, AtOnce, 2),
  Playing(<<Node(<<SmoothParams>>, Value)>>,
          <<{Loud, Soft, Smooth(8, "block"), Smooth(2, "audio"), <<"value", NoSmoothing>>}>>,
          AtOnce, 4),
  Playing(<<Node(<<Precise, SmoothParams>>, Value)>>, <<{Loud, Soft, Smooth(8, "block")}>>,
          {0, 2}, 3),
  Playing(<<Node(<<Done("free_self")>>, EnvAsr(2, 4)), Node(<<Done("free_parent")>>, EnvAr(1, 2))>>,
          <<Triggers({"t_restart", "t_release"}), Triggers({"t_restart"}) \cup {Action("none")}>>,
          AtOnce, 4),
  Playing(<<Node(<<Done("free_parent")>>, EnvAr(1, 4)), Node(<<Done("free_parent")>>, EnvAr(0, 1))>>,
          <<Triggers({"t_restart"}), Triggers({"t_restart"})>>, AtOnce, 4),
  Playing(<<Node(<<Done("free_parent")>>, EnvAsr(0, 2)), Node(<<Done("free_self")>>, DoneOnTrig)>>,
          <<Triggers({"t_restart", "t_release"}) \cup {<<"release_time", Float(4)>>},
            Triggers({"t_done"})>>, AtOnce, 3),
  Playing(<<Node(<<Done("free_self")>>, Envelope(0, Segments, FALSE))>>,
          <<Triggers({"t_restart"}) \cup {<<"jump_to_segment", Integer(1)>>,
                                         <<"time_scale", Float(2)>>}>>, AtOnce, 3),
  Playing(<<Node(<<Done("free_parent")>>, Envelope(0, Segments, TRUE))>>,
          <<Triggers({"t_restart", "t_stop"}) \cup {<<"jump_to_segment", Integer(7)>>}>>,
          AtOnce, 3)}
=============================================================================
