---------------------------- MODULE MCRTPReceiver ----------------------------
EXTENDS RTPReceiver

\* A stream of the given format: packet k has the kind and time of the k-th
\* pair.
MCStream(f, pairs) ==
    [format |-> f,
     packets |-> [k \in DOMAIN pairs |-> [kind |-> pairs[k][1],
                                          time |-> pairs[k][2]]]]

MCStreams ==
    { MCStream("H264", << <<"single", 1>>, <<"start", 2>>, <<"middle", 2>>,
                          <<"end", 2>>, <<"single", 3>>, <<"single", 4>> >>),
      MCStream("H264", << <<"single", 1>>, <<"torn", 2>>, <<"single", 2>>,
                          <<"start", 3>>, <<"bad", 3>>, <<"single", 4>> >>),
      MCStream("H263", << <<"single", 1>>, <<"single", 1>>, <<"bad", 2>>,
                          <<"single", 2>>, <<"single", 3>>, <<"single", 4>> >>),
      MCStream("AMR", << <<"single", 1>>, <<"single", 2>>, <<"bad", 3>>,
                         <<"single", 4>>, <<"single", 5>>, <<"single", 6>> >>),
      MCStream("MPEG4", << <<"single", 1>>, <<"single", 1>>, <<"single", 2>>,
                           <<"single", 3>>, <<"bad", 3>> >>),
      MCStream("LATM", << <<"single", 1>>, <<"single", 2>>, <<"single", 3>>,
                          <<"single", 3>>, <<"single", 4>> >>) }
=============================================================================
