------------------------------ MODULE MCCallSetup ------------------------------
EXTENDS CallSetup

Setting(audio, css, video, codec) ==
    [audio |-> audio, css |-> css, video |-> video, codec |-> codec]

\* Nothing, video and audio over RTP, audio only, video and audio over the CSS
\* in a codec it has and in one it has not, and the CSS enabled without audio.
MCSettings == {Setting(FALSE, FALSE, FALSE, "amr"), Setting(TRUE, FALSE, TRUE, "amr"),
               Setting(TRUE, FALSE, FALSE, "amr"), Setting(TRUE, TRUE, TRUE, "voip"),
               Setting(TRUE, TRUE, TRUE, "amr"), Setting(FALSE, TRUE, TRUE, "voip")}
\* The last is the one closeSockets() takes for unset.
MCFDs == (0 .. 2) \cup {255}
MCNodes == 0 .. 1
=============================================================================
