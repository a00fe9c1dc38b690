------------------------------- MODULE MCHost -------------------------------
EXTENDS Host
MCPortOf == <<"pwm", "pwm">>
MCOutSize == [p \in Ports |-> 1]
MCTexts == {33}
MCPwm == {<<7, 8>>, <<14>>}
MCOled == {<<1>>}
=============================================================================
