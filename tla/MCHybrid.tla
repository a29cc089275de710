----------------------------- MODULE MCHybrid ------------------------------
EXTENDS HybridTransport

OneWay   == <<3, 0>>
BothWays == <<1, 1>>
OneByte  == <<1, 0>>
TwoEach  == <<2, 2>>
ThreeTwo == <<3, 2>>
FourEach == <<4, 4>>
Anyhow   == {TRUE, FALSE}
TcpUp    == {TRUE}
Zero     == {0}
=============================================================================
