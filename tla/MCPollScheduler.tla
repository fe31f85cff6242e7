-------------------------- MODULE MCPollScheduler --------------------------
\* Instances of PollScheduler for TLC: a small one, and the one of const.py
\* in ticks of half a second, the distance RATE_LIMIT_RPS puts between reads.
EXTENDS PollScheduler

SmallHot  == <<"power">>
SmallWarm == <<"humidity">>
SmallCold == <<"filter">>

HOT_PATHS  == <<"power", "mode", "temperature", "fan", "swing", "preset">>
WARM_PATHS == <<"humidity", "energy", "alarms", "light", "autoclean">>
COLD_PATHS == <<"filter", "current">>
=============================================================================
