---------------------------- MODULE MCSettingsPage ----------------------------
EXTENDS SettingsPage

CONSTANTS none, url, k1, k2, x, y, here, there

MCGotify == {none, url}
MCDays == {30, 90}
MCKeys == {k1, k2}
MCNames == {x, y}
MCSessions == {here, there}
MCStart == {[cfg |-> [gotify |-> none, days |-> 30],
             account |-> [passkeys |-> {[id |-> k1, name |-> x]},
                          sessions |-> {here, there}, events |-> 0]]}
=============================================================================
