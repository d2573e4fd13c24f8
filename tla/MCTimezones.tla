----------------------------- MODULE MCTimezones -----------------------------
\* The time zones for TLC: three zones, one of which is part of another's name,
\* and names of no zone: one found in one zone, one in two, one in none, and one
\* that grep reads an option in and prints a number for.
EXTENDS Timezones

MCZone == {"Europe/Paris", "GMT", "Etc/GMT"}

MCPattern == MCZone \cup {"Paris", "MT", "Gotham"}

MCName == MCPattern \cup {"-c Paris"}

MCLine == MCZone \cup {"1"}

MCMatches ==
    [n \in MCPattern |->
        CASE n \in {"Europe/Paris", "Paris"} -> {"Europe/Paris"}
          [] n \in {"GMT", "MT"}             -> {"GMT", "Etc/GMT"}
          [] n = "Etc/GMT"                   -> {"Etc/GMT"}
          [] n = "Gotham"                    -> {}]
=============================================================================
