\* lltd_wifi_rates.h:106 against calc_max_rate for VHT at 20 MHz.
SPECIFICATION Spec
CONSTANTS
    Streams = {2}
    Codings = {0, 8}
INVARIANT MaxIsBest
CHECK_DEADLOCK FALSE
