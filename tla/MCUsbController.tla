--------------------------- MODULE MCUsbController ---------------------------
\* UsbController on two devices; a pad is idle or holds its bomb button.
EXTENDS UsbController

CONSTANTS d1, d2, idle, held, nodev
MCDevices == {d1, d2}
MCReports == {idle, held}
==============================================================================
