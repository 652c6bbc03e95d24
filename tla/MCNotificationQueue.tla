------------------------- MODULE MCNotificationQueue -------------------------
EXTENDS NotificationQueue
=============================================================================
