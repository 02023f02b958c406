SPECIFICATION NotifierSpec
CONSTANTS
  t1 = t1
  t2 = t2
  t3 = t3
  t4 = t4
  t5 = t5
  t6 = t6
  MaxNotifications = 2
  Tokens = {t1, t2, t3, t4, t5, t6}
  NoToken = NoToken
CHECK_DEADLOCK FALSE
INVARIANTS LoneNotificationDelivered OneMessage
PROPERTIES NotificationsEnd
