SPECIFICATION MCSpec
CONSTANTS
  Item <- MCItem
  Key <- MCKey
PROPERTIES
  ListIsSequence
  TableFindsAll
  BitmapIsSet
